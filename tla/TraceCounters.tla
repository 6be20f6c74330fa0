--------------------------- MODULE TraceCounters ---------------------------
(***************************************************************************)
(* The counters of a trace: samples of a bank of counters per CU, which    *)
(* the counter nodes fill with zeros where a CU stopped reporting, add up  *)
(* over CUs for the raw curves, and sort into a grid of times for the      *)
(* tensors.  A store of them is                                            *)
(*   [view, names, banks : Seq(se -> Seq([time, cu, events])),             *)
(*    rclock : se -> Seq([gfx, realtime])].                                *)
(***************************************************************************)
EXTENDS Tensors

CONSTANT CntBank        \* CNT_BANK: the counters of a bank

MinimumDelta == 32
MaximumDelta == 4096
Cus == 0 .. 15

VerifySkew(first, second) ==
    LET low == Min({first, second})  high == Max({first, second})
    IN  IF high <= (8 * low) \div 7 THEN high ELSE low

-----------------------------------------------------------------------------
(* The nodes of a bank: the samples of each CU of each engine that has any *)
(* samples in the bank, by time.                                           *)
Nodes(bank) ==
    LET engines == {se \in DOMAIN bank : bank[se] # <<>>}
        sorted  == [se \in engines |-> SortSeq(bank[se], LAMBDA d, e : d.time < e.time)]
    IN  [x \in engines \X Cus |-> SelectSeq(sorted[x[1]], LAMBDA d : d.cu % 16 = x[2])]
Engines(nodes) == {x[1] : x \in DOMAIN nodes}

CuDelta(data) ==
    Min({MaximumDelta} \cup {d \in {data[i + 1].time - data[i].time : i \in 1 .. Len(data) - 1} : d >= MinimumDelta})

SeDelta(nodes, se) == Min({CuDelta(nodes[<<se, cu>>]) : cu \in Cus})

(* The smallest delta of the engines, or the second if it is close to it.  *)
GpuDelta(nodes) ==
    LET deltas == {SeDelta(nodes, se) : se \in Engines(nodes)} \ {MaximumDelta}
        least  == Min(deltas)
    IN  CASE deltas = {} -> MaximumDelta
          [] Cardinality(deltas) = 1 -> least
          [] OTHER -> VerifySkew(least, Min(deltas \ {least}))

Delta(banks) ==
    FoldLeft(LAMBDA d, bank : VerifySkew(d, GpuDelta(Nodes(bank))), 2^30, banks)

(* fillDelta: a CU is silent, and counts nothing, from a delta after its   *)
(* last sample to its next.                                                *)
FillDelta(data, delta) ==
    LET Zero(time) == [data[1] EXCEPT !.time = time, !.events = [c \in DOMAIN @ |-> 0]]
        Fill(filled, d) ==
            IF filled # <<>> /\ d.time > Last(filled).time + delta
            THEN filled \o <<Zero(Last(filled).time + delta), d>>
            ELSE Append(filled, d)
    IN  FoldLeft(Fill, <<>>, data)

FilledNodes(store) ==
    LET delta == Delta(store.banks)
    IN  [bank \in DOMAIN store.banks |->
            LET nodes == Nodes(store.banks[bank]) IN [x \in DOMAIN nodes |-> FillDelta(nodes[x], delta)]]

-----------------------------------------------------------------------------
(* A sample replaces what its CU counted before; points no more than four  *)
(* clocks after the last one replace it.                                   *)
Accumulate(acc, d) ==
    LET total == [c \in 1 .. CntBank |->
                     Last(acc.points).events[c] + d.events[c] - acc.last[<<d.se, d.cu>>][c]]
        point == [time |-> d.time, events |-> total]
    IN  [last   |-> [acc.last EXCEPT ![<<d.se, d.cu>>] = d.events],
         points |-> IF Last(acc.points).time + 4 < d.time THEN Append(acc.points, point)
                    ELSE Append(Front(acc.points), point)]

(* AccumFromMask for all engines and CUs; it starts from zero at time 0.   *)
AccumAll(nodes) ==
    LET zero == [c \in 1 .. CntBank |-> 0]
        Of(x) == [i \in DOMAIN nodes[x] |->
                     [time |-> nodes[x][i].time, se |-> x[1], cu |-> x[2], events |-> nodes[x][i].events]]
        all   == FoldSet(LAMBDA x, found : found \o Of(x), <<>>, DOMAIN nodes)
        start == [last |-> [x \in DOMAIN nodes |-> zero], points |-> <<[time |-> 0, events |-> zero]>>]
    IN  IF all = <<>> THEN <<>>
        ELSE FoldLeft(Accumulate, start, SortSeq(all, LAMBDA d, e : d.time < e.time)).points

-----------------------------------------------------------------------------
(* computeTimeGrid: as many samples as there are deltas from the first     *)
(* sample to the last, and the engines and CUs that have any.              *)
TimeGrid(nodes, delta) ==
    LET times(bank) == UNION {{nodes[bank][x][i].time : i \in DOMAIN nodes[bank][x]} : x \in DOMAIN nodes[bank]}
        found == {bank \in DOMAIN nodes : times(bank) # {}}
        first == Min({(Min(times(bank)) \div delta) * delta : bank \in found})
        last  == Max({(Max(times(bank)) \div delta + 1) * delta : bank \in found})
        seen  == UNION {{x \in DOMAIN nodes[bank] : nodes[bank][x] # <<>>} : bank \in DOMAIN nodes}
    IN  IF found = {} THEN [valid |-> FALSE]
        ELSE [valid |-> TRUE, first |-> first, samples |-> Max({1, (last - first) \div delta}),
              ses |-> 1 + Max(UNION {Engines(nodes[bank]) : bank \in DOMAIN nodes}),
              cus |-> 1 + Max({0} \cup {x[2] : x \in seen})]

TimeIndex(time, grid, delta) == (time - grid.first + delta \div 4) \div delta

(* buildCounterTensors: the tensor of counter c of a bank.                 *)
CounterTensor(nodes, grid, delta, c) ==
    LET dim == <<1, grid.ses, grid.cus, grid.samples>>
        Bin(i) == LET at == MultiIndex(dim, i)
                      x  == <<at[2], at[3]>>
                  IN  IF x \notin DOMAIN nodes THEN {}
                      ELSE {<<x, k>> : k \in {j \in DOMAIN nodes[x] : TimeIndex(nodes[x][j].time, grid, delta) = at[4]}}
    IN  Whole(dim, [i \in 0 .. TotalSize(dim) - 1 |->
                       MapThenSumSet(LAMBDA e : nodes[e[1]][e[2]].events[c], Bin(i))])

(* RCLOCK: the pairs of shader clock and realtime since the first one.     *)
RealtimeTensor(rclock) ==
    LET dim == <<1, Max(DOMAIN rclock) + 1, 2, Max({Len(rclock[se]) : se \in DOMAIN rclock})>>
        sorted  == [se \in DOMAIN rclock |-> SortSeq(rclock[se], LAMBDA d, e : d.gfx < e.gfx)]
        initial == Min(UNION {{rclock[se][i].realtime : i \in DOMAIN rclock[se]} : se \in DOMAIN rclock})
        At(c) == IF c[2] \notin DOMAIN rclock \/ c[4] >= Len(rclock[c[2]]) THEN 0
                 ELSE IF c[3] = 0 THEN sorted[c[2]][c[4] + 1].gfx
                 ELSE sorted[c[2]][c[4] + 1].realtime - initial
    IN  Whole(dim, [i \in 0 .. TotalSize(dim) - 1 |-> At(MultiIndex(dim, i))])
=============================================================================
