--------------------------- MODULE HiddenLatency ---------------------------
(***************************************************************************)
(* HiddenLatencyAnalysis::analyze: for every (SE, SIMD) of the trace, the  *)
(* instructions of all its waves are queued by pipe, which gives the       *)
(* periods in which the pipe is busy; the periods are united by priority   *)
(* (BusyUnion), and the cycles that each token idled, stalled and issued   *)
(* within those of its own or a higher pipe are summed up by code line.    *)
(*                                                                         *)
(* FLAT and LDS tokens are treated as VMEM ones and SMEM as SALU ones, and *)
(* stand under those names.  A token runs from its clock for its cycles,   *)
(* of which it stalls the first, as the readers of the wave files ensure.  *)
(* The queues are filled wave by wave, the results token by token.         *)
(***************************************************************************)
EXTENDS BusyUnion, Ranking, FiniteSetsExt, SequencesExt

CONSTANTS Lines,        \* code lines
          Horizon,      \* a clock by which every trace is over
          Traces        \* [scopes, waves : Seq([scope, readable, begin, tokens]), others : se -> Seq(Util), plots, decoded]

Types == {"WMMA", "VALU", "VMEM", "SALU", "OTHERS"}

(* The pairs of wave_hierarchy, a map, differ; clocks are those of the     *)
(* trace, from 0 to Horizon; and an engine without records of other SIMDs  *)
(* has none.  Of the other fields nothing is asked here.                   *)
TokenFits(t) ==
    /\ t.type \in Types /\ t.line \in Lines
    /\ t.clock \in Nat /\ t.cycles \in Nat /\ t.stall \in 0 .. t.cycles
    /\ t.clock + t.cycles <= Horizon + 1

TracesAssumption ==
    /\ Horizon \in Nat
    /\ \A tr \in Traces :
        /\ tr.scopes \in Seq(Range(tr.scopes)) /\ IsInjective(tr.scopes)
        /\ tr.waves \in Seq(Range(tr.waves))
        /\ \A w \in Range(tr.waves) :
              /\ w.readable \in BOOLEAN /\ w.begin \in Int
              /\ w.tokens \in Seq(Range(w.tokens))
              /\ \A t \in Range(w.tokens) : TokenFits(t)
        /\ \A s \in Range(tr.scopes) : tr.others[s[1]] \in Seq([clock : Nat, cycles : Nat])
ASSUME TracesAssumption

VARIABLES trace,
          pc,
          scope,        \* number of the pair being analysed, in wave_hierarchy
          wave,         \* number of the wave being read or analysed
          token,        \* number of the token being analysed
          last_time,
          busy,         \* wmma, valu, vmem, scal and the unions: lists by name
          lineHidden,   \* line_to_hidden
          byLine,       \* hidden_latency_by_line
          analyzed      \* hidden_latency_analyzed

resultVars == <<byLine, analyzed>>
tokenVars == <<token, last_time, lineHidden>>
vars == <<unionVars, trace, pc, scope, wave, tokenVars, busy, resultVars>>

Pipes == {"wmma", "valu", "vmem", "scal"}
Unions == <<"math", "vector", "all">>
Lists == Pipes \cup ToSet(Unions)
Hidden == [idle : Nat, stall : Nat, issue : Nat]
Nothing == [idle |-> 0, stall |-> 0, issue |-> 0]
Plus(g, h) == [k \in DOMAIN g |-> g[k] + h[k]]
Total(h) == h.idle + h.stall + h.issue

NoHidden == [l \in Lines |-> Nothing]
NoneBusy == [p \in Lists |-> <<>>]

Scopes == trace.scopes
Here(w) == trace.waves[w].scope = Scopes[scope] /\ trace.waves[w].readable
Tokens == trace.waves[wave].tokens

-----------------------------------------------------------------------------
(* The cycles that a token keeps its pipes busy, queued by the clock at    *)
(* which they begin: WMMA ones keep the VALU busy as well, for three       *)
(* quarters of the time.                                                   *)
IssueOf(t) == [clock |-> t.clock + t.stall, cycles |-> t.cycles - t.stall]
PipesOf == [WMMA |-> {"wmma", "valu"}, VALU |-> {"valu"}, VMEM |-> {"vmem"}, SALU |-> {"scal"}, OTHERS |-> {}]
UtilOf(p, t) ==
    IF t.type = "WMMA" /\ p = "valu" THEN [IssueOf(t) EXCEPT !.cycles = (3 * @) \div 4] ELSE IssueOf(t)

Queued(p, tokens) ==
    Arranged([i \in DOMAIN tokens |-> UtilOf(p, tokens[i])], [i \in DOMAIN tokens |-> i],
             {i \in DOMAIN tokens : p \in PipesOf[tokens[i].type]})

(* compute_util: a record that begins within the last period, or at its    *)
(* end, adds its cycles to the period; the clocks are then those of ends.  *)
AddCycles(out0, u) ==
    LET last == out0[Len(out0)]
    IN  IF u.clock > last.clock + last.cycles THEN Append(out0, u)
        ELSE [out0 EXCEPT ![Len(out0)].cycles = @ + u.cycles]

ComputeUtil(in) ==
    IF in = <<>> THEN in
    ELSE LET sorted == Arranged(in, [i \in DOMAIN in |-> in[i].clock], DOMAIN in)
             begun  == FoldLeft(AddCycles, <<[sorted[1] EXCEPT !.cycles = 0]>>, sorted)
         IN  [i \in DOMAIN begun |-> [begun[i] EXCEPT !.clock = @ + begun[i].cycles]]

-----------------------------------------------------------------------------
MinOf(x, y) == IF y < x THEN y ELSE x
MaxOf(x, y) == IF x < y THEN y ELSE x

Overlap(u, start, cycles) ==
    LET delta == MinOf(u.clock - start, start + cycles - BeginOf(u))
    IN  MaxOf(MinOf(delta, MinOf(cycles, u.cycles)), 0)

(* compute_intersection: the periods from the first that ends no earlier   *)
(* than the interval begins, up to the first that begins after its end.    *)
Intersection(vec, start, cycles) ==
    IF cycles <= 0 THEN 0
    ELSE LET met == {i \in DOMAIN vec : vec[i].clock >= start /\ BeginOf(vec[i]) <= start + cycles}
         IN  SumFunction([i \in met |-> Overlap(vec[i], start, cycles)])

ComputeInterval(vec, last, t) ==
    [idle  |-> Intersection(vec, last, t.clock - last),
     stall |-> Intersection(vec, t.clock, t.stall),
     issue |-> Intersection(vec, IssueOf(t).clock, IssueOf(t).cycles)]

WithoutIssue(h) == [h EXCEPT !.issue = 0]
Greater(g, h) == IF Total(g) > Total(h) THEN g ELSE h

(* Faulty: a token is hidden by its own pipe while it issues.              *)
HiddenByItself(t, last) ==
    LET By(list) == ComputeInterval(busy[list], last, t)
    IN  CASE t.type = "WMMA"  -> Greater(By("valu"), By("wmma"))
          [] t.type = "VALU"  -> Greater(By("valu"), By("wmma"))
          [] t.type = "VMEM"  -> Greater(By("math"), By("vmem"))
          [] t.type = "SALU"  -> Greater(By("vector"), By("scal"))
          [] t.type = "OTHERS" -> By("all")

(* WMMA hides all, VALU all but WMMA, VMEM scalars and others, scalars     *)
(* others; its own pipe hides a token only until it issues.                *)
HiddenOf(t, last) ==
    LET By(list) == ComputeInterval(busy[list], last, t)
    IN  CASE t.type = "WMMA"  -> Greater(WithoutIssue(By("valu")), WithoutIssue(By("wmma")))
          [] t.type = "VALU"  -> Greater(WithoutIssue(By("valu")), By("wmma"))
          [] t.type = "VMEM"  -> Greater(By("math"), WithoutIssue(By("vmem")))
          [] t.type = "SALU"  -> Greater(By("vector"), WithoutIssue(By("scal")))
          [] t.type = "OTHERS" -> By("all")

-----------------------------------------------------------------------------
Idle == pc = "idle"

Init ==
    /\ trace \in Traces
    /\ Merging(<<>>, <<>>)
    /\ pc = "idle"
    /\ scope = 1 /\ wave = 1 /\ token = 1
    /\ last_time = 0
    /\ busy = NoneBusy
    /\ lineHidden = NoHidden
    /\ byLine = NoHidden
    /\ analyzed = FALSE

(* analyze returns, and its locals are gone.                               *)
Return ==
    /\ pc' = "idle"
    /\ scope' = 1 /\ wave' = 1 /\ token' = 1
    /\ last_time' = 0
    /\ busy' = NoneBusy
    /\ lineHidden' = NoHidden
    /\ va' = <<>> /\ vb' = <<>> /\ a' = 1 /\ b' = 1 /\ out' = <<>>

(* The loop over the pairs: analyzeScoped begins for the next one, with    *)
(* nothing queued, or all are analysed.                                    *)
NextScope(n) ==
    IF n <= Len(Scopes)
    THEN /\ scope' = n
         /\ wave' = 1
         /\ busy' = NoneBusy
         /\ pc' = "read"
         /\ analyzed' = FALSE
         /\ UNCHANGED <<unionVars, tokenVars>>
    ELSE /\ Return
         /\ analyzed' = TRUE

(* analyze begins, after a load or from the menu.                          *)
Analyze ==
    /\ Idle
    /\ NextScope(1)
    /\ byLine' = NoHidden
    /\ UNCHANGED trace

(* buildUtil, for the waves of the pair that can be read.                  *)
ReadWave ==
    /\ pc = "read"
    /\ wave <= Len(trace.waves)
    /\ busy' = IF Here(wave) THEN [p \in Lists |-> busy[p] \o Queued(p, Tokens)] ELSE busy
    /\ wave' = wave + 1
    /\ UNCHANGED <<unionVars, trace, pc, scope, tokenVars, resultVars>>

(* The token types of the configuration lack a pipe, or a wave throws.     *)
FailScope ==
    /\ pc = "read"
    /\ Return
    /\ byLine' = NoHidden
    /\ UNCHANGED <<trace, analyzed>>

(* The records of the other SIMDs of the engine occupy the VMEM pipe, then *)
(* the queues become busy periods, and the first union begins.             *)
ComputePipes ==
    /\ pc = "read"
    /\ wave > Len(trace.waves)
    /\ LET records == trace.others[Scopes[scope][1]]
           others == Arranged(records, [i \in DOMAIN records |-> i], {i \in DOMAIN records : records[i].cycles > 0})
           queued == [busy EXCEPT !.vmem = @ \o others]
           pipes  == [p \in Lists |-> IF p \in Pipes THEN ComputeUtil(queued[p]) ELSE <<>>]
       IN  /\ busy' = pipes
           /\ va' = pipes.valu
           /\ vb' = pipes.wmma
    /\ a' = 1 /\ b' = 1 /\ out' = <<>>
    /\ pc' = "math"
    /\ UNCHANGED <<trace, scope, wave, tokenVars, resultVars>>

Merge ==
    /\ pc \in ToSet(Unions)
    /\ MergeNext
    /\ UNCHANGED <<trace, pc, scope, wave, tokenVars, busy, resultVars>>

(* A union is complete; the next one is of it and the pipe below.          *)
NextUnion ==
    /\ pc \in {"math", "vector"}
    /\ Merged
    /\ busy' = [busy EXCEPT ![pc] = out]
    /\ pc' = IF pc = "math" THEN "vector" ELSE "all"
    /\ va' = out
    /\ vb' = IF pc = "math" THEN busy.vmem ELSE busy.scal
    /\ a' = 1 /\ b' = 1 /\ out' = <<>>
    /\ UNCHANGED <<trace, scope, wave, tokenVars, resultVars>>

LastUnion ==
    /\ pc = "all"
    /\ Merged
    /\ busy' = [busy EXCEPT !.all = out]
    /\ pc' = "analyze"
    /\ wave' = 1
    /\ token' = 1
    /\ lineHidden' = NoHidden
    /\ UNCHANGED <<unionVars, trace, scope, last_time, resultVars>>

(* A token of analyzeWave; the first idles from the beginning of its wave. *)
AnalyzeToken ==
    /\ pc = "analyze"
    /\ wave <= Len(trace.waves)
    /\ Here(wave)
    /\ token <= Len(Tokens)
    /\ LET t    == Tokens[token]
           last == IF token = 1 THEN trace.waves[wave].begin ELSE last_time
       IN  /\ lineHidden' = [lineHidden EXCEPT ![t.line] = Plus(@, HiddenOf(t, last))]
           /\ last_time' = t.clock + t.cycles
    /\ token' = token + 1
    /\ UNCHANGED <<unionVars, trace, pc, scope, wave, busy, resultVars>>

NextWave ==
    /\ pc = "analyze"
    /\ wave <= Len(trace.waves)
    /\ Here(wave) => token > Len(Tokens)
    /\ wave' = wave + 1
    /\ token' = 1
    /\ UNCHANGED <<unionVars, trace, pc, scope, last_time, lineHidden, busy, resultVars>>

(* The results of the pair are added to those of the store.                *)
EndScope ==
    /\ pc = "analyze"
    /\ wave > Len(trace.waves)
    /\ byLine' = [l \in Lines |-> Plus(byLine[l], lineHidden[l])]
    /\ NextScope(scope + 1)
    /\ UNCHANGED trace

Next ==
    \/ Analyze \/ ReadWave \/ FailScope \/ ComputePipes
    \/ Merge \/ NextUnion \/ LastUnion
    \/ AnalyzeToken \/ NextWave \/ EndScope

Spec == Init /\ [][Next]_vars

-----------------------------------------------------------------------------
(***************************************************************************)
(* The reference: a pipe is a server that works off one cycle of what is   *)
(* queued for it per cycle.                                                *)
(***************************************************************************)
TokensOf(s) ==
    UNION {{w} \X DOMAIN trace.waves[w].tokens :
             w \in {v \in DOMAIN trace.waves : trace.waves[v].scope = s /\ trace.waves[v].readable}}
At(x) == trace.waves[x[1]].tokens[x[2]]

Work(p, t) ==
    LET cycles == t.cycles - t.stall
    IN  CASE p = "valu" /\ t.type = "WMMA" -> (3 * cycles) \div 4
          [] t.type = [wmma |-> "WMMA", valu |-> "VALU", vmem |-> "VMEM", scal |-> "SALU"][p] -> cycles
          [] OTHER -> 0

Arrivals(p, s) ==
    LET own   == TokensOf(s)
        other == IF p = "vmem" THEN trace.others[s[1]] ELSE <<>>
    IN  [c \in 0 .. Horizon |->
            SumFunction([x \in {y \in own : At(y).clock + At(y).stall = c} |-> Work(p, At(x))])
          + SumFunction([i \in {j \in DOMAIN other : other[j].clock = c} |-> other[i].cycles])]

BusyCycles(p, s) ==
    LET new == Arrivals(p, s)
        Serve(q, c) == LET left == new[c] + MaxOf(q.left - 1, 0)
                       IN  [left |-> left, busy |-> IF left > 0 THEN q.busy \cup {c} ELSE q.busy]
    IN  FoldLeft(Serve, [left |-> 0, busy |-> {}], [i \in 1 .. Horizon + 1 |-> i - 1]).busy

(* The cycles in which a token idles, stalls and issues.                   *)
Spent(x) ==
    LET w == trace.waves[x[1]]
        k == x[2]
        t == At(x)
        last == IF k = 1 THEN w.begin ELSE w.tokens[k - 1].clock + w.tokens[k - 1].cycles
    IN  [idle  |-> last .. t.clock - 1,
         stall |-> t.clock .. t.clock + t.stall - 1,
         issue |-> t.clock + t.stall .. t.clock + t.cycles - 1]

(* How many of them are hidden: those in which a higher pipe is busy or,   *)
(* if these are more, those it waits in while its own pipe is.             *)
ReferenceTotal(x, cycles) ==
    LET type   == At(x).type
        own    == [WMMA |-> {"wmma", "valu"}, VALU |-> {"valu"}, VMEM |-> {"vmem"}, SALU |-> {"scal"}, OTHERS |-> {}]
        above  == [WMMA |-> {}, VALU |-> {"wmma"}, VMEM |-> {"wmma", "valu"},
                   SALU |-> {"wmma", "valu", "vmem"}, OTHERS |-> Pipes]
        higher  == UNION {cycles[p] : p \in above[type]}
        spent   == Spent(x)
        waiting == spent.idle \cup spent.stall
    IN  Max({Cardinality(cycles[p] \cap waiting) : p \in own[type]}
            \cup {Cardinality(higher \cap (waiting \cup spent.issue))})

(* When an analysis is complete, whatever was analysed before, the hidden  *)
(* latency of a line is that of all its tokens in all waves that could be  *)
(* read, each counted once and among the waves of its own SIMD, and none   *)
(* of its parts exceeds what the tokens spent so; when an analysis failed, *)
(* no line has any.  The hidden latency of a token is that of the code's   *)
(* order of pipes; the documents promise more (OtherPipesHide).            *)
HiddenExact ==
    Idle =>
      IF ~analyzed THEN byLine = NoHidden
      ELSE LET scopes == ToSet(Scopes)
               cycles == [s \in scopes |-> [p \in Pipes |-> BusyCycles(p, s)]]
               of     == [l \in Lines |-> {x \in UNION {TokensOf(s) : s \in scopes} : At(x).line = l}]
           IN  \A l \in Lines :
                 /\ Total(byLine[l]) =
                      SumFunction([x \in of[l] |-> ReferenceTotal(x, cycles[trace.waves[x[1]].scope])])
                 /\ \A part \in DOMAIN Nothing :
                      byLine[l][part] <= SumFunction([x \in of[l] |-> Cardinality(Spent(x)[part])])

(* "A wave's idle or stalled cycles are hidden when another pipe is busy"  *)
(* (README.md:479, docs/conceptual/hidden_latency.rst:13): of every line   *)
(* at least the cycles that its tokens wait in while any other pipe of     *)
(* their SIMD is busy.                                                     *)
OtherPipesHide ==
    Idle /\ analyzed =>
      LET scopes  == ToSet(Scopes)
          cycles  == [s \in scopes |-> [p \in Pipes |-> BusyCycles(p, s)]]
          own     == [WMMA |-> {"wmma"}, VALU |-> {"valu"}, VMEM |-> {"vmem"}, SALU |-> {"scal"},
                      OTHERS |-> {}]
          Elsewhere(x) == UNION {cycles[trace.waves[x[1]].scope][p] : p \in Pipes \ own[At(x).type]}
          of      == [l \in Lines |-> {x \in UNION {TokensOf(s) : s \in scopes} : At(x).line = l}]
      IN  \A l \in Lines :
            Total(byLine[l]) >=
              SumFunction([x \in of[l] |->
                  Cardinality((Spent(x).idle \cup Spent(x).stall) \cap Elsewhere(x))])
=============================================================================
