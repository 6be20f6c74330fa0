-------------------------- MODULE MC_IsaCallback --------------------------
(* Two decoding threads, and traces that take each way of finding the      *)
(* offset: symbols (the last one wins), rows seeded from code.json, a      *)
(* symbol at address 0 with rows to fall back on, and none of these.       *)
EXTENDS IsaCallback

MCPcs == {0, 1}
MCTraces ==
    { [symbols |-> {1, 3}, code |-> 1 .. 4, seeded |-> {}],
      [symbols |-> {},     code |-> {},     seeded |-> {2, 4}],
      [symbols |-> {0},    code |-> {2, 3}, seeded |-> {2}],
      [symbols |-> {},     code |-> {},     seeded |-> {}] }
=============================================================================
