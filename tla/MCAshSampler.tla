---------------------------- MODULE MCAshSampler ----------------------------
(* Small instances of AshSampler for TLC.                                  *)
EXTENDS AshSampler

\* The perf rows are written, and read by the back-fill only to leave minutes
\* out of its own perf rows: what the run checks does not depend on them.
CategoryView ==
  <<now, base, mark, [w \in Live |-> [live[w] EXCEPT !.perf = None]],
    [fill EXCEPT !.have = {}, !.got = IF fill.pc = "save" THEN {} ELSE @],
    nextAt, isNew, points, counted, promised>>
=============================================================================
