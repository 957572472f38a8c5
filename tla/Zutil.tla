-------------------------------- MODULE Zutil --------------------------------
(***************************************************************************)
(* zutil.c: deflating and inflating what is in memory with zlib.           *)
(*                                                                         *)
(* zlib is external.  A stream is a head of two bytes, a number of runs    *)
(* and the runs, each a number of times and the byte that is repeated: it  *)
(* says itself where it ends, it can be inflated a part at a time, and it  *)
(* can be shorter than half of what it inflates to.                        *)
(***************************************************************************)
EXTENDS LabPng

Repeat(run) == [j \in 1 .. run[1] |-> run[2]]

\* the runs of `data`, from the first byte on
Runs(data) ==
  LET Add(runs, b) ==
        IF runs # <<>> /\ Last(runs)[2] = b /\ Last(runs)[1] < 255
          THEN [runs EXCEPT ![Len(runs)][1] = @ + 1] ELSE Append(runs, <<1, b>>)
  IN  FoldLeft(Add, <<>>, data)

deflate(data) == <<120, 156, Len(Runs(data))>> \o FlattenSeq(Runs(data))

\* the runs that are there of a stream that may be cut short
Complete(z) == Len(z) >= 3 /\ (Len(z) - 3) \div 2 >= z[3]
RunsOf(z) == IF Len(z) < 3 THEN 0 ELSE Min({z[3], (Len(z) - 3) \div 2})
Inflated(z) == FlattenSeq([i \in 1 .. RunsOf(z) |-> Repeat(<<z[2 + 2 * i], z[3 + 2 * i]>>)])

\* one call, of a stream of which `out` bytes are inflated, with room for more
inflate(z, started, out, avail_out) ==
  LET more == Min({Len(Inflated(z)) - out, avail_out})
  IN  IF z[1] # 120 THEN [ret |-> "Z_DATA_ERROR", total_out |-> 0]
      ELSE [ ret |-> IF Complete(z) /\ out + more = Len(Inflated(z)) THEN "Z_STREAM_END"
                     ELSE IF started /\ more = 0 THEN "Z_BUF_ERROR" ELSE "Z_OK",
             total_out |-> out + more ]
-----------------------------------------------------------------------------
mem_def(source) == deflate(source)

(***************************************************************************)
(* The loop of mem_inf: the buffer is doubled when it is full.  A stream   *)
(* of no bytes has a buffer of none, which realloc frees, and the          *)
(* assertion on what inflate returns for it fails.                         *)
(***************************************************************************)
RECURSIVE InflateAll(_, _, _, _)
InflateAll(z, started, out, size) ==
  LET doubled == IF out >= size THEN 2 * size ELSE size
      call    == inflate(z, started, out, doubled - out)
  IN  IF doubled = 0 THEN Crash
      ELSE IF call.ret = "Z_OK" THEN InflateAll(z, TRUE, call.total_out, doubled)
      ELSE call

\* what it returns, and through dest_len, how much of a stream that has no end too
mem_inf(source) ==
  LET last == InflateAll(source, FALSE, 0, 2 * Len(source))
  IN  IF last = Crash THEN Crash
      ELSE [ data     |-> IF last.ret = "Z_STREAM_END" THEN Inflated(source) ELSE NULL,
             dest_len |-> last.total_out ]
=============================================================================
