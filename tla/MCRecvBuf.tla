----------------------------- MODULE MCRecvBuf -----------------------------
(***************************************************************************)
(* Values for TLC: chunks that are empty, that fill the buffer to the last *)
(* place, that pass it by one, and that need more than BUF_INC.            *)
(***************************************************************************)
EXTENDS RecvBuf

MCChunk == { <<>>, <<1>>, <<2, 3>>, <<4, 5, 6, 7>> }
=============================================================================
