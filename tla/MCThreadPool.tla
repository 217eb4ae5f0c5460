---------------------------- MODULE MCThreadPool ----------------------------
(* Two threads at a time.  With four names the two that may be replaced can be
   told from their replacements. *)
EXTENDS ThreadPool

CONSTANTS t1, t2, t3, a, b, c, d

ThreeTasks == {t1, t2, t3}
FourThreads == {a, b, c, d}
=============================================================================
