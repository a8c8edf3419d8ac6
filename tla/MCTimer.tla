------------------------------- MODULE MCTimer -------------------------------
(***************************************************************************)
(* Timers whose delays are below 0, or further off than an int can say.    *)
(***************************************************************************)
EXTENDS Timer

\* With HalfInt = 4 and Second = 2: below 0, with milliseconds below 0; and one
\* whose timeout becomes -3, or fits when some time has passed.
MCAfterDelays == {-3, 5}
=============================================================================
