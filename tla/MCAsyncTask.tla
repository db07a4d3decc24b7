---------------------------- MODULE MCAsyncTask ----------------------------
(***************************************************************************)
(* Model-checking instance of AsyncTask: r1 is broadcast to two servers    *)
(* and r2 goes to one of them.                                             *)
(***************************************************************************)
EXTENDS AsyncTask

CONSTANTS r1, r2, a, b

Broadcast == [r \in Requests |-> {IF r = r1 THEN <<a, b>> ELSE <<b>>}]

=============================================================================
