----------------------------- MODULE MCStartup -----------------------------
(* Two runs of one server, one run of another, a proxy, and two commands. *)
EXTENDS Startup

CONSTANTS p1, p2, p3, x1, t1, t2

MCProcess == {p1, p2, p3, x1}
MCProxy == {x1}
MCAddress == [p \in MCProcess |-> IF p = p3 THEN "b" ELSE "a"]
MCCommand == {t1, t2}

Budget(boots, commands, fails, expiries, crashes, signals, deletions) ==
  [boots |-> boots, commands |-> commands, fails |-> fails, expiries |-> expiries,
   crashes |-> crashes, signals |-> signals, deletions |-> deletions]

(* A command next to a server that stops; two commands; a server that      *)
(* starts again while its dead session lasts; the three ways to be told; a *)
(* proxy by itself, and at the address of a server.                        *)
MCBudgets == {
  Budget({p1}, {t1}, 1, 0, 0, 1, 0), Budget({p1, p3}, {t1}, 0, 0, 0, 1, 0),
  Budget({p1}, {t1, t2}, 1, 0, 0, 0, 0), Budget({p1}, {t1}, 0, 1, 0, 0, 1),
  Budget({p1, p2}, {}, 1, 0, 1, 1, 0), Budget({p1, p2}, {}, 0, 1, 0, 1, 1),
  Budget({x1}, {}, 1, 1, 1, 1, 1), Budget({p1, x1}, {t1}, 0, 0, 0, 1, 0)}

=============================================================================
