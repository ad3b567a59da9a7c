---------------------------- MODULE MCIotServer ----------------------------
(* Instances of IotServer for TLC: what the clients present and send. *)
EXTENDS IotServer, TLC

Good(ids) == [id : ids, pw : {TRUE}]
Msg(cmd, to) == [cmd |-> cmd, to |-> to]

(* Two known IDs; one ID with a right and a wrong password and a name that *)
(* is in no slot.                                                          *)
KnownLogins == Good({0, 1})
AllLogins == Good({0, MAX_CLNT}) \cup {[id |-> 0, pw |-> FALSE]}

NoSends == {}
DirectSends == {Msg("DIRECT", 0), Msg("ALLMSG", MAX_CLNT)}
QuerySends == {Msg("GETTIME", MAX_CLNT), Msg("IDLIST", MAX_CLNT)}
RoutedSends == DirectSends \cup {Msg("GETTIME", MAX_CLNT)}
MixedSends == DirectSends \cup QuerySends

Symmetry == Permutations(Conn)

(* What clients were sent is read by no step of the server: a run whose      *)
(* properties do not read it either need not tell states apart by it.        *)
WithoutInbox == <<clients, alive, kernel, main, table, sessions>>
=============================================================================
