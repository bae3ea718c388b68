---------------------------- MODULE MCHistoryOpen ----------------------------
(* Two processes; the data directory may already hold every kind of history. *)
EXTENDS HistoryOpen

CONSTANTS p1, p2, mine, other, m1, m2

History(version, owner, mode) ==
  [NewSchema EXCEPT !.version = version, !.owner = owner, !.posts = {m1},
                    !.mode = mode, !.tables = Schema(version)]
Lone(leaf) == [main |-> leaf, wal |-> None, journal |-> None]

\* One configuration directory, or one each.
MCInitialConfigs ==
  {[p \in {p1, p2} |-> mine], [p \in {p1, p2} |-> IF p = p1 THEN mine ELSE other]}

\* Never started, started once and killed, or in use; the other directory is
\* in use or new.
MCInitialSettings ==
  {[c \in {mine, other} |-> IF c = mine THEN s ELSE t] :
     <<s, t>> \in {<<"none", "none">>, <<"unmarked", "none">>,
                  <<"marked", "marked">>}}

MCInitialFiles ==
  LET old == History(2, mine, "wal")
      full == [History(3, mine, "wal") EXCEPT !.seen = {m1}, !.seeded = TRUE]
  IN {NoFiles, Lone(Empty), Lone(History(1, mine, "delete")),
      Lone(History(2, other, "wal")),
      Lone([full EXCEPT !.app = "foreign"]), Lone([full EXCEPT !.sound = FALSE]),
      Lone([full EXCEPT !.version = 4]),
      [main |-> old, wal |-> full, journal |-> None],
      [main |-> None, wal |-> full, journal |-> None],
      [main |-> Torn, wal |-> None, journal |-> History(1, mine, "delete")]}
=============================================================================
