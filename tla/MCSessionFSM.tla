---------------------------- MODULE MCSessionFSM ----------------------------
(***************************************************************************)
(* Small instances of SessionFSM.                                          *)
(***************************************************************************)
EXTENDS SessionFSM

CONSTANTS v4, v6, g1

MCAIDs == {v4, v6}

Conf(passive, if_depend, group, restart) ==
    [down |-> FALSE, passive |-> passive, if_depend |-> if_depend,
     demote_group |-> group, mp |-> {v4, v6}, restart |-> restart,
     grnotification |-> TRUE, holdtime |-> 2, max_prefix_restart |-> 1,
     refresh |-> TRUE]

Open(parse, holdtime, mp, present, forward) ==
    [parse |-> parse, holdtime |-> holdtime, mp |-> mp, unknown_mp |-> FALSE,
     restart |-> IF present = {} THEN 1 ELSE 2, present |-> present,
     forward |-> forward, grnotification |-> TRUE, refresh |-> TRUE]

ConfsMain == {Conf(FALSE, TRUE, g1, 1)}

OpensMain == {Open("ok", 2, {v4, v6}, {v4, v6}, {v4}),
              Open("ok", 0, {v4, v6}, {v6}, {v6}),
              Open("ok", 2, {v4}, {}, {}),
              Open("bad", 2, {v4}, {}, {}),
              Open("as0", 2, {v4}, {}, {}),
              Open("refused", 2, {v4}, {v4}, {v4})}

OpensFew == {Open("ok", 2, {v4, v6}, {v4, v6}, {v4}), Open("ok", 0, {v4}, {}, {})}

\* Reloads that change how the session is opened.
ConfsReload == {Conf(FALSE, FALSE, g1, 1), Conf(TRUE, FALSE, g1, 1),
                Conf(FALSE, TRUE, g1, 1)}

ConfsPlain == {Conf(FALSE, FALSE, g1, 1)}

ConfsRestart == {Conf(FALSE, FALSE, NoGroup, 1), Conf(FALSE, FALSE, NoGroup, 0)}

ConfsDemote == {Conf(FALSE, FALSE, g1, 1), Conf(FALSE, FALSE, NoGroup, 1)}
=============================================================================
