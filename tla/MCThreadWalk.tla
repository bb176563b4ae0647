---------------------------- MODULE MCThreadWalk ----------------------------
(***************************************************************************)
(* ThreadWalk in folders of three messages with identifiers a, b and c, of *)
(* which one may lack its own.  Each replies to a, to b or to none, itself *)
(* included, and the last two may have a among their References: chains,   *)
(* forks, cycles, several hits for one message, links to identifiers that  *)
(* no message has.  The text of a occurs in that of c, so a search for a   *)
(* finds c too.  The limits are below and above the size of the folder.    *)
(***************************************************************************)
EXTENDS ThreadWalk

CONSTANTS a, b, c

ids == <<a, b, c>>

MCParts == [id \in IDs |-> IF id = c THEN {a, c} ELSE {id}]

MCFolders ==
    {[k \in UIDs |-> [id |-> IF k = bare THEN NoID ELSE ids[k],
                      inReplyTo |-> reply[k], references |-> refs[k]]] :
        bare \in {0, 2, 3},
        reply \in [UIDs -> {<< >>, <<a>>, <<b>>}],
        refs \in {r \in [UIDs -> {{}, {a}}] : r[1] = {}}}
=============================================================================
