------------------------- MODULE MCRegistrationCache -------------------------
(***************************************************************************)
(* Instances of RegistrationCache for TLC.  A row is <<code, meeting>>.    *)
(***************************************************************************)
EXTENDS RegistrationCache, TLC

CONSTANTS
    CodeSet,    \* the section codes, strings
    Meetings,   \* rows per code
    Capacity,   \* sl_max of every row
    Types,      \* the kinds of request clients send
    Db, Ambiguous, Redis, Lost, Crashes, Connections, Drops

MCRows     == CodeSet \X (1..Meetings)
MCRowsOf   == [c \in CodeSet |-> {r \in MCRows : r[1] = c}]
MCRep      == [c \in CodeSet |-> <<c, 1>>]
OneCourse  == [c \in CodeSet |-> "course"]
OwnCourse  == [c \in CodeSet |-> c]
MCSlMax    == [r \in MCRows |-> Capacity]
MCAsks     == [user : Students, type : Types, codes : {{c} : c \in CodeSet}]
MCMaxFaults ==
    [db |-> Db, ambiguous |-> Ambiguous, redis |-> Redis, publish |-> Lost,
     crash |-> Crashes, connection |-> Connections, dlq |-> Drops]

MCSample   == <<CHOOSE c \in CodeSet : TRUE, 1>>

Symmetry == Permutations(Students) \cup Permutations(Batches)
            \cup Permutations(Deliveries)
=============================================================================
