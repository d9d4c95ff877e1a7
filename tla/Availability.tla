----------------------------- MODULE Availability -----------------------------
(***************************************************************************)
(* The days of availability of one professional: what the methods of the   *)
(* aggregate make of those it loaded, and what saving it makes of the      *)
(* table.  An entity and its row are the same record; its id is drawn when *)
(* it is created in memory.                                                *)
(***************************************************************************)
EXTENDS Naturals, FiniteSets

CONSTANTS
    Days,           \* the days of the week
    Hours,          \* the working hours that are asked for
    Breaks,         \* the breaks that are asked for
    Statuses        \* the statuses that are asked for

Interval == {i \in Nat \X Nat : i[1] < i[2]}
NoBreak == <<>>

AvailabilityStatus == {"OPEN", "CLOSED", "ON_LEAVE"}

ASSUME AvailabilityAssumption ==
    /\ Hours \subseteq Interval /\ Breaks \subseteq Interval
    /\ Statuses \subseteq AvailabilityStatus

\* A row, as far as it is followed: isActive is never changed.
Row == [id : Nat \X Days, day : Days, hours : Hours, pause : Breaks \cup {NoBreak},
        status : AvailabilityStatus, isDeleted : BOOLEAN]

Live(table) == {x \in table : ~x.isDeleted}

Inside(pause, hours) == hours[1] <= pause[1] /\ pause[2] <= hours[2]
Fits(x) == x.pause = NoBreak \/ Inside(x.pause, x.hours)

-----------------------------------------------------------------------------
(***************************************************************************)
(* The methods, as the sets of their results: none when a method throws.   *)
(* getAvailability returns the first row of the day; the query that loaded *)
(* the rows gave them no order.                                            *)
(***************************************************************************)

OfDay(mem, day) == {x \in Live(mem) : x.day = day}

\* Defective variant: a break may lie anywhere.
CreatedAnyhow(id, day, hours, pause, status) ==
    {[id |-> id, day |-> day, hours |-> hours, pause |-> pause, status |-> status,
      isDeleted |-> FALSE]}

\* AvailabilityEntity.create, with the status that the handlers carry over.
Created(id, day, hours, pause, status) ==
    {x \in {[id |-> id, day |-> day, hours |-> hours, pause |-> pause,
             status |-> status, isDeleted |-> FALSE]} : Fits(x)}

\* Defective variant: the days there are are not looked at.
AddedAnyway(mem, x) == {mem \cup {x}}

Added(mem, x) == IF OfDay(mem, x.day) = {} THEN {mem \cup {x}} ELSE {}

\* updateAvailability: the entity becomes the one it is given.
Replaced(mem, x) == {(mem \ {old}) \cup {x} : old \in {y \in OfDay(mem, x.day) : y.id = x.id}}

Removed(mem, day) ==
    {(mem \ {x}) \cup {[x EXCEPT !.isDeleted = TRUE]} : x \in OfDay(mem, day)}

\* The handlers: set a day, or refuse.
Set(mem, nr, day, hours, pause) ==
    UNION {Added(mem, x) : x \in Created(<<nr, day>>, day, hours, pause, "OPEN")}

\* Set a day, whether it exists or not: the bulk handler, and that of the week, do this
\* to one day after the other.
Upserted(mem, nr, day, hours, pause) ==
    IF OfDay(mem, day) = {}
    THEN Set(mem, nr, day, hours, pause)
    ELSE UNION {Replaced(mem, x) :
                  x \in UNION {Created(old.id, day, hours, pause, old.status) :
                                 old \in OfDay(mem, day)}}

\* What is not given keeps its value; a break may be given as null.
Updated(mem, day) ==
    UNION {UNION {Replaced(mem, x) : x \in UNION {Created(old.id, day, h, p, old.status) :
                                       h \in Hours \cup {old.hours},
                                       p \in Breaks \cup {NoBreak, old.pause}}} :
             old \in OfDay(mem, day)}

WithStatus(mem, day, status) ==
    {(mem \ {x}) \cup {[x EXCEPT !.status = status]} : x \in OfDay(mem, day)}

-----------------------------------------------------------------------------
(***************************************************************************)
(* ProfessionalRepository.save, as it concerns the days.                   *)
(***************************************************************************)

\* Without a break in memory the two columns are undefined, and stay as they are.
Written(table, x) ==
    LET old == {y \in table : y.id = x.id}
    IN  IF x.pause = NoBreak
        THEN {[x EXCEPT !.pause = y.pause] : y \in old} \cup (IF old = {} THEN {x} ELSE {})
        ELSE {x}

Saved(table, mem) ==
    {y \in table : \A x \in mem : x.id # y.id} \cup UNION {Written(table, x) : x \in mem}
=============================================================================
