---------------------------- MODULE CatalogueProofs ----------------------------
(***************************************************************************)
(* Proofs about Catalogue: for any days, hours and breaks, any names and   *)
(* any number of requests in flight and in all.                            *)
(***************************************************************************)
EXTENDS Catalogue, TLAPS

Unique(table) == \A x, y \in table : x.id = y.id => x = y

-----------------------------------------------------------------------------
(***************************************************************************)
(* The days in memory.  Whatever the methods make of the days that were    *)
(* loaded, saving it puts no second row beside a day, brings back none and *)
(* leaves a break out only where it is.                                    *)
(***************************************************************************)

FromDays(mem) ==
    /\ \A y \in Live(days) : \E x \in mem : x.id = y.id
    /\ Twice(mem) \subseteq Twice(days)
    /\ \A x \in mem, y \in days : y.id = x.id => ~y.isDeleted
    /\ \A x \in mem : Fits(x) \/ \E y \in days : y.id = x.id /\ ~Fits(y)

\* The aggregate of the request nr: what it created itself it did not remove.
Good(mem, nr) ==
    /\ mem \subseteq Row
    /\ Unique(mem)
    /\ \A x \in mem : /\ x.id[1] <= nr
                      /\ x.id[1] = nr => ~x.isDeleted /\ x.id[2] = x.day
    /\ FromDays(mem)

\* The ids of the rows are numbers and days.
LEMMA RowIds ==
    ASSUME NEW x \in Row
    PROVE  x.id = <<x.id[1], x.id[2]>> /\ x.id[1] \in Nat /\ x.id[2] \in Days
BY DEF Row

\* The days that were loaded, for a request no row was created by.
LEMMA LoadedGood ==
    ASSUME days \subseteq Row, Unique(days), NEW nr \in Nat,
           \A x \in days : x.id[1] < nr
    PROVE  Good(Live(days), nr)
<1>1. \A x \in days : x.id[1] \in Nat
    BY RowIds
<1>2. \A x \in days : x.id[1] <= nr /\ x.id[1] # nr
    BY <1>1
<1>3. FromDays(Live(days))
    BY DEF FromDays, Live, Twice, Unique
<1> QED BY <1>2, <1>3 DEF Good, Live, Unique

\* A row that takes the place of a live one of its id and its day.
LEMMA ReplacingGood ==
    ASSUME NEW nr \in Nat, NEW mem, Good(mem, nr), NEW old \in Live(mem), NEW x \in Row,
           x.id = old.id, x.day = old.day, x.isDeleted => old.id[1] # nr,
           Fits(x) \/ (x.hours = old.hours /\ x.pause = old.pause)
    PROVE  Good((mem \ {old}) \cup {x}, nr)
<1> DEFINE new == (mem \ {old}) \cup {x}
<1>1. new \subseteq Row /\ Unique(new)
    BY DEF Good, Unique, Live
<1>2. \A z \in new : z.id[1] <= nr /\ (z.id[1] = nr => ~z.isDeleted /\ z.id[2] = z.day)
    BY DEF Good, Live
<1>3. Twice(new) \subseteq Twice(mem)
  <2> SUFFICES ASSUME NEW y \in Live(new), NEW z \in Live(new), z.id # y.id, z.day = y.day
               PROVE  y.id \in Twice(mem)
    BY DEF Twice
  <2>1. PICK v \in Live(mem) : v.id = y.id /\ v.day = y.day
    BY DEF Live
  <2>2. PICK w \in Live(mem) : w.id = z.id /\ w.day = z.day
    BY DEF Live
  <2> QED BY <2>1, <2>2 DEF Twice
<1>4. ASSUME NEW z \in new PROVE Fits(z) \/ \E y \in days : y.id = z.id /\ ~Fits(y)
  <2>1. CASE z \in mem
    BY <2>1 DEF Good, FromDays
  <2>2. CASE z = x
    <3>1. Fits(x) \/ ~Fits(old)
      BY DEF Fits
    <3> QED BY <2>2, <3>1 DEF Good, FromDays, Live
  <2> QED BY <2>1, <2>2
<1>5. FromDays(new)
  <2>1. \A y \in Live(days) : \E z \in new : z.id = y.id
    BY DEF Good, FromDays
  <2>2. \A z \in new, y \in days : y.id = z.id => ~y.isDeleted
    BY DEF Good, FromDays, Live
  <2> QED BY <1>3, <1>4, <2>1, <2>2 DEF Good, FromDays
<1> QED BY <1>1, <1>2, <1>5 DEF Good

\* A day that is added where there was none, with an id of the request.
LEMMA AddingGood ==
    ASSUME NEW nr \in Nat, \A y \in days : y.id[1] < nr, NEW mem, Good(mem, nr),
           NEW x \in Row, x.id = <<nr, x.day>>, ~x.isDeleted, Fits(x), OfDay(mem, x.day) = {}
    PROVE  Good(mem \cup {x}, nr)
<1>1. \A y \in mem : y.id # x.id
  <2> SUFFICES ASSUME NEW y \in mem, y.id = x.id PROVE FALSE
    OBVIOUS
  <2>1. y.day = x.day /\ ~y.isDeleted
    BY DEF Good
  <2> QED BY <2>1 DEF OfDay, Live
<1>2. \A y \in days : y.id # x.id
  <2>1. x.id[1] = nr /\ ~(nr < nr)
    OBVIOUS
  <2> QED BY <2>1
<1>3. Twice(mem \cup {x}) \subseteq Twice(mem)
    BY DEF Twice, Live, OfDay
<1>4. FromDays(mem \cup {x})
    BY <1>2, <1>3 DEF Good, FromDays
<1>5. Unique(mem \cup {x})
    BY <1>1 DEF Good, Unique
<1> QED BY <1>4, <1>5 DEF Good

\* What the factory makes fits.
LEMMA CreatedFits ==
    ASSUME NEW id \in Nat \X Days, NEW day \in Days, NEW hours \in Hours,
           NEW pause \in Breaks \cup {NoBreak}, NEW status \in AvailabilityStatus,
           NEW x \in Created(id, day, hours, pause, status)
    PROVE  /\ x \in Row /\ x.id = id /\ x.day = day /\ ~x.isDeleted /\ Fits(x)
<1>1. /\ x = [id |-> id, day |-> day, hours |-> hours, pause |-> pause,
               status |-> status, isDeleted |-> FALSE]
      /\ Fits(x)
    BY DEF Created
<1> QED BY <1>1 DEF Row

\* The methods of the aggregate, and the handlers made of them.
LEMMA SetGood ==
    ASSUME NEW nr \in Nat, \A y \in days : y.id[1] < nr, NEW mem, Good(mem, nr),
           NEW day \in Days, NEW hours \in Hours, NEW pause \in Breaks \cup {NoBreak},
           NEW m \in Set(mem, nr, day, hours, pause)
    PROVE  Good(m, nr)
<1>1. PICK x \in Created(<<nr, day>>, day, hours, pause, "OPEN") : m \in Added(mem, x)
    BY DEF Set
<1>2. /\ x \in Row /\ x.id = <<nr, day>> /\ x.day = day /\ ~x.isDeleted /\ Fits(x)
    BY <1>1, CreatedFits DEF AvailabilityStatus
<1>3. OfDay(mem, x.day) = {} /\ m = mem \cup {x}
    BY <1>1 DEF Added
<1> QED BY <1>2, <1>3, AddingGood

LEMMA ReplacedGood ==
    ASSUME NEW nr \in Nat, NEW mem, Good(mem, nr), NEW x \in Row, ~x.isDeleted, Fits(x),
           NEW m \in Replaced(mem, x)
    PROVE  Good(m, nr)
<1>1. PICK old \in OfDay(mem, x.day) : old.id = x.id /\ m = (mem \ {old}) \cup {x}
    BY DEF Replaced
<1>2. old \in Live(mem) /\ old.day = x.day
    BY DEF OfDay
<1> QED BY <1>1, <1>2, ReplacingGood

LEMMA UpsertedGood ==
    ASSUME NEW nr \in Nat, \A y \in days : y.id[1] < nr, NEW mem, Good(mem, nr),
           NEW day \in Days, NEW hours \in Hours, NEW pause \in Breaks \cup {NoBreak},
           NEW m \in Upserted(mem, nr, day, hours, pause)
    PROVE  Good(m, nr)
<1>1. CASE OfDay(mem, day) = {}
    BY <1>1, SetGood DEF Upserted
<1>2. CASE OfDay(mem, day) # {}
  <2>0. PICK old \in OfDay(mem, day) :
          \E x \in Created(old.id, day, hours, pause, old.status) : m \in Replaced(mem, x)
    BY <1>2 DEF Upserted
  <2>1. PICK x \in Created(old.id, day, hours, pause, old.status) : m \in Replaced(mem, x)
    BY <2>0
  <2>2. old \in Row /\ old.id \in Nat \X Days /\ old.status \in AvailabilityStatus
    BY DEF Good, OfDay, Live, Row
  <2>3. x \in Row /\ ~x.isDeleted /\ Fits(x)
    BY <2>1, <2>2, CreatedFits
  <2> QED BY <2>1, <2>3, ReplacedGood
<1> QED BY <1>1, <1>2

LEMMA UpdatedGood ==
    ASSUME NEW nr \in Nat, NEW mem, Good(mem, nr), NEW day \in Days,
           NEW m \in Updated(mem, day)
    PROVE  Good(m, nr)
<1>0. PICK old \in OfDay(mem, day) :
        \E h \in Hours \cup {old.hours}, p \in Breaks \cup {NoBreak, old.pause} :
          \E x \in Created(old.id, day, h, p, old.status) : m \in Replaced(mem, x)
    BY DEF Updated
<1>1. PICK h \in Hours \cup {old.hours}, p \in Breaks \cup {NoBreak, old.pause} :
        \E x \in Created(old.id, day, h, p, old.status) : m \in Replaced(mem, x)
    BY <1>0
<1>2. /\ old \in Row /\ old.id \in Nat \X Days /\ old.status \in AvailabilityStatus
      /\ old.hours \in Hours /\ old.pause \in Breaks \cup {NoBreak}
    BY DEF Good, OfDay, Live, Row
<1>3. PICK x \in Created(old.id, day, h, p, old.status) : m \in Replaced(mem, x)
    BY <1>1
<1>4. x \in Row /\ ~x.isDeleted /\ Fits(x)
    BY <1>1, <1>2, <1>3, CreatedFits
<1> QED BY <1>3, <1>4, ReplacedGood

LEMMA RemovedGood ==
    ASSUME NEW nr \in Nat, NEW mem, Good(mem, nr), \A x \in mem : x.id[1] # nr,
           NEW day \in Days, NEW m \in Removed(mem, day)
    PROVE  Good(m, nr)
<1>1. PICK old \in OfDay(mem, day) :
            m = (mem \ {old}) \cup {[old EXCEPT !.isDeleted = TRUE]}
    BY DEF Removed
<1>2. PICK x : x = [old EXCEPT !.isDeleted = TRUE]
    OBVIOUS
<1>3. old \in Live(mem) /\ old \in Row /\ old \in mem
    BY DEF Good, OfDay, Live
<1>4. /\ x \in Row /\ x.id = old.id /\ x.day = old.day /\ x.hours = old.hours
      /\ x.pause = old.pause
    BY <1>2, <1>3 DEF Row
<1> QED BY <1>1, <1>2, <1>3, <1>4, ReplacingGood

LEMMA WithStatusGood ==
    ASSUME NEW nr \in Nat, NEW mem, Good(mem, nr), NEW day \in Days,
           NEW status \in Statuses, NEW m \in WithStatus(mem, day, status)
    PROVE  Good(m, nr)
<1>1. PICK old \in OfDay(mem, day) : m = (mem \ {old}) \cup {[old EXCEPT !.status = status]}
    BY DEF WithStatus
<1>2. PICK x : x = [old EXCEPT !.status = status]
    OBVIOUS
<1>3. old \in Live(mem) /\ old \in Row
    BY DEF Good, OfDay, Live
<1>4. /\ x \in Row /\ x.id = old.id /\ x.day = old.day /\ x.hours = old.hours
      /\ x.pause = old.pause /\ x.isDeleted = old.isDeleted
    BY <1>2, <1>3, AvailabilityAssumption DEF Row
<1>5. ~old.isDeleted
    BY <1>3 DEF Live
<1> QED BY <1>1, <1>2, <1>3, <1>4, <1>5, ReplacingGood

-----------------------------------------------------------------------------
(***************************************************************************)
(* What saving the days makes of the table.                                *)
(***************************************************************************)

\* A row is written with its id, its day and its mark; only its break may differ.
LEMMA WrittenRow ==
    ASSUME days \subseteq Row, Unique(days), NEW x \in Row, NEW z \in Written(days, x)
    PROVE  /\ z \in Row /\ z.id = x.id /\ z.day = x.day /\ z.isDeleted = x.isDeleted
           /\ z = x \/ x.pause = NoBreak
           /\ \A v \in Written(days, x) : v = z
<1>1. CASE x.pause # NoBreak
    BY <1>1 DEF Written
<1>2. CASE x.pause = NoBreak /\ \A y \in days : y.id # x.id
    BY <1>2 DEF Written
<1>3. CASE x.pause = NoBreak /\ \E y \in days : y.id = x.id
  <2>1. PICK y \in days : y.id = x.id
    BY <1>3
  <2>2. \A w \in days : w.id = x.id => w = y
    BY <2>1 DEF Unique
  <2>3. \A v \in Written(days, x) : v = [x EXCEPT !.pause = y.pause]
    BY <1>3, <2>1, <2>2 DEF Written
  <2>4. z = [x EXCEPT !.pause = y.pause] /\ y.pause \in Breaks \cup {NoBreak}
    BY <2>1, <2>3 DEF Row
  <2> QED BY <1>3, <2>3, <2>4 DEF Row
<1> QED BY <1>1, <1>2, <1>3

\* Every row has an id of its own, in the table as in memory.
LEMMA SavedUnique ==
    ASSUME days \subseteq Row, Unique(days), NEW mem \in SUBSET Row, Unique(mem)
    PROVE  Saved(days, mem) \subseteq Row /\ Unique(Saved(days, mem))
<1>1. \A x \in mem : \A z \in Written(days, x) :
        z \in Row /\ z.id = x.id /\ \A v \in Written(days, x) : v = z
    BY WrittenRow
<1>2. Saved(days, mem) \subseteq Row
    BY <1>1 DEF Saved
<1>3. ASSUME NEW y \in Saved(days, mem), NEW z \in Saved(days, mem), y.id = z.id
      PROVE  y = z
  <2>1. CASE \E x \in mem : x.id = y.id
    <3>1. PICK x \in mem : y \in Written(days, x)
      BY <2>1 DEF Saved
    <3>2. PICK v \in mem : z \in Written(days, v)
      BY <1>3, <2>1 DEF Saved
    <3>3. x = v
      BY <1>1, <1>3, <3>1, <3>2 DEF Unique
    <3> QED BY <1>1, <3>1, <3>2, <3>3
  <2>2. CASE \A x \in mem : x.id # y.id
    <3>1. y \in days /\ z \in days
      BY <1>1, <1>3, <2>2 DEF Saved
    <3> QED BY <1>3, <3>1 DEF Unique
  <2> QED BY <2>1, <2>2
<1> QED BY <1>2, <1>3 DEF Unique

\* Days nobody wrote since they were loaded are saved without harm.
LEMMA SavedFromDays ==
    ASSUME days \subseteq Row, Unique(days), NEW mem \in SUBSET Row, Unique(mem),
           FromDays(mem), NEW table, table = Saved(days, mem)
    PROVE  /\ Twice(table) \subseteq Twice(days)
           /\ \A x \in table : x.isDeleted \/ \A y \in days : y.id = x.id => ~y.isDeleted
           /\ \A x \in table : \/ Fits(x)
                               \/ \E y \in days : y.id = x.id /\ ~Fits(y)
                               \/ \E y \in mem : y.id = x.id /\ y.pause = NoBreak
<1>1. ASSUME NEW x \in table, ~x.isDeleted
      PROVE  \E y \in mem : x \in Written(days, y)
    BY <1>1 DEF Saved, FromDays, Live
<1>2. ASSUME NEW x \in mem, NEW z \in Written(days, x)
      PROVE  /\ z.id = x.id /\ z.day = x.day /\ z.isDeleted = x.isDeleted
             /\ z = x \/ x.pause = NoBreak
    BY WrittenRow
<1>3. Twice(table) \subseteq Twice(mem)
  <2> SUFFICES ASSUME NEW y \in Live(table), NEW z \in Live(table), z.id # y.id, z.day = y.day
               PROVE  y.id \in Twice(mem)
    BY DEF Twice
  <2>1. PICK v \in mem : y \in Written(days, v)
    BY <1>1 DEF Live
  <2>2. PICK w \in mem : z \in Written(days, w)
    BY <1>1 DEF Live
  <2> QED BY <1>2, <2>1, <2>2 DEF Twice, Live
<1>4. ASSUME NEW x \in table, ~x.isDeleted, NEW y \in days, y.id = x.id
      PROVE  ~y.isDeleted
    BY <1>1, <1>2, <1>4 DEF FromDays
<1>5. ASSUME NEW x \in table
      PROVE  \/ Fits(x)
             \/ \E y \in days : y.id = x.id /\ ~Fits(y)
             \/ \E y \in mem : y.id = x.id /\ y.pause = NoBreak
  <2>1. CASE x \in days
    BY <2>1
  <2>2. CASE \E y \in mem : x \in Written(days, y)
    <3>1. PICK y \in mem : x \in Written(days, y)
      BY <2>2
    <3> QED BY <1>2, <3>1 DEF FromDays
  <2> QED BY <2>1, <2>2 DEF Saved
<1> QED BY <1>3, <1>4, <1>5 DEF FromDays

-----------------------------------------------------------------------------
(***************************************************************************)
(* The tables, and what the requests in flight may rely on: each claim is  *)
(* about the tables that nobody wrote since the request read them.         *)
(***************************************************************************)

Request == Looking \cup Saving \cup Naming \cup Deleting \cup Approving
             \cup Rejecting \cup {Idle}

\* Rows have ids of their own, that no later request draws; a name names one category,
\* and the category of a service is there.
Tables ==
    /\ Unique(days) /\ Unique(services) /\ Unique(categories) /\ Unique(proposals)
    /\ \A c, d \in categories : c.name = d.name => c = d
    /\ \A x \in services : \E c \in categories : c.id = x.category
    /\ \A x \in days : x.id[1] <= begun
    /\ \A c \in categories : c.id[1] <= begun
    /\ \A p \in proposals : p.id <= begun

\* The services in memory belong where the table says, or to an offered category.
FromServices(mem, moved) ==
    \A x \in mem :
        IF x.id \in moved
        THEN Offered(x.category) # {}
        ELSE \E y \in Live(services), c \in categories :
                y.id = x.id /\ c.id = y.category /\ c.name = x.category

ClaimDays(w) ==
    w.op \in {"Look", "Save"} =>
        /\ Unique(w.days)
        /\ \A x \in w.days : x.id[1] <= begun
        /\ "days" \notin w.stale => FromDays(w.days)

\* A request places a service once.
OneEach(placed) == \A p, q \in placed : p[1] = q[1] => p = q

ClaimServices(w) ==
    /\ w.op \in {"Look", "Save"} => Unique(w.services)
    /\ w.op = "Look" => OneEach(w.placed)
    /\ "services" \notin w.stale /\ "categories" \notin w.stale =>
        /\ w.op = "Look" => FromServices(w.services, {})
        /\ w.op = "Save" => FromServices(w.services, w.moved)
    /\ w.op = "Delete" /\ w.step = "write" /\ "services" \notin w.stale =>
        \A x \in Live(services) : x.category # w.id

ClaimProposals(w) ==
    /\ w.op \in {"Approve", "Reject"} /\ "proposals" \notin w.stale =>
        \A p \in proposals : p.id = w.id => p.status = "PENDING"
    /\ w.op = "Approve" /\ w.step = "write" /\ "categories" \notin w.stale =>
        \E c \in Live(categories) : c.id = w.category

\* The id that a request draws for a category, which is nobody else's.
Creates(w) == w.op = "Create" \/ (w.op = "Approve" /\ w.step \in {"find", "create"})
NewId(w) == IF w.op = "Create" THEN w.id ELSE w.category

ClaimId(w) ==
    Creates(w) => NewId(w)[1] <= begun /\ \A c \in categories : c.id # NewId(w)

Claim(w) == ClaimDays(w) /\ ClaimServices(w) /\ ClaimProposals(w) /\ ClaimId(w)

Distinct ==
    \A q, r \in Slots :
        q # r /\ Creates(req[q]) /\ Creates(req[r]) => NewId(req[q]) # NewId(req[r])

IInv == TypeOK /\ Tables /\ Distinct /\ \A r \in Slots : Claim(req[r])

-----------------------------------------------------------------------------
(***************************************************************************)
(* The kinds of request.                                                   *)
(***************************************************************************)

LEMMA Kinds ==
    ASSUME NEW w \in Request
    PROVE  /\ w.op = "Look" => w \in Looking
           /\ w.op = "Save" => w \in Saving
           /\ w.op \in {"Create", "Rename"} => w \in Naming
           /\ w.op = "Delete" => w \in Deleting
           /\ w.op = "Approve" => w \in Approving
           /\ w.op = "Reject" => w \in Rejecting
           /\ w.op = "Idle" => w = Idle
           /\ w.stale \subseteq Table
BY DEF Request, Looking, Saving, Naming, Deleting, Approving, Rejecting, Idle

LEMMA ReqTyped ==
    ASSUME TypeOK
    PROVE  req \in [Slots -> Request] /\ \A r \in Slots : req[r] \in Request
BY DEF TypeOK, Request

\* A request that ages keeps what it holds.
Kept(v, w, T) ==
    /\ v \in Request
    /\ v = Idle <=> w = Idle
    /\ w # Idle =>
        /\ v.op = w.op /\ v.stale = w.stale \cup T
        /\ w.op \in {"Look", "Save"} => v.days = w.days /\ v.services = w.services
        /\ w.op = "Look" => v.placed = w.placed
        /\ w.op = "Save" => v.moved = w.moved
        /\ w.op \in {"Delete", "Approve"} => v.step = w.step
        /\ w.op \in {"Create", "Delete", "Approve", "Reject"} => v.id = w.id
        /\ w.op = "Approve" => v.category = w.category

LEMMA AgedKept ==
    ASSUME NEW w \in Request, w # Idle, NEW T \in SUBSET Table,
           NEW v, v = [w EXCEPT !.stale = w.stale \cup T]
    PROVE  Kept(v, w, T)
<1>1. CASE w \in Looking
    BY <1>1 DEF Kept, Request, Looking, Idle
<1>2. CASE w \in Saving
    BY <1>2 DEF Kept, Request, Saving, Idle
<1>3. CASE w \in Naming
    BY <1>3 DEF Kept, Request, Naming, Idle
<1>4. CASE w \in Deleting
    BY <1>4 DEF Kept, Request, Deleting, Idle
<1>5. CASE w \in Approving
    BY <1>5 DEF Kept, Request, Approving, Idle
<1>6. CASE w \in Rejecting
    BY <1>6 DEF Kept, Request, Rejecting, Idle
<1> QED BY <1>1, <1>2, <1>3, <1>4, <1>5, <1>6 DEF Request

LEMMA SameKept == ASSUME NEW w \in Request PROVE Kept(w, w, {})
BY DEF Kept

\* Idle claims nothing.
LEMMA IdleClaims == Claim(Idle) /\ Claim(Idle)' /\ ~Creates(Idle)
BY DEF Claim, ClaimDays, ClaimServices, ClaimProposals, ClaimId, Creates, Idle

-----------------------------------------------------------------------------
(***************************************************************************)
(* A step, by what it does to the requests in flight.                      *)
(***************************************************************************)

Stays(T) ==
    /\ begun \in Nat /\ begun' \in Nat /\ begun <= begun'
    /\ "days" \in T \/ days' = days
    /\ "services" \in T \/ services' = services
    /\ "categories" \in T \/ categories' = categories
    /\ "proposals" \in T \/ proposals' = proposals

\* A claim outlives what others write: it is not about what they wrote.
LEMMA ClaimKept ==
    ASSUME NEW T \in SUBSET Table, Stays(T), NEW w \in Request, NEW v, Kept(v, w, T),
           Claim(w), Creates(w) => \A c \in categories' : c.id # NewId(w)
    PROVE  Claim(v)'
<1>1. CASE w = Idle
    BY <1>1, IdleClaims DEF Kept, Claim, ClaimDays, ClaimServices, ClaimProposals, ClaimId
<1>2. CASE w # Idle
  <2>1. v.op = w.op /\ v.stale = w.stale \cup T
    BY <1>2 DEF Kept
  <2>2. ClaimDays(v)'
    <3>1. ASSUME w.op \in {"Look", "Save"} PROVE ClaimDays(v)'
      <4>1. v.days = w.days /\ w.days \subseteq Row
        BY <1>2, <3>1, Kinds DEF Kept, Looking, Saving
      <4>2. \A x \in v.days : x.id[1] <= begun'
        BY <3>1, <4>1, RowIds DEF Claim, ClaimDays, Stays
      <4>3. "days" \notin v.stale => FromDays(v.days)'
        BY <2>1, <3>1, <4>1 DEF Claim, ClaimDays, Stays, FromDays
      <4>4. Unique(v.days)
        BY <3>1, <4>1 DEF Claim, ClaimDays
      <4> QED BY <4>2, <4>3, <4>4 DEF ClaimDays, Unique
    <3> QED BY <2>1, <3>1 DEF ClaimDays
  <2>3. ClaimServices(v)'
    <3>1. /\ v.op \in {"Look", "Save"} => v.services = w.services /\ Unique(v.services)
          /\ v.op = "Look" => OneEach(v.placed)
      BY <1>2, <2>1 DEF Kept, Claim, ClaimServices
    <3>2. ASSUME "services" \notin v.stale, "categories" \notin v.stale
          PROVE  /\ v.op = "Look" => FromServices(v.services, {})'
                 /\ v.op = "Save" => FromServices(v.services, v.moved)'
      BY <1>2, <2>1, <3>1, <3>2
         DEF Kept, Claim, ClaimServices, Stays, FromServices, Offered
    <3>3. ASSUME v.op = "Delete", v.step = "write", "services" \notin v.stale,
                 NEW x \in Live(services')
          PROVE  x.category # v.id
      BY <1>2, <2>1, <3>3 DEF Kept, Claim, ClaimServices, Stays
    <3> QED BY <3>1, <3>2, <3>3 DEF ClaimServices, Unique, Live, OneEach
  <2>4. ClaimProposals(v)'
    BY <1>2, <2>1 DEF Kept, Claim, ClaimProposals, Stays, Live
  <2>5. ClaimId(v)'
    <3>1. CASE ~Creates(w)
      BY <1>2, <2>1, <3>1 DEF Kept, Creates, ClaimId
    <3>2. CASE Creates(w)
      <4>1. NewId(v) = NewId(w) /\ Creates(v)
        BY <1>2, <2>1, <3>2 DEF Kept, Creates, NewId
      <4>2. NewId(w)[1] \in Nat
        BY <3>2, Kinds DEF Creates, NewId, Naming, Approving, CategoryId
      <4>3. NewId(w)[1] <= begun
        BY <3>2 DEF Claim, ClaimId
      <4>4. NewId(w)[1] <= begun'
        BY <4>2, <4>3 DEF Stays
      <4> QED BY <3>2, <4>1, <4>4 DEF ClaimId, Creates, NewId
    <3> QED BY <3>1, <3>2
  <2> QED BY <2>2, <2>3, <2>4, <2>5 DEF Claim
<1> QED BY <1>1, <1>2

TablesTyped ==
    days \subseteq Row /\ services \subseteq Service /\ categories \subseteq Category
    /\ proposals \subseteq Proposal

\* A step of the request r that writes the tables T.
Others(r, T) ==
    \A q \in Slots : q # r =>
        /\ Kept(req'[q], req[q], T)
        /\ Creates(req[q]) => \A c \in categories' : c.id # NewId(req[q])

LEMMA StepKeeps ==
    ASSUME IInv, NEW r \in Slots, NEW T \in SUBSET Table, NEW work \in Request,
           Stays(T), begun' <= MaxRequests, req' \in [Slots -> Request], req'[r] = work,
           Others(r, T), TablesTyped', Tables', Claim(work)',
           Creates(work) => \A q \in Slots : q # r /\ Creates(req[q]) =>
                                NewId(req[q]) # NewId(work)
    PROVE  IInv'
<1>1. TypeOK'
    BY CatalogueAssumption DEF TablesTyped, TypeOK, Request, Stays
<1>2. ASSUME NEW q \in Slots PROVE Claim(req[q])'
  <2>1. PICK v : v = req'[q]
    OBVIOUS
  <2>2. PICK w : w = req[q]
    OBVIOUS
  <2>3. Claim(v)'
    <3>1. CASE q = r
      BY <2>1, <3>1
    <3>2. CASE q # r
      <4>1. Kept(v, w, T) /\ w \in Request /\ Claim(w)
            /\ (Creates(w) => \A c \in categories' : c.id # NewId(w))
        BY <2>1, <2>2, <3>2, ReqTyped DEF IInv, Others
      <4> QED BY <4>1, ClaimKept
    <3> QED BY <3>1, <3>2
  <2> QED BY <2>1, <2>3 DEF Claim, ClaimDays, ClaimServices, ClaimProposals, ClaimId,
                           Creates, NewId, OneEach
<1>3. Distinct'
  <2>1. ASSUME NEW q \in Slots, q # r, Creates(req'[q])
        PROVE  Creates(req[q]) /\ NewId(req'[q]) = NewId(req[q])
    BY <2>1, ReqTyped DEF IInv, Others, Kept, Creates, NewId, Idle
  <2> QED BY <2>1 DEF IInv, Distinct, Creates, NewId
<1> QED BY <1>1, <1>2, <1>3 DEF IInv

\* Tables that stay are as good as they were.
LEMMA TablesStay ==
    ASSUME IInv, Stays({})
    PROVE  TablesTyped' /\ Tables'
<1>1. \A x \in days : x.id[1] \in Nat
    BY RowIds DEF IInv, TypeOK
<1>2. \A c \in categories : c.id[1] \in Nat
    BY DEF IInv, TypeOK, Category, CategoryId
<1>3. \A p \in proposals : p.id \in Nat
    BY DEF IInv, TypeOK, Proposal
<1>4. \A x \in days : x.id[1] <= begun'
    BY <1>1 DEF IInv, Tables, Stays
<1>5. \A c \in categories : c.id[1] <= begun'
    BY <1>2 DEF IInv, Tables, Stays
<1>6. \A p \in proposals : p.id <= begun'
    BY <1>3 DEF IInv, Tables, Stays
<1> QED BY <1>4, <1>5, <1>6 DEF IInv, TypeOK, TablesTyped, Tables, Stays, Unique

\* A request that begins.
LEMMA StartKeeps ==
    ASSUME IInv, NEW r \in Slots, NEW work \in Request, Start(r, work),
           Claim(work)', Creates(work) => NewId(work)[1] = begun + 1
    PROVE  IInv'
<1>1. /\ days' = days /\ services' = services /\ categories' = categories
      /\ proposals' = proposals /\ begun' = begun + 1
      /\ \A q \in Slots : req'[q] = IF q = r THEN work ELSE req[q]
    BY DEF Start, IInv, TypeOK
<1>2. begun \in Nat /\ begun' <= MaxRequests /\ Stays({})
    BY <1>1, CatalogueAssumption DEF IInv, TypeOK, Start, Free, Stays
<1>3. req' \in [Slots -> Request]
    BY ReqTyped DEF IInv, Start
<1>4. ASSUME NEW q \in Slots, Creates(req[q])
      PROVE  /\ \A c \in categories' : c.id # NewId(req[q])
             /\ Creates(work) => NewId(req[q]) # NewId(work)
  <2>1. NewId(req[q])[1] <= begun /\ \A c \in categories : c.id # NewId(req[q])
    BY <1>4 DEF IInv, Claim, ClaimId
  <2>2. ~(begun + 1 <= begun)
    BY <1>2
  <2> QED BY <1>1, <2>1, <2>2
<1>5. Others(r, {})
    BY <1>1, <1>4, ReqTyped, SameKept DEF Others, IInv
<1> QED BY <1>1, <1>2, <1>3, <1>4, <1>5, TablesStay, StepKeeps

\* A request that goes on, or ends, and writes nothing.
LEMMA ContinueKeeps ==
    ASSUME IInv, NEW r \in Slots, NEW work \in Request, Continue(r, work),
           UNCHANGED <<days, services, categories, proposals>>, Claim(work)',
           Creates(work) => Creates(req[r]) /\ NewId(work) = NewId(req[r])
    PROVE  IInv'
<1>1. /\ days' = days /\ services' = services /\ categories' = categories
      /\ proposals' = proposals /\ begun' = begun
      /\ \A q \in Slots : req'[q] = IF q = r THEN work ELSE req[q]
    BY DEF Continue, IInv, TypeOK
<1>2. begun' <= MaxRequests /\ Stays({})
    BY <1>1, CatalogueAssumption DEF IInv, TypeOK, Stays
<1>3. req' \in [Slots -> Request]
    BY ReqTyped DEF IInv, Continue
<1>4. ASSUME NEW q \in Slots, q # r, Creates(req[q])
      PROVE  /\ \A c \in categories' : c.id # NewId(req[q])
             /\ Creates(work) => NewId(req[q]) # NewId(work)
    BY <1>1, <1>4 DEF IInv, Claim, ClaimId, Distinct
<1>5. Others(r, {})
    BY <1>1, <1>4, ReqTyped, SameKept DEF Others, IInv
<1> QED BY <1>1, <1>2, <1>3, <1>4, <1>5, TablesStay, StepKeeps

\* A request that writes.
LEMMA AgingKeeps ==
    ASSUME IInv, NEW r \in Slots, NEW work \in Request, NEW T \in SUBSET Table,
           req' = Aged(r, work, T), begun' <= MaxRequests, Stays(T), TablesTyped', Tables', Claim(work)', ~Creates(work),
           \A q \in Slots : q # r /\ Creates(req[q]) =>
               \A c \in categories' : c.id # NewId(req[q])
    PROVE  IInv'
<1>1. ASSUME NEW q \in Slots, q # r
      PROVE  req'[q] \in Request /\ Kept(req'[q], req[q], T)
  <2>1. PICK w : w = req[q]
    OBVIOUS
  <2>2. w \in Request
    BY <2>1, ReqTyped DEF IInv
  <2>3. CASE w = Idle
    BY <1>1, <2>1, <2>3 DEF Aged, Kept, Request
  <2>4. CASE w # Idle
    <3>1. req'[q] = [w EXCEPT !.stale = w.stale \cup T]
      BY <1>1, <2>1, <2>4 DEF Aged
    <3> QED BY <2>1, <2>2, <2>4, <3>1, AgedKept DEF Kept
  <2> QED BY <2>3, <2>4
<1>2. req'[r] = work /\ req' \in [Slots -> Request]
    BY <1>1 DEF Aged
<1>3. Others(r, T)
    BY <1>1 DEF Others
<1> QED BY <1>2, <1>3, StepKeeps

LEMMA WriteKeeps ==
    ASSUME IInv, NEW r \in Slots, NEW work \in Request, NEW T \in SUBSET Table,
           Write(r, work, T), Stays(T), TablesTyped', Tables', Claim(work)', ~Creates(work),
           \A q \in Slots : q # r /\ Creates(req[q]) =>
               \A c \in categories' : c.id # NewId(req[q])
    PROVE  IInv'
<1>1. req' = Aged(r, work, T) /\ begun' <= MaxRequests
    BY CatalogueAssumption DEF IInv, TypeOK, Write
<1> QED BY <1>1, AgingKeeps

-----------------------------------------------------------------------------
(***************************************************************************)
(* The requests that load the aggregate.                                   *)
(***************************************************************************)

LEMMA ServicesLoaded ==
    ASSUME IInv
    PROVE  /\ LoadedServices \subseteq Loaded
           /\ Unique(LoadedServices)
           /\ FromServices(LoadedServices, {})
<1>1. ASSUME NEW x \in Live(services)
      PROVE  \E c \in categories :
               c.id = x.category /\ (CHOOSE d \in categories : d.id = x.category) = c
  <2>1. PICK c \in categories : c.id = x.category
    BY DEF IInv, Tables, Live
  <2>2. \A d \in categories : d.id = x.category => d = c
    BY <2>1 DEF IInv, Tables, Unique
  <2> QED BY <2>1, <2>2
<1>2. ASSUME NEW y \in LoadedServices
      PROVE  \E x \in Live(services), c \in categories :
               /\ c.id = x.category
               /\ y = [id |-> x.id, isDeleted |-> FALSE, category |-> c.name]
  <2>1. PICK x \in Live(services) :
          y = [id |-> x.id, isDeleted |-> FALSE,
               category |-> (CHOOSE d \in categories : d.id = x.category).name]
    BY DEF LoadedServices
  <2> QED BY <1>1, <2>1
<1>3. LoadedServices \subseteq Loaded
  <2> SUFFICES ASSUME NEW y \in LoadedServices PROVE y \in Loaded
    OBVIOUS
  <2>1. PICK x \in Live(services), c \in categories :
          y = [id |-> x.id, isDeleted |-> FALSE, category |-> c.name]
    BY <1>2
  <2>2. x.id \in Nat /\ c.name \in Names
    BY DEF Live, IInv, TypeOK, Service, Category
  <2> QED BY <2>1, <2>2 DEF Loaded
<1>4. Unique(LoadedServices)
  <2> SUFFICES ASSUME NEW y \in LoadedServices, NEW z \in LoadedServices, y.id = z.id
               PROVE  y = z
    BY DEF Unique
  <2>1. PICK x \in Live(services) :
          y = [id |-> x.id, isDeleted |-> FALSE,
               category |-> (CHOOSE d \in categories : d.id = x.category).name]
    BY DEF LoadedServices
  <2>2. PICK v \in Live(services) :
          z = [id |-> v.id, isDeleted |-> FALSE,
               category |-> (CHOOSE d \in categories : d.id = v.category).name]
    BY DEF LoadedServices
  <2>3. x = v
    BY <2>1, <2>2 DEF Live, IInv, Tables, Unique
  <2> QED BY <2>1, <2>2, <2>3
<1>5. FromServices(LoadedServices, {})
  <2> SUFFICES ASSUME NEW z \in LoadedServices
               PROVE  \E y \in Live(services), c \in categories :
                        y.id = z.id /\ c.id = y.category /\ c.name = z.category
    BY DEF FromServices
  <2>1. PICK x \in Live(services), c \in categories :
          c.id = x.category /\ z = [id |-> x.id, isDeleted |-> FALSE, category |-> c.name]
    BY <1>2
  <2> QED BY <2>1
<1> QED BY <1>3, <1>4, <1>5

\* The days of the table were inserted by requests before.
LEMMA DaysBefore ==
    ASSUME IInv
    PROVE  /\ begun + 1 \in Nat
           /\ \A x \in days : x.id[1] < begun + 1
           /\ Good(LoadedDays, begun + 1)
           /\ \A x \in LoadedDays : x.id[1] # begun + 1
<1>1. begun \in Nat /\ begun + 1 \in Nat
    BY CatalogueAssumption DEF IInv, TypeOK
<1>2. \A x \in days : x.id[1] \in Nat
    BY RowIds DEF IInv, TypeOK
<1>3. \A x \in days : x.id[1] < begun + 1
    BY <1>1, <1>2 DEF IInv, Tables
<1>4. Good(LoadedDays, begun + 1)
    BY <1>1, <1>3, LoadedGood DEF IInv, TypeOK, Tables, LoadedDays
<1>5. \A x \in LoadedDays : x.id[1] # begun + 1
    BY <1>1, <1>2, <1>3 DEF LoadedDays, Live
<1> QED BY <1>1, <1>3, <1>4, <1>5

LEMMA LoadingKeeps ==
    ASSUME IInv, NEW r \in Slots, NEW mem, Good(mem, begun + 1), NEW offers,
           offers \subseteq Loaded, Unique(offers), FromServices(offers, {}),
           Start(r, ToSave(mem, offers, {}, {}))
    PROVE  IInv'
<1>1. PICK work : work = ToSave(mem, offers, {}, {})
    OBVIOUS
<1>2. /\ work.op = "Save" /\ work.days = mem /\ work.services = offers
      /\ work.moved = {} /\ work.stale = {} /\ work \in Request
    BY <1>1 DEF ToSave, Request, Saving, Good
<1>3. /\ days' = days /\ services' = services /\ categories' = categories
      /\ begun' = begun + 1
    BY DEF Start
<1>4. ClaimDays(work)'
    BY <1>2, <1>3 DEF ClaimDays, Good, FromDays, Unique
<1>5. ClaimServices(work)'
    BY <1>2, <1>3 DEF ClaimServices, FromServices, Offered, Unique
<1>6. Claim(work)' /\ ~Creates(work)
    BY <1>2, <1>4, <1>5 DEF Claim, ClaimProposals, ClaimId, Creates
<1> QED BY <1>1, <1>2, <1>6, StartKeeps

LEMMA LoadKeeps ==
    ASSUME IInv, NEW r \in Slots, NEW newDays, Load(r, newDays),
           \A mem \in newDays : Good(mem, begun + 1)
    PROVE  IInv'
BY LoadingKeeps, ServicesLoaded DEF Load

LEMMA DaysKeep ==
    ASSUME IInv, NEW r \in Slots,
           \/ SetAvailability(r) \/ SetAvailabilityBulk(r) \/ UpdateAvailability(r)
           \/ RemoveAvailability(r) \/ SetAvailabilityStatus(r) \/ Edit(r)
    PROVE  IInv'
<1>1. CASE SetAvailability(r)
    BY <1>1, DaysBefore, SetGood, LoadKeeps DEF SetAvailability
<1>2. CASE SetAvailabilityBulk(r)
  <2>1. \A mem \in OneUpserted(LoadedDays, begun + 1) : Good(mem, begun + 1)
    BY DaysBefore, UpsertedGood DEF OneUpserted
  <2>2. ASSUME NEW mem \in OneUpserted(LoadedDays, begun + 1),
               NEW more \in OneUpserted(mem, begun + 1)
        PROVE  Good(more, begun + 1)
    BY <2>1, DaysBefore, UpsertedGood DEF OneUpserted
  <2>3. \A more \in UNION {OneUpserted(mem, begun + 1) :
                              mem \in OneUpserted(LoadedDays, begun + 1)} :
          Good(more, begun + 1)
    BY <2>2
  <2> QED BY <1>2, <2>3, LoadKeeps DEF SetAvailabilityBulk
<1>3. CASE UpdateAvailability(r)
    BY <1>3, DaysBefore, UpdatedGood, LoadKeeps DEF UpdateAvailability
<1>4. CASE RemoveAvailability(r)
    BY <1>4, DaysBefore, RemovedGood, LoadKeeps DEF RemoveAvailability
<1>5. CASE SetAvailabilityStatus(r)
    BY <1>5, DaysBefore, WithStatusGood, LoadKeeps DEF SetAvailabilityStatus
<1>6. CASE Edit(r)
    BY <1>6, DaysBefore, LoadKeeps DEF Edit
<1> QED BY <1>1, <1>2, <1>3, <1>4, <1>5, <1>6

LEMMA RemoveServiceKeeps ==
    ASSUME IInv, NEW r \in Slots, RemoveService(r)
    PROVE  IInv'
<1>1. PICK x \in LoadedServices :
        Start(r, ToSave(LoadedDays,
                        (LoadedServices \ {x}) \cup {[x EXCEPT !.isDeleted = TRUE]}, {}, {}))
    BY DEF RemoveService
<1>2. PICK z : z = [x EXCEPT !.isDeleted = TRUE]
    OBVIOUS
<1>3. PICK loaded : loaded = LoadedServices
    OBVIOUS
<1>4. loaded \subseteq Loaded /\ Unique(loaded) /\ FromServices(loaded, {}) /\ x \in loaded
    BY <1>3, ServicesLoaded
<1>5. z \in Loaded /\ z.id = x.id /\ z.category = x.category
    BY <1>2, <1>4 DEF Loaded
<1>6. PICK offers : offers = (loaded \ {x}) \cup {z}
    OBVIOUS
<1>7. offers \subseteq Loaded /\ Unique(offers) /\ FromServices(offers, {})
    BY <1>4, <1>5, <1>6 DEF Unique, FromServices
<1>8. Start(r, ToSave(LoadedDays, offers, {}, {}))
    BY <1>1, <1>2, <1>3, <1>6
<1> QED BY <1>7, <1>8, DaysBefore, LoadingKeeps

\* The services that are added or moved are not there yet: their categories are looked for.
LEMMA LookingKeeps ==
    ASSUME IInv, NEW r \in Slots, NEW offers, offers \subseteq Loaded, Unique(offers),
           FromServices(offers, {}), NEW placed \in SUBSET (Nat \X Names), OneEach(placed),
           Start(r, ToPlace(offers, placed))
    PROVE  IInv'
<1>1. PICK work : work = ToPlace(offers, placed)
    OBVIOUS
<1>2. Good(LoadedDays, begun + 1)
    BY DaysBefore
<1>3. PICK mem : mem = LoadedDays
    OBVIOUS
<1>4. /\ work.op = "Look" /\ work.days = mem /\ work.services = offers
      /\ work.placed = placed /\ work.stale = {} /\ work \in Request
    BY <1>1, <1>2, <1>3 DEF ToPlace, Request, Looking, Good
<1>5. /\ days' = days /\ services' = services /\ categories' = categories
      /\ begun' = begun + 1
    BY DEF Start
<1>6. ClaimDays(work)'
    BY <1>2, <1>3, <1>4, <1>5 DEF ClaimDays, Good, FromDays, Unique
<1>7. ClaimServices(work)'
    BY <1>4, <1>5 DEF ClaimServices, FromServices, Offered, Unique, OneEach
<1>8. Claim(work)' /\ ~Creates(work)
    BY <1>4, <1>6, <1>7 DEF Claim, ClaimProposals, ClaimId, Creates
<1> QED BY <1>1, <1>4, <1>8, StartKeeps

LEMMA ReadToPlaceKeeps ==
    ASSUME IInv, NEW r \in Slots, ReadToPlace(r)
    PROVE  IInv'
<1>1. PICK id \in {begun + 1} \cup {x.id : x \in LoadedServices}, name \in Names :
        Start(r, ToPlace(LoadedServices, {<<id, name>>}))
    BY DEF ReadToPlace
<1>2. id \in Nat
    BY DaysBefore, ServicesLoaded DEF Loaded
<1>3. PICK placed : placed = {<<id, name>>}
    OBVIOUS
<1>4. placed \in SUBSET (Nat \X Names) /\ OneEach(placed)
    BY <1>2, <1>3 DEF OneEach
<1> QED BY <1>1, <1>3, <1>4, ServicesLoaded, LookingKeeps

\* The services that the list leaves out keep their ids and categories.
LEMMA ReadToPlaceAllKeeps ==
    ASSUME IInv, NEW r \in Slots, ReadToPlaceAll(r)
    PROVE  IInv'
<1>1. PICK ids \in SUBSET ({begun + 1} \cup {x.id : x \in services}) :
        \E name \in [ids -> Names] :
          Start(r, ToPlace({[x EXCEPT !.isDeleted = x.id \notin ids] : x \in LoadedServices},
                           {<<id, name[id]>> : id \in ids}))
    BY DEF ReadToPlaceAll
<1>2. PICK name \in [ids -> Names] :
        Start(r, ToPlace({[x EXCEPT !.isDeleted = x.id \notin ids] : x \in LoadedServices},
                         {<<id, name[id]>> : id \in ids}))
    BY <1>1
<1>3. PICK placed : placed = {<<id, name[id]>> : id \in ids}
    OBVIOUS
<1>4. ids \subseteq Nat
    BY DaysBefore DEF IInv, TypeOK, Service
<1>5. placed \in SUBSET (Nat \X Names) /\ OneEach(placed)
    BY <1>3, <1>4 DEF OneEach
<1>6. PICK loaded : loaded = LoadedServices
    OBVIOUS
<1>7. loaded \subseteq Loaded /\ Unique(loaded) /\ FromServices(loaded, {})
    BY <1>6, ServicesLoaded
<1>8. PICK offers : offers = {[x EXCEPT !.isDeleted = x.id \notin ids] : x \in loaded}
    OBVIOUS
<1>9. ASSUME NEW x \in loaded, NEW z, z = [x EXCEPT !.isDeleted = x.id \notin ids]
      PROVE  /\ z \in Loaded /\ z.id = x.id /\ z.category = x.category
             /\ z = [id |-> x.id, category |-> x.category, isDeleted |-> x.id \notin ids]
    BY <1>7, <1>9 DEF Loaded
<1>10. ASSUME NEW z \in offers
       PROVE  \E x \in loaded :
                /\ z \in Loaded /\ z.id = x.id /\ z.category = x.category
                /\ z = [id |-> x.id, category |-> x.category, isDeleted |-> x.id \notin ids]
  <2>1. PICK x \in loaded : z = [x EXCEPT !.isDeleted = x.id \notin ids]
    BY <1>8
  <2> QED BY <1>9, <2>1
<1>11. offers \subseteq Loaded
    BY <1>10
<1>12. Unique(offers)
  <2> SUFFICES ASSUME NEW y \in offers, NEW z \in offers, y.id = z.id
               PROVE  y = z
    BY DEF Unique
  <2>1. PICK v \in loaded :
          /\ y.id = v.id
          /\ y = [id |-> v.id, category |-> v.category, isDeleted |-> v.id \notin ids]
    BY <1>10
  <2>2. PICK w \in loaded :
          /\ z.id = w.id
          /\ z = [id |-> w.id, category |-> w.category, isDeleted |-> w.id \notin ids]
    BY <1>10
  <2>3. v = w
    BY <1>7, <2>1, <2>2 DEF Unique
  <2> QED BY <2>1, <2>2, <2>3
<1>13. FromServices(offers, {})
    BY <1>7, <1>10 DEF FromServices
<1> QED BY <1>2, <1>3, <1>5, <1>6, <1>8, <1>11, <1>12, <1>13, LookingKeeps

-----------------------------------------------------------------------------
(***************************************************************************)
(* The requests of the aggregate that go on, and save.                     *)
(***************************************************************************)

LEMMA PlaceKeeps ==
    ASSUME IInv, NEW r \in Slots, PlaceService(r)
    PROVE  IInv'
<1>1. PICK old : old = req[r]
    OBVIOUS
<1>2. /\ old.op = "Look" /\ old \in Looking /\ Claim(old)
      /\ \A p \in old.placed : Offered(p[2]) # {}
    BY <1>1, ReqTyped, Kinds DEF IInv, PlaceService, PlacedNames
<1>3. PICK moved : moved = {p[1] : p \in old.placed}
    OBVIOUS
<1>4. PICK offers :
        offers = {x \in old.services : x.id \notin moved}
                   \cup {[id |-> p[1], category |-> p[2], isDeleted |-> FALSE] : p \in old.placed}
    OBVIOUS
<1>5. PICK work : work = ToSave(old.days, offers, moved, old.stale)
    OBVIOUS
<1>6. Continue(r, work) /\ UNCHANGED <<days, services, categories, proposals>>
    BY <1>1, <1>3, <1>4, <1>5 DEF PlaceService, WithPlaced, PlacedIds
<1>7. ASSUME NEW z \in offers
      PROVE  \/ z \in old.services /\ z.id \notin moved
             \/ \E p \in old.placed :
                  /\ z = [id |-> p[1], category |-> p[2], isDeleted |-> FALSE]
                  /\ z.id \in moved /\ z.id = p[1] /\ z.category = p[2] /\ z \in Loaded
  <2>1. CASE z \in old.services /\ z.id \notin moved
    BY <2>1
  <2>2. CASE \E p \in old.placed : z = [id |-> p[1], category |-> p[2], isDeleted |-> FALSE]
    <3>1. PICK p \in old.placed : z = [id |-> p[1], category |-> p[2], isDeleted |-> FALSE]
      BY <2>2
    <3>2. p[1] \in Nat /\ p[2] \in Names /\ p[1] \in moved
      BY <1>2, <1>3 DEF Looking
    <3> QED BY <3>1, <3>2 DEF Loaded
  <2> QED BY <1>4, <2>1, <2>2
<1>8. offers \subseteq Loaded /\ moved \subseteq Nat
  <2>1. old.services \subseteq Loaded /\ \A p \in old.placed : p[1] \in Nat
    BY <1>2 DEF Looking
  <2> QED BY <1>3, <1>7, <2>1
<1>9. /\ work.op = "Save" /\ work.days = old.days /\ work.services = offers
      /\ work.moved = moved /\ work.stale = old.stale /\ work \in Request
    BY <1>2, <1>5, <1>8 DEF ToSave, Request, Saving, Looking
<1>10. /\ days' = days /\ services' = services /\ categories' = categories
       /\ begun' = begun
    BY <1>6 DEF Continue
<1>11. ClaimDays(work)'
    BY <1>2, <1>9, <1>10 DEF Claim, ClaimDays, FromDays, Unique
<1>12. Unique(offers)
  <2>1. Unique(old.services) /\ OneEach(old.placed)
    BY <1>2 DEF Claim, ClaimServices
  <2>2. ASSUME NEW y \in offers, NEW z \in offers, y.id = z.id PROVE y = z
    <3>1. CASE y.id \in moved
      <4>1. PICK p \in old.placed :
              y = [id |-> p[1], category |-> p[2], isDeleted |-> FALSE] /\ y.id = p[1]
        BY <1>7, <3>1
      <4>2. PICK q \in old.placed :
              z = [id |-> q[1], category |-> q[2], isDeleted |-> FALSE] /\ z.id = q[1]
        BY <1>7, <2>2, <3>1
      <4>3. p = q
        BY <2>1, <2>2, <4>1, <4>2 DEF OneEach
      <4> QED BY <4>1, <4>2, <4>3
    <3>2. CASE y.id \notin moved
      <4>1. y \in old.services /\ z \in old.services
        BY <1>7, <2>2, <3>2
      <4> QED BY <2>1, <2>2, <4>1 DEF Unique
    <3> QED BY <3>1, <3>2
  <2> QED BY <2>2 DEF Unique
<1>13. "services" \notin old.stale /\ "categories" \notin old.stale =>
         FromServices(offers, moved)
  <2> SUFFICES ASSUME FromServices(old.services, {}) PROVE FromServices(offers, moved)
    BY <1>2 DEF Claim, ClaimServices
  <2>1. ASSUME NEW z \in offers, z.id \in moved PROVE Offered(z.category) # {}
    BY <1>2, <1>7, <2>1
  <2>2. ASSUME NEW z \in offers, z.id \notin moved
        PROVE  \E y \in Live(services), c \in categories :
                 y.id = z.id /\ c.id = y.category /\ c.name = z.category
    <3>1. z \in old.services
      BY <1>7, <2>2
    <3> QED BY <3>1 DEF FromServices
  <2> QED BY <2>1, <2>2 DEF FromServices
<1>14. ClaimServices(work)'
    BY <1>9, <1>10, <1>12, <1>13 DEF ClaimServices, FromServices, Offered, Unique
<1>15. Claim(work)' /\ ~Creates(work)
    BY <1>9, <1>11, <1>14 DEF Claim, ClaimProposals, ClaimId, Creates
<1> QED BY <1>6, <1>9, <1>15, ContinueKeeps

\* What the saved services become: each is connected to the category of its name.
LEMMA ServicesSaved ==
    ASSUME IInv, NEW r \in Slots, Save(r), NEW old, old = req[r]
    PROVE  /\ old \in Saving /\ Claim(old)
           /\ \A z \in services' :
                \/ z \in services /\ \A x \in old.services : x.id # z.id
                \/ \E x \in old.services, c \in categories :
                     /\ c.name = x.category
                     /\ z = [id |-> x.id, isDeleted |-> x.isDeleted, category |-> c.id]
<1>1. old \in Saving /\ Claim(old)
    BY ReqTyped, Kinds DEF IInv, Save
<1>2. ASSUME NEW x \in old.services
      PROVE  \E c \in categories :
               /\ c.name = x.category
               /\ (CHOOSE d \in categories : d.name = x.category) = c
  <2>1. PICK c \in categories : c.name = x.category
    BY DEF Save, NoRow
  <2>2. \A d \in categories : d.name = x.category => d = c
    BY <2>1 DEF IInv, Tables
  <2> QED BY <2>1, <2>2
<1>3. ASSUME NEW z \in services', ~(z \in services /\ \A x \in old.services : x.id # z.id)
      PROVE  \E x \in old.services, c \in categories :
               /\ c.name = x.category
               /\ z = [id |-> x.id, isDeleted |-> x.isDeleted, category |-> c.id]
  <2>1. PICK x \in old.services :
          z = [x EXCEPT !.category = (CHOOSE c \in categories : c.name = x.category).id]
    BY <1>3 DEF Save
  <2>2. PICK c \in categories :
          c.name = x.category /\ z = [x EXCEPT !.category = c.id]
    BY <1>2, <2>1
  <2>3. x \in Loaded
    BY <1>1 DEF Saving
  <2>4. z = [id |-> x.id, isDeleted |-> x.isDeleted, category |-> c.id]
    BY <2>2, <2>3 DEF Loaded
  <2> QED BY <2>2, <2>4
<1> QED BY <1>1, <1>3

LEMMA SaveKeeps ==
    ASSUME IInv, NEW r \in Slots, Save(r)
    PROVE  IInv'
<1>1. PICK old : old = req[r]
    OBVIOUS
<1>2. old \in Saving /\ Claim(old)
    BY <1>1, ServicesSaved
<1>3. /\ days' = Saved(days, old.days) /\ categories' = categories
      /\ proposals' = proposals /\ begun' = begun
      /\ Write(r, Idle, {"days", "services"})
    BY <1>1 DEF Save, Write
<1>4. /\ \A z \in services' :
           \/ z \in services /\ \A x \in old.services : x.id # z.id
           \/ \E x \in old.services, c \in categories :
                /\ c.name = x.category
                /\ z = [id |-> x.id, isDeleted |-> x.isDeleted, category |-> c.id]
    BY <1>1, ServicesSaved
<1>5. days' \subseteq Row /\ Unique(days')
    BY <1>2, <1>3, SavedUnique DEF Saving, Claim, ClaimDays, IInv, TypeOK, Tables
<1>6. \A z \in days' : z.id[1] <= begun
  <2>1. \A x \in old.days : x \in Row /\ x.id[1] <= begun
    BY <1>2 DEF Saving, Claim, ClaimDays
  <2>2. \A x \in old.days : \A z \in Written(days, x) : z.id = x.id
    BY <2>1, WrittenRow DEF IInv, TypeOK, Tables
  <2>3. \A x \in old.days : \A z \in Written(days, x) : z.id[1] <= begun
    BY <2>1, <2>2
  <2> QED BY <1>3, <2>3 DEF Saved, IInv, Tables
<1>7. services' \subseteq Service
  <2> SUFFICES ASSUME NEW z \in services' PROVE z \in Service
    OBVIOUS
  <2>1. CASE z \in services
    BY <2>1 DEF IInv, TypeOK
  <2>2. CASE \E x \in old.services, c \in categories :
               z = [id |-> x.id, isDeleted |-> x.isDeleted, category |-> c.id]
    <3>1. PICK x \in old.services, c \in categories :
            z = [id |-> x.id, isDeleted |-> x.isDeleted, category |-> c.id]
      BY <2>2
    <3>2. x.id \in Nat /\ x.isDeleted \in BOOLEAN /\ c.id \in CategoryId
      BY <1>2 DEF Saving, Loaded, IInv, TypeOK, Category
    <3> QED BY <3>1, <3>2 DEF Service
  <2> QED BY <1>4, <2>1, <2>2
<1>8. Unique(services')
  <2> SUFFICES ASSUME NEW y \in services', NEW z \in services', y.id = z.id PROVE y = z
    BY DEF Unique
  <2>1. Unique(old.services) /\ Unique(services)
    BY <1>2 DEF Saving, Claim, ClaimServices, IInv, Tables
  <2>2. CASE \A x \in old.services : x.id # y.id
    <3>1. y \in services /\ z \in services
      BY <1>4, <2>2
    <3> QED BY <2>1, <3>1 DEF Unique
  <2>3. CASE \E x \in old.services : x.id = y.id
    <3>1. PICK x \in old.services, c \in categories :
            /\ c.name = x.category
            /\ y = [id |-> x.id, isDeleted |-> x.isDeleted, category |-> c.id]
      BY <1>4, <2>3
    <3>2. PICK v \in old.services, d \in categories :
            /\ d.name = v.category
            /\ z = [id |-> v.id, isDeleted |-> v.isDeleted, category |-> d.id]
      BY <1>4, <2>3
    <3>3. x = v
      BY <2>1, <3>1, <3>2 DEF Unique
    <3>4. c = d
      BY <3>1, <3>2, <3>3 DEF IInv, Tables
    <3> QED BY <3>1, <3>2, <3>3, <3>4
  <2> QED BY <2>2, <2>3
<1>9. \A z \in services' : \E c \in categories : c.id = z.category
    BY <1>4 DEF IInv, Tables
<1>10. Stays({"days", "services"})
    BY <1>3, CatalogueAssumption DEF Stays, IInv, TypeOK
<1>11. TablesTyped' /\ Tables'
  <2>1. TablesTyped'
    BY <1>3, <1>5, <1>7 DEF TablesTyped, IInv, TypeOK
  <2>2. Tables'
    BY <1>3, <1>5, <1>6, <1>8, <1>9 DEF Tables, IInv, Unique
  <2> QED BY <2>1, <2>2
<1>12. \A q \in Slots : Creates(req[q]) => \A c \in categories' : c.id # NewId(req[q])
    BY <1>3 DEF IInv, Claim, ClaimId
<1>13. Idle \in Request /\ {"days", "services"} \in SUBSET Table
    BY DEF Request, Table
<1> QED BY <1>3, <1>10, <1>11, <1>12, <1>13, IdleClaims, WriteKeeps

-----------------------------------------------------------------------------
(***************************************************************************)
(* The requests about categories.                                          *)
(***************************************************************************)

LEMMA CategoryReadsKeep ==
    ASSUME IInv, NEW r \in Slots,
           \/ \E name \in Names : ReadToCreate(r, name)
           \/ \E c \in Live(categories), name \in Names : ReadToRename(r, c, name)
           \/ \E c \in Live(categories) : ReadToDelete(r, c)
    PROVE  IInv'
<1>0. begun + 1 \in Nat /\ begun + 1 <= begun + 1 /\ ~(begun + 1 <= begun)
    BY DaysBefore, CatalogueAssumption DEF IInv, TypeOK
<1>1. CASE \E name \in Names : ReadToCreate(r, name)
  <2>1. PICK name \in Names : ReadToCreate(r, name)
    BY <1>1
  <2>2. PICK work : work = [op |-> "Create", id |-> <<begun + 1, name>>, name |-> name,
                            stale |-> {}]
    OBVIOUS
  <2>3. Start(r, work) /\ begun' = begun + 1 /\ categories' = categories
    BY <2>1, <2>2 DEF ReadToCreate, Start
  <2>4. work.op = "Create" /\ work.id = <<begun + 1, name>> /\ work.id[1] = begun + 1
    BY <2>2
  <2>5. work \in Request
    BY <1>0, <2>2 DEF Request, Naming, CategoryId
  <2>6. \A c \in categories : c.id[1] <= begun
    BY DEF IInv, Tables
  <2>7. \A c \in categories : c.id # work.id
    BY <1>0, <2>4, <2>6
  <2>8. ClaimId(work)'
    BY <1>0, <2>3, <2>4, <2>7 DEF ClaimId, NewId
  <2>9. Claim(work)'
    BY <2>4, <2>8 DEF Claim, ClaimDays, ClaimServices, ClaimProposals
  <2> QED BY <2>3, <2>4, <2>5, <2>9, StartKeeps DEF NewId
<1>2. CASE \E c \in Live(categories), name \in Names : ReadToRename(r, c, name)
  <2>1. PICK c \in Live(categories), name \in Names : ReadToRename(r, c, name)
    BY <1>2
  <2>2. PICK work : work = [op |-> "Rename", id |-> c.id, name |-> name, stale |-> {}]
    OBVIOUS
  <2>3. Start(r, work)
    BY <2>1, <2>2 DEF ReadToRename
  <2>4. work.op = "Rename" /\ c.id \in CategoryId
    BY <2>2 DEF Live, IInv, TypeOK, Category
  <2>5. work \in Request
    BY <2>2, <2>4 DEF Request, Naming
  <2>6. Claim(work)' /\ ~Creates(work)
    BY <2>4 DEF Claim, ClaimDays, ClaimServices, ClaimProposals, ClaimId, Creates
  <2> QED BY <2>3, <2>5, <2>6, StartKeeps
<1>3. CASE \E c \in Live(categories) : ReadToDelete(r, c)
  <2>1. PICK c \in Live(categories) : ReadToDelete(r, c)
    BY <1>3
  <2>2. PICK work : work = [op |-> "Delete", id |-> c.id, step |-> "count", stale |-> {}]
    OBVIOUS
  <2>3. Start(r, work)
    BY <2>1, <2>2 DEF ReadToDelete
  <2>4. work.op = "Delete" /\ work.step = "count" /\ c.id \in CategoryId
    BY <2>2 DEF Live, IInv, TypeOK, Category
  <2>5. work \in Request
    BY <2>2, <2>4 DEF Request, Deleting, Table
  <2>6. Claim(work)' /\ ~Creates(work)
    BY <2>4 DEF Claim, ClaimDays, ClaimServices, ClaimProposals, ClaimId, Creates
  <2> QED BY <2>3, <2>5, <2>6, StartKeeps
<1> QED BY <1>1, <1>2, <1>3

LEMMA CountKeeps ==
    ASSUME IInv, NEW r \in Slots, CountServices(r)
    PROVE  IInv'
<1>1. PICK old : old = req[r]
    OBVIOUS
<1>2. PICK work : work = [old EXCEPT !.step = "write"]
    OBVIOUS
<1>3. /\ old.op = "Delete" /\ old \in Deleting
      /\ \A x \in Live(services) : x.category # old.id
      /\ Continue(r, work) /\ UNCHANGED <<days, services, categories, proposals>>
    BY <1>1, <1>2, ReqTyped, Kinds DEF IInv, CountServices
<1>4. work \in Deleting /\ work.op = "Delete" /\ work.id = old.id
    BY <1>2, <1>3 DEF Deleting
<1>5. Claim(work)' /\ ~Creates(work)
    BY <1>3, <1>4 DEF Claim, ClaimDays, ClaimServices, ClaimProposals, ClaimId, Creates, Live
<1> QED BY <1>3, <1>4, <1>5, ContinueKeeps DEF Request

\* A category that gets a new row, for whoever drew its id.
LEMMA AddedCategory ==
    ASSUME IInv, begun' = begun, days' = days, services' = services, proposals' = proposals,
           NEW id \in CategoryId, NEW name \in Names, NoRow(name),
           id[1] <= begun, \A c \in categories : c.id # id,
           categories' = categories \cup {[id |-> id, name |-> name, isDeleted |-> FALSE]}
    PROVE  TablesTyped' /\ Tables' /\ \E c \in Live(categories)' : c.id = id
<1>1. PICK new : new = [id |-> id, name |-> name, isDeleted |-> FALSE]
    OBVIOUS
<1>2. /\ new \in Category /\ new.id = id /\ new.name = name /\ ~new.isDeleted
      /\ categories' = categories \cup {new}
    BY <1>1 DEF Category
<1>3. TablesTyped'
    BY <1>2 DEF TablesTyped, IInv, TypeOK
<1>4. Unique(categories')
    BY <1>2 DEF IInv, Tables, Unique
<1>5. \A c, d \in categories' : c.name = d.name => c = d
    BY <1>2 DEF IInv, Tables, NoRow
<1>6. \A c \in categories' : c.id[1] <= begun
    BY <1>2 DEF IInv, Tables
<1>7. \A x \in services' : \E c \in categories' : c.id = x.category
    BY <1>2 DEF IInv, Tables
<1>8. Tables'
    BY <1>4, <1>5, <1>6, <1>7 DEF IInv, Tables, Unique
<1> QED BY <1>2, <1>3, <1>8 DEF Live

\* Categories that keep their ids.
LEMMA ChangedCategories ==
    ASSUME IInv, begun' = begun, days' = days, services' = services, proposals' = proposals,
           categories' \subseteq Category, Unique(categories'),
           \A c \in categories : \E d \in categories' : d.id = c.id,
           \A d \in categories' : \E c \in categories : d.id = c.id,
           \A c, d \in categories' : c.name = d.name => c = d
    PROVE  /\ TablesTyped' /\ Tables'
           /\ \A q \in Slots : Creates(req[q]) => \A c \in categories' : c.id # NewId(req[q])
<1>1. TablesTyped'
    BY DEF TablesTyped, IInv, TypeOK
<1>2. \A x \in services' : \E c \in categories' : c.id = x.category
    BY DEF IInv, Tables
<1>3. \A c \in categories' : c.id[1] <= begun
    BY DEF IInv, Tables
<1>4. Tables'
    BY <1>2, <1>3 DEF IInv, Tables, Unique
<1>5. ASSUME NEW q \in Slots, Creates(req[q]), NEW d \in categories'
      PROVE  d.id # NewId(req[q])
    BY <1>5 DEF IInv, Claim, ClaimId
<1> QED BY <1>1, <1>4, <1>5

LEMMA WriteNameKeeps ==
    ASSUME IInv, NEW r \in Slots, WriteName(r)
    PROVE  IInv'
<1>1. PICK old : old = req[r]
    OBVIOUS
<1>2. old \in Naming /\ Claim(old) /\ ~Taken(old.name, old.id)
    BY <1>1, ReqTyped, Kinds DEF IInv, WriteName
<1>3. /\ days' = days /\ services' = services /\ proposals' = proposals /\ begun' = begun
      /\ Write(r, Idle, {"categories"})
    BY DEF WriteName, Write
<1>4. Stays({"categories"}) /\ {"categories"} \in SUBSET Table /\ Idle \in Request
    BY <1>3, CatalogueAssumption DEF Stays, IInv, TypeOK, Table, Request
<1>5. CASE old.op = "Create"
  <2>1. /\ old.id \in CategoryId /\ old.name \in Names /\ old.id[1] <= begun
        /\ \A c \in categories : c.id # old.id
    BY <1>2, <1>5 DEF Naming, Claim, ClaimId, Creates, NewId
  <2>2. categories' = categories \cup {[id |-> old.id, name |-> old.name,
                                        isDeleted |-> FALSE]}
    BY <1>1, <1>5 DEF WriteName
  <2>3. TablesTyped' /\ Tables'
    <3>1. NoRow(old.name)
      BY <1>2, <2>1 DEF Taken, NoRow
    <3> QED BY <1>3, <2>1, <2>2, <3>1, AddedCategory
  <2>4. ASSUME NEW q \in Slots, q # r, Creates(req[q]), NEW c \in categories'
        PROVE  c.id # NewId(req[q])
    <3>1. NewId(req[q]) # old.id
      BY <1>1, <1>5, <2>4 DEF IInv, Distinct, Creates, NewId
    <3>2. c \in categories \/ c.id = old.id
      BY <2>2
    <3> QED BY <2>4, <3>1, <3>2 DEF IInv, Claim, ClaimId
  <2> QED BY <1>3, <1>4, <2>3, <2>4, IdleClaims, WriteKeeps
<1>6. CASE old.op # "Create"
  <2>1. categories' = {IF c.id = old.id THEN [c EXCEPT !.name = old.name] ELSE c :
                         c \in categories}
    BY <1>1, <1>6 DEF WriteName
  <2>2. old.name \in Names
    BY <1>2 DEF Naming
  <2>3. ASSUME NEW c \in categories
        PROVE  [c EXCEPT !.name = old.name] =
                 [id |-> c.id, name |-> old.name, isDeleted |-> c.isDeleted]
    BY DEF IInv, TypeOK, Category
  <2>4. ASSUME NEW d \in categories'
        PROVE  \E c \in categories :
                 /\ d.id = c.id /\ d.isDeleted = c.isDeleted
                 /\ c.id # old.id => d = c
                 /\ c.id = old.id => d = [id |-> c.id, name |-> old.name,
                                          isDeleted |-> c.isDeleted]
    BY <2>1, <2>3
  <2>5. ASSUME NEW c \in categories PROVE \E d \in categories' : d.id = c.id
    <3>1. PICK d : d = IF c.id = old.id THEN [c EXCEPT !.name = old.name] ELSE c
      OBVIOUS
    <3>2. d \in categories'
      BY <2>1, <3>1
    <3>3. d.id = c.id
      BY <2>3, <3>1
    <3> QED BY <3>2, <3>3
  <2>6. categories' \subseteq Category
    BY <2>2, <2>4 DEF IInv, TypeOK, Category
  <2>7. Unique(categories')
    BY <2>4 DEF Unique, IInv, Tables
  <2>8. \A c, d \in categories' : c.name = d.name => c = d
    BY <1>2, <2>4 DEF Unique, IInv, Tables, Taken
  <2>9. /\ TablesTyped' /\ Tables'
        /\ \A q \in Slots : Creates(req[q]) => \A c \in categories' : c.id # NewId(req[q])
    BY <1>3, <2>4, <2>5, <2>6, <2>7, <2>8, ChangedCategories
  <2> QED BY <1>3, <1>4, <2>9, IdleClaims, WriteKeeps
<1> QED BY <1>5, <1>6

LEMMA DeleteKeeps ==
    ASSUME IInv, NEW r \in Slots, DeleteCategory(r)
    PROVE  IInv'
<1>1. PICK id : id = req[r].id
    OBVIOUS
<1>3. /\ days' = days /\ services' = services /\ proposals' = proposals /\ begun' = begun
      /\ Write(r, Idle, {"categories"})
    BY DEF DeleteCategory, Write
<1>4. Stays({"categories"}) /\ {"categories"} \in SUBSET Table /\ Idle \in Request
    BY <1>3, CatalogueAssumption DEF Stays, IInv, TypeOK, Table, Request
<1>5. categories' = {IF c.id = id THEN [c EXCEPT !.isDeleted = TRUE] ELSE c :
                       c \in categories}
    BY <1>1 DEF DeleteCategory
<1>6. ASSUME NEW c \in categories, NEW d, d = [c EXCEPT !.isDeleted = TRUE]
      PROVE  d \in Category /\ d.id = c.id /\ d.name = c.name
    BY <1>6 DEF IInv, TypeOK, Category
<1>7. ASSUME NEW d \in categories'
      PROVE  \E c \in categories :
               /\ d \in Category /\ d.id = c.id /\ d.name = c.name
               /\ c.id # id => d = c
               /\ c.id = id => d = [c EXCEPT !.isDeleted = TRUE]
  <2>1. PICK c \in categories :
          d = IF c.id = id THEN [c EXCEPT !.isDeleted = TRUE] ELSE c
    BY <1>5
  <2>2. CASE c.id = id
    BY <1>6, <2>1, <2>2
  <2>3. CASE c.id # id
    BY <2>1, <2>3 DEF IInv, TypeOK
  <2> QED BY <2>2, <2>3
<1>8. ASSUME NEW c \in categories PROVE \E d \in categories' : d.id = c.id
  <2>1. PICK d : d = IF c.id = id THEN [c EXCEPT !.isDeleted = TRUE] ELSE c
    OBVIOUS
  <2>2. d \in categories'
    BY <1>5, <2>1
  <2>3. d.id = c.id
    BY <1>6, <2>1
  <2> QED BY <2>2, <2>3
<1>9. categories' \subseteq Category
    BY <1>7
<1>10. Unique(categories') /\ \A c, d \in categories' : c.name = d.name => c = d
  <2>1. ASSUME NEW d \in categories', NEW e \in categories', d.id = e.id \/ d.name = e.name
        PROVE  d = e
    <3>1. PICK c \in categories :
            /\ d.id = c.id /\ d.name = c.name
            /\ c.id # id => d = c
            /\ c.id = id => d = [c EXCEPT !.isDeleted = TRUE]
      BY <1>7
    <3>2. PICK b \in categories :
            /\ e.id = b.id /\ e.name = b.name
            /\ b.id # id => e = b
            /\ b.id = id => e = [b EXCEPT !.isDeleted = TRUE]
      BY <1>7
    <3>3. c = b
      BY <2>1, <3>1, <3>2 DEF Unique, IInv, Tables
    <3> QED BY <3>1, <3>2, <3>3
  <2> QED BY <2>1 DEF Unique
<1>11. /\ TablesTyped' /\ Tables'
       /\ \A q \in Slots : Creates(req[q]) => \A c \in categories' : c.id # NewId(req[q])
    BY <1>3, <1>7, <1>8, <1>9, <1>10, ChangedCategories
<1> QED BY <1>3, <1>4, <1>11, IdleClaims, WriteKeeps

-----------------------------------------------------------------------------
(***************************************************************************)
(* The requests about proposals.                                           *)
(***************************************************************************)

LEMMA ProposeKeeps ==
    ASSUME IInv, NEW r \in Slots, Propose(r)
    PROVE  IInv'
<1>1. PICK new : new = [id |-> begun + 1, status |-> "PENDING", category |-> None]
    OBVIOUS
<1>2. /\ proposals' = proposals \cup {new} /\ begun' = begun + 1 /\ begun < MaxRequests
      /\ days' = days /\ services' = services /\ categories' = categories
      /\ req' = Aged(r, Idle, {"proposals"})
    BY <1>1 DEF Propose, Free
<1>3. begun \in Nat /\ begun + 1 \in Nat /\ begun' <= MaxRequests
    BY <1>2, CatalogueAssumption DEF IInv, TypeOK
<1>4. \A x \in days : x.id[1] <= begun'
  <2>1. \A x \in days : x.id[1] \in Nat
    BY RowIds DEF IInv, TypeOK
  <2> QED BY <1>2, <1>3, <2>1 DEF IInv, Tables
<1>5. \A c \in categories : c.id[1] <= begun'
  <2>1. \A c \in categories : c.id[1] \in Nat
    BY DEF IInv, TypeOK, Category, CategoryId
  <2> QED BY <1>2, <1>3, <2>1 DEF IInv, Tables
<1>6. \A p \in proposals : p.id \in Nat /\ p.id <= begun
    BY DEF IInv, TypeOK, Proposal, Tables
<1>7. \A p \in proposals' : p.id <= begun'
    BY <1>1, <1>2, <1>3, <1>6
<1>8. Unique(proposals')
  <2>1. \A p \in proposals : p.id # new.id
    BY <1>1, <1>3, <1>6
  <2> QED BY <1>2, <2>1 DEF IInv, Tables, Unique
<1>9. TablesTyped'
  <2>1. new \in Proposal
    BY <1>1, <1>3 DEF Proposal
  <2> QED BY <1>2, <2>1 DEF TablesTyped, IInv, TypeOK
<1>10. Tables'
    BY <1>2, <1>4, <1>5, <1>7, <1>8 DEF Tables, IInv, Unique
<1>11. Stays({"proposals"}) /\ {"proposals"} \in SUBSET Table /\ Idle \in Request
    BY <1>2, <1>3 DEF Stays, Table, Request
<1>12. \A q \in Slots : Creates(req[q]) => \A c \in categories' : c.id # NewId(req[q])
    BY <1>2 DEF IInv, Claim, ClaimId
<1> QED BY <1>2, <1>3, <1>9, <1>10, <1>11, <1>12, IdleClaims, AgingKeeps

LEMMA ReviewReadsKeep ==
    ASSUME IInv, NEW r \in Slots,
           \/ \E p \in proposals, name \in Names : ReadToApprove(r, p, name)
           \/ \E p \in proposals : ReadToReject(r, p)
    PROVE  IInv'
<1>0. begun + 1 \in Nat /\ begun + 1 <= begun + 1 /\ ~(begun + 1 <= begun)
    BY DaysBefore, CatalogueAssumption DEF IInv, TypeOK
<1>1. ASSUME NEW p \in proposals, p.status = "PENDING"
      PROVE  p.id \in Nat /\ \A q \in proposals : q.id = p.id => q.status = "PENDING"
    BY <1>1 DEF IInv, TypeOK, Proposal, Tables, Unique
<1>2. CASE \E p \in proposals, name \in Names : ReadToApprove(r, p, name)
  <2>1. PICK p \in proposals, name \in Names : ReadToApprove(r, p, name)
    BY <1>2
  <2>2. PICK work : work = [op |-> "Approve", id |-> p.id, name |-> name,
                            category |-> <<begun + 1, name>>, step |-> "find", stale |-> {}]
    OBVIOUS
  <2>3. /\ Start(r, work) /\ begun' = begun + 1 /\ categories' = categories
        /\ proposals' = proposals /\ p.status = "PENDING"
    BY <2>1, <2>2 DEF ReadToApprove, Start
  <2>4. /\ work.op = "Approve" /\ work.category = <<begun + 1, name>>
        /\ work.category[1] = begun + 1 /\ work.step = "find" /\ work.id = p.id
    BY <2>2
  <2>5. p.id \in Nat /\ \A q \in proposals : q.id = p.id => q.status = "PENDING"
    BY <1>1, <2>3
  <2>6. work \in Request
    BY <1>0, <2>2, <2>5 DEF Request, Approving, CategoryId, Table
  <2>7. \A c \in categories : c.id # work.category
    BY <1>0, <2>4 DEF IInv, Tables
  <2>8. ClaimId(work)' /\ ClaimProposals(work)'
    BY <1>0, <2>3, <2>4, <2>5, <2>7 DEF ClaimId, NewId, ClaimProposals
  <2>9. Claim(work)'
    BY <2>4, <2>8 DEF Claim, ClaimDays, ClaimServices
  <2> QED BY <2>3, <2>4, <2>6, <2>9, StartKeeps DEF NewId
<1>3. CASE \E p \in proposals : ReadToReject(r, p)
  <2>1. PICK p \in proposals : ReadToReject(r, p)
    BY <1>3
  <2>2. PICK work : work = [op |-> "Reject", id |-> p.id, stale |-> {}]
    OBVIOUS
  <2>3. Start(r, work) /\ proposals' = proposals /\ p.status = "PENDING"
    BY <2>1, <2>2 DEF ReadToReject, Start
  <2>4. p.id \in Nat /\ \A q \in proposals : q.id = p.id => q.status = "PENDING"
    BY <1>1, <2>3
  <2>5. work \in Request /\ work.op = "Reject" /\ work.id = p.id
    BY <2>2, <2>4 DEF Request, Rejecting
  <2>6. Claim(work)' /\ ~Creates(work)
    BY <2>3, <2>4, <2>5
       DEF Claim, ClaimDays, ClaimServices, ClaimProposals, ClaimId, Creates
  <2> QED BY <2>3, <2>5, <2>6, StartKeeps
<1> QED BY <1>2, <1>3

LEMMA FindKeeps ==
    ASSUME IInv, NEW r \in Slots, FindCategory(r)
    PROVE  IInv'
<1>1. PICK old : old = req[r]
    OBVIOUS
<1>2. /\ old.op = "Approve" /\ old.step = "find" /\ old \in Approving /\ Claim(old)
      /\ days' = days /\ services' = services /\ categories' = categories
      /\ proposals' = proposals
    BY <1>1, ReqTyped, Kinds DEF IInv, FindCategory
<1>3. CASE Offered(old.name) = {}
  <2>1. PICK work : work = [old EXCEPT !.step = "create"]
    OBVIOUS
  <2>2. Continue(r, work) /\ begun' = begun
    BY <1>1, <1>3, <2>1 DEF FindCategory, Continue
  <2>3. /\ work \in Approving /\ work.op = "Approve" /\ work.step = "create"
        /\ work.id = old.id /\ work.category = old.category /\ work.stale = old.stale
    BY <1>2, <2>1 DEF Approving
  <2>4. Creates(work) /\ Creates(old) /\ NewId(work) = NewId(old)
    BY <1>2, <2>3 DEF Creates, NewId
  <2>5. ClaimProposals(work)'
    BY <1>2, <2>3 DEF Claim, ClaimProposals
  <2>6. ClaimId(work)'
    BY <1>2, <2>2, <2>3, <2>4 DEF Claim, ClaimId, NewId
  <2>7. Claim(work)'
    BY <2>3, <2>5, <2>6 DEF Claim, ClaimDays, ClaimServices
  <2> QED BY <1>1, <1>2, <2>2, <2>3, <2>4, <2>7, ContinueKeeps DEF Request
<1>4. CASE Offered(old.name) # {}
  <2>1. PICK c \in Offered(old.name) :
          Continue(r, [old EXCEPT !.step = "write", !.category = c.id])
    BY <1>1, <1>4 DEF FindCategory
  <2>2. PICK work : work = [old EXCEPT !.step = "write", !.category = c.id]
    OBVIOUS
  <2>3. c \in Live(categories) /\ c.id \in CategoryId
    BY DEF Offered, Live, IInv, TypeOK, Category
  <2>4. /\ work \in Approving /\ work.op = "Approve" /\ work.step = "write"
        /\ work.id = old.id /\ work.category = c.id /\ work.stale = old.stale
    BY <1>2, <2>2, <2>3 DEF Approving
  <2>5. ClaimProposals(work)'
    BY <1>2, <2>3, <2>4 DEF Claim, ClaimProposals, Live
  <2>6. Claim(work)' /\ ~Creates(work)
    BY <2>4, <2>5 DEF Claim, ClaimDays, ClaimServices, ClaimId, Creates
  <2> QED BY <1>2, <2>1, <2>2, <2>4, <2>6, ContinueKeeps DEF Request
<1> QED BY <1>3, <1>4

LEMMA CreateApprovedKeeps ==
    ASSUME IInv, NEW r \in Slots, CreateApproved(r)
    PROVE  IInv'
<1>1. PICK old : old = req[r]
    OBVIOUS
<1>2. PICK work : work = [old EXCEPT !.step = "write"]
    OBVIOUS
<1>3. /\ old.op = "Approve" /\ old.step = "create" /\ old \in Approving /\ Claim(old)
      /\ NoRow(old.name)
      /\ days' = days /\ services' = services /\ proposals' = proposals /\ begun' = begun
      /\ Write(r, work, {"categories"})
      /\ categories' = categories \cup {[id |-> old.category, name |-> old.name,
                                         isDeleted |-> FALSE]}
    BY <1>1, <1>2, ReqTyped, Kinds DEF IInv, CreateApproved, Write
<1>4. /\ work \in Approving /\ work.op = "Approve" /\ work.step = "write"
      /\ work.id = old.id /\ work.category = old.category /\ work.stale = old.stale
    BY <1>2, <1>3 DEF Approving
<1>5. /\ old.category \in CategoryId /\ old.name \in Names /\ old.category[1] <= begun
      /\ \A c \in categories : c.id # old.category
    BY <1>3 DEF Approving, Claim, ClaimId, Creates, NewId
<1>6. TablesTyped' /\ Tables' /\ \E c \in Live(categories)' : c.id = old.category
    BY <1>3, <1>5, AddedCategory
<1>7. ClaimProposals(work)'
    BY <1>3, <1>4, <1>6 DEF Claim, ClaimProposals
<1>8. Claim(work)' /\ ~Creates(work)
    BY <1>4, <1>7 DEF Claim, ClaimDays, ClaimServices, ClaimId, Creates
<1>9. ASSUME NEW q \in Slots, q # r, Creates(req[q]), NEW c \in categories'
      PROVE  c.id # NewId(req[q])
  <2>1. NewId(req[q]) # old.category
    BY <1>1, <1>3, <1>9 DEF IInv, Distinct, Creates, NewId
  <2>2. c \in categories \/ c.id = old.category
    BY <1>3
  <2> QED BY <1>9, <2>1, <2>2 DEF IInv, Claim, ClaimId
<1>10. Stays({"categories"}) /\ {"categories"} \in SUBSET Table
    BY <1>3, CatalogueAssumption DEF Stays, IInv, TypeOK, Table
<1> QED BY <1>3, <1>4, <1>6, <1>8, <1>9, <1>10, WriteKeeps DEF Request

\* A proposal that is decided keeps its id.
LEMMA DecisionKeeps ==
    ASSUME IInv, NEW r \in Slots, Write(r, Idle, {"proposals"}),
           UNCHANGED <<days, services, categories>>,
           proposals' \subseteq Proposal, Unique(proposals'),
           \A q \in proposals' : \E p \in proposals : q.id = p.id
    PROVE  IInv'
<1>1. begun' = begun
    BY DEF Write
<1>2. TablesTyped' /\ Tables'
  <2>1. \A p \in proposals' : p.id <= begun'
    BY <1>1 DEF IInv, Tables
  <2> QED BY <1>1, <2>1 DEF IInv, TypeOK, TablesTyped, Tables, Unique
<1>3. Stays({"proposals"}) /\ {"proposals"} \in SUBSET Table /\ Idle \in Request
    BY <1>1, CatalogueAssumption DEF Stays, IInv, TypeOK, Table, Request
<1>4. \A q \in Slots : Creates(req[q]) => \A c \in categories' : c.id # NewId(req[q])
    BY DEF IInv, Claim, ClaimId
<1> QED BY <1>2, <1>3, <1>4, IdleClaims, WriteKeeps

\* What a decision makes of a proposal.
ApprovedAs(p, c) == [p EXCEPT !.status = "APPROVED", !.category = c]

LEMMA ApprovedRow ==
    ASSUME NEW p \in Proposal, NEW c \in CategoryId, NEW q, q = ApprovedAs(p, c)
    PROVE  q \in Proposal /\ q.id = p.id /\ q.status = "APPROVED" /\ q.category = c
BY DEF Proposal, ApprovedAs

LEMMA RejectedRow ==
    ASSUME NEW p \in Proposal, NEW q, q = [p EXCEPT !.status = "REJECTED"]
    PROVE  q \in Proposal /\ q.id = p.id /\ q.status = "REJECTED"
BY DEF Proposal

LEMMA ApproveMakes ==
    ASSUME IInv, NEW r \in Slots, Approve(r), NEW old, old = req[r], NEW q \in proposals'
    PROVE  /\ old \in Approving /\ old.step = "write" /\ Claim(old)
           /\ \E p \in proposals :
                /\ q \in Proposal /\ q.id = p.id
                /\ p.id # old.id => q = p
                /\ p.id = old.id => /\ q = ApprovedAs(p, old.category)
                                    /\ q.status = "APPROVED" /\ q.category = old.category
<1>1. old \in Approving /\ old.step = "write" /\ Claim(old) /\ old.category \in CategoryId
    BY ReqTyped, Kinds DEF IInv, Approve, Approving
<1>2. PICK p \in proposals : q = IF p.id = old.id THEN ApprovedAs(p, old.category) ELSE p
    BY DEF Approve, ApprovedAs
<1>3. p \in Proposal
    BY DEF IInv, TypeOK
<1>4. CASE p.id = old.id
    BY <1>1, <1>2, <1>3, <1>4, ApprovedRow
<1>5. CASE p.id # old.id
    BY <1>1, <1>2, <1>3, <1>5
<1> QED BY <1>4, <1>5

LEMMA RejectMakes ==
    ASSUME IInv, NEW r \in Slots, Reject(r), NEW old, old = req[r], NEW q \in proposals'
    PROVE  /\ old \in Rejecting /\ Claim(old)
           /\ \E p \in proposals :
                /\ q \in Proposal /\ q.id = p.id
                /\ p.id # old.id => q = p
                /\ p.id = old.id => q = [p EXCEPT !.status = "REJECTED"]
                                    /\ q.status = "REJECTED"
<1>1. old \in Rejecting /\ Claim(old)
    BY ReqTyped, Kinds DEF IInv, Reject
<1>2. PICK p \in proposals :
        q = IF p.id = old.id THEN [p EXCEPT !.status = "REJECTED"] ELSE p
    BY DEF Reject
<1>3. p \in Proposal
    BY DEF IInv, TypeOK
<1>4. CASE p.id = old.id
    BY <1>1, <1>2, <1>3, <1>4, RejectedRow
<1>5. CASE p.id # old.id
    BY <1>1, <1>2, <1>3, <1>5
<1> QED BY <1>4, <1>5

LEMMA DecideKeeps ==
    ASSUME IInv, NEW r \in Slots, Approve(r) \/ Reject(r)
    PROVE  IInv'
<1>1. PICK old : old = req[r]
    OBVIOUS
<1>2. Write(r, Idle, {"proposals"}) /\ UNCHANGED <<days, services, categories>>
    BY DEF Approve, Reject
<1>3. CASE Approve(r)
  <2>1. proposals' \subseteq Proposal /\ \A q \in proposals' : \E p \in proposals : q.id = p.id
    BY <1>1, <1>3, ApproveMakes
  <2>2. ASSUME NEW q \in proposals', NEW s \in proposals', q.id = s.id PROVE q = s
    <3>1. PICK p \in proposals :
            /\ q.id = p.id /\ (p.id # old.id => q = p)
            /\ p.id = old.id => q = ApprovedAs(p, old.category)
      BY <1>1, <1>3, ApproveMakes
    <3>2. PICK o \in proposals :
            /\ s.id = o.id /\ (o.id # old.id => s = o)
            /\ o.id = old.id => s = ApprovedAs(o, old.category)
      BY <1>1, <1>3, ApproveMakes
    <3>3. p = o
      BY <2>2, <3>1, <3>2 DEF IInv, Tables, Unique
    <3> QED BY <3>1, <3>2, <3>3
  <2> QED BY <1>2, <2>1, <2>2, DecisionKeeps DEF Unique
<1>4. CASE Reject(r)
  <2>1. proposals' \subseteq Proposal /\ \A q \in proposals' : \E p \in proposals : q.id = p.id
    BY <1>1, <1>4, RejectMakes
  <2>2. ASSUME NEW q \in proposals', NEW s \in proposals', q.id = s.id PROVE q = s
    <3>1. PICK p \in proposals :
            /\ q.id = p.id /\ (p.id # old.id => q = p)
            /\ p.id = old.id => q = [p EXCEPT !.status = "REJECTED"]
      BY <1>1, <1>4, RejectMakes
    <3>2. PICK o \in proposals :
            /\ s.id = o.id /\ (o.id # old.id => s = o)
            /\ o.id = old.id => s = [o EXCEPT !.status = "REJECTED"]
      BY <1>1, <1>4, RejectMakes
    <3>3. p = o
      BY <2>2, <3>1, <3>2 DEF IInv, Tables, Unique
    <3> QED BY <3>1, <3>2, <3>3
  <2> QED BY <1>2, <2>1, <2>2, DecisionKeeps DEF Unique
<1> QED BY <1>3, <1>4

-----------------------------------------------------------------------------
(***************************************************************************)
(* The invariant, and what follows of the types.                           *)
(***************************************************************************)

LEMMA EndKeeps ==
    ASSUME IInv, NEW r \in Slots, Throw(r) \/ Die(r)
    PROVE  IInv'
BY ContinueKeeps, IdleClaims DEF Throw, Die, Request

LEMMA InitGood == Init => IInv
<1> SUFFICES ASSUME Init PROVE IInv
    OBVIOUS
<1>1. categories = {[id |-> <<0, n>>, name |-> n, isDeleted |-> FALSE] : n \in Seeded}
    BY DEF Init
<1>2. ASSUME NEW c \in categories
      PROVE  c \in Category /\ c.id = <<0, c.name>> /\ ~c.isDeleted
  <2>1. PICK n \in Seeded : c = [id |-> <<0, n>>, name |-> n, isDeleted |-> FALSE]
    BY <1>1
  <2>2. n \in Names /\ <<0, n>> \in CategoryId
    BY CatalogueAssumption DEF CategoryId
  <2> QED BY <2>1, <2>2 DEF Category
<1>3. ASSUME NEW c \in categories, NEW d \in categories, c.id = d.id \/ c.name = d.name
      PROVE  c = d
  <2>1. c.name = d.name
    BY <1>2, <1>3
  <2>2. PICK n \in Seeded : c = [id |-> <<0, n>>, name |-> n, isDeleted |-> FALSE]
    BY <1>1
  <2>3. PICK m \in Seeded : d = [id |-> <<0, m>>, name |-> m, isDeleted |-> FALSE]
    BY <1>1
  <2> QED BY <2>1, <2>2, <2>3
<1>4. \A c \in categories : c.id[1] <= begun
    BY <1>2 DEF Init
<1>5. TypeOK
  <2>1. categories \subseteq Category
    BY <1>2
  <2> QED BY <2>1, CatalogueAssumption DEF Init, TypeOK
<1>6. Tables
  <2>1. Unique(categories) /\ \A c, d \in categories : c.name = d.name => c = d
    BY <1>3 DEF Unique
  <2> QED BY <1>4, <2>1 DEF Init, Tables, Unique
<1>7. Distinct /\ \A r \in Slots : Claim(req[r])
    BY IdleClaims DEF Init, Distinct
<1> QED BY <1>5, <1>6, <1>7 DEF IInv

LEMMA NextGood == IInv /\ [Next]_vars => IInv'
<1> SUFFICES ASSUME IInv, [Next]_vars PROVE IInv'
    OBVIOUS
<1>1. CASE \E r \in Slots : AggregateStep(r)
    BY <1>1, DaysKeep, RemoveServiceKeeps, ReadToPlaceKeeps, ReadToPlaceAllKeeps,
       PlaceKeeps, SaveKeeps
       DEF AggregateStep
<1>2. CASE \E r \in Slots : CategoryStep(r)
    BY <1>2, CategoryReadsKeep, WriteNameKeeps, CountKeeps, DeleteKeeps DEF CategoryStep
<1>3. CASE \E r \in Slots : ProposalStep(r)
    BY <1>3, ProposeKeeps, ReviewReadsKeep, FindKeeps, CreateApprovedKeeps, DecideKeeps
       DEF ProposalStep
<1>4. CASE \E r \in Slots : Throw(r) \/ Die(r)
    BY <1>4, EndKeeps
<1>5. CASE UNCHANGED vars
  <2>1. TypeOK' /\ Tables' /\ Distinct'
    BY <1>5 DEF vars, IInv, TypeOK, Tables, Unique, Distinct, Creates, NewId
  <2>2. ASSUME NEW r \in Slots PROVE Claim(req[r])'
    <3>1. PICK w : w = req[r] /\ w = req'[r]
      BY <1>5 DEF vars
    <3>2. w \in Request /\ Claim(w) /\ Stays({})
      BY <1>5, <3>1, ReqTyped, CatalogueAssumption DEF IInv, vars, Stays, TypeOK
    <3>3. Creates(w) => \A c \in categories' : c.id # NewId(w)
      BY <1>5, <3>2 DEF vars, Claim, ClaimId
    <3>4. Claim(w)'
      BY <3>2, <3>3, SameKept, ClaimKept
    <3> QED BY <3>1, <3>4 DEF Claim, ClaimDays, ClaimServices, ClaimProposals, ClaimId,
                             Creates, NewId, OneEach
  <2> QED BY <2>1, <2>2 DEF IInv
<1> QED BY <1>1, <1>2, <1>3, <1>4, <1>5 DEF Next, Rest

LEMMA Invariance == Spec => []IInv
BY InitGood, NextGood, PTL DEF Spec

\* However the requests interleave and die, every row and every request has its type.
THEOREM TypeCorrect == Spec => []TypeOK
BY Invariance, PTL DEF IInv

-----------------------------------------------------------------------------
(***************************************************************************)
(* How a request ends: by its own write, by throwing or with the process.  *)
(***************************************************************************)

LEMMA EndsItself ==
    ASSUME TypeOK, NEW r \in Slots, Ends(r), NEW q \in Slots, NEW work,
           \/ Start(q, work) \/ Continue(q, work)
           \/ \E T \in SUBSET Table : Write(q, work, T)
           \/ \E T \in SUBSET Table : req' = Aged(q, work, T)
    PROVE  q = r /\ work = Idle /\ ~Start(q, work)
<1>1. req \in [Slots -> Request] /\ req[r] # Idle /\ req'[r] = Idle
    BY ReqTyped DEF Ends
<1>2. CASE Start(q, work)
    BY <1>1, <1>2 DEF Start, Free
<1>3. CASE Continue(q, work)
    BY <1>1, <1>3 DEF Continue, Start, Free
<1>4. CASE \E T \in SUBSET Table : req' = Aged(q, work, T)
  <2>1. PICK T \in SUBSET Table : req' = Aged(q, work, T)
    BY <1>4
  <2>2. CASE q # r
    <3>1. PICK w : w = req[r]
      OBVIOUS
    <3>2. PICK v : v = [w EXCEPT !.stale = w.stale \cup T]
      OBVIOUS
    <3>3. req'[r] = v
      BY <1>1, <2>1, <2>2, <3>1, <3>2 DEF Aged
    <3>4. v # Idle
      BY <1>1, <3>1, <3>2, AgedKept DEF Kept
    <3> QED BY <1>1, <3>3, <3>4
  <2>3. CASE q = r
    BY <1>1, <2>1, <2>3 DEF Aged, Start, Free
  <2> QED BY <2>2, <2>3
<1> QED BY <1>2, <1>3, <1>4 DEF Write

LEMMA HowItEnds ==
    ASSUME TypeOK, Next, NEW r \in Slots, Ends(r)
    PROVE  \/ Save(r) \/ WriteName(r) \/ DeleteCategory(r) \/ Approve(r) \/ Reject(r)
           \/ Throw(r) \/ Die(r)
<1>1. ASSUME NEW q \in Slots, NEW work, Start(q, work) PROVE FALSE
    BY <1>1, EndsItself
<1>2. ASSUME NEW q \in Slots, NEW work, Continue(q, work) PROVE q = r /\ work = Idle
    BY <1>2, EndsItself
<1>3. ASSUME NEW q \in Slots, NEW work, NEW T \in SUBSET Table, Write(q, work, T)
      PROVE  q = r /\ work = Idle
    BY <1>3, EndsItself
<1>4. {"days", "services"} \in SUBSET Table /\ {"categories"} \in SUBSET Table
      /\ {"proposals"} \in SUBSET Table
    BY DEF Table
<1>5. ASSUME NEW q \in Slots, AggregateStep(q) PROVE Save(r)
  <2>1. CASE Save(q)
    BY <1>3, <1>4, <2>1 DEF Save
  <2>2. CASE PlaceService(q)
    <3>1. PICK d, s, m, t : Continue(q, ToSave(d, s, m, t))
      BY <2>2 DEF PlaceService
    <3>2. ToSave(d, s, m, t).op # Idle.op
      BY DEF ToSave, Idle
    <3> QED BY <1>2, <3>1, <3>2
  <2>3. CASE RemoveService(q) \/ ReadToPlace(q) \/ ReadToPlaceAll(q)
    BY <1>1, <2>3 DEF RemoveService, ReadToPlace, ReadToPlaceAll
  <2>4. CASE \E newDays : Load(q, newDays)
    BY <1>1, <2>4 DEF Load
  <2> QED BY <1>5, <2>1, <2>2, <2>3, <2>4
          DEF AggregateStep, SetAvailability, SetAvailabilityBulk, UpdateAvailability,
              RemoveAvailability, SetAvailabilityStatus, Edit
<1>6. ASSUME NEW q \in Slots, CategoryStep(q) PROVE WriteName(r) \/ DeleteCategory(r)
  <2>1. CASE WriteName(q) \/ DeleteCategory(q)
    BY <1>3, <1>4, <2>1 DEF WriteName, DeleteCategory
  <2>2. CASE CountServices(q)
    <3>1. req[q] \in Deleting /\ Continue(q, [req[q] EXCEPT !.step = "write"])
      BY <2>2, ReqTyped, Kinds DEF CountServices
    <3>2. [req[q] EXCEPT !.step = "write"].op # Idle.op
      BY <3>1 DEF Deleting, Idle
    <3> QED BY <1>2, <3>1, <3>2
  <2>3. CASE \/ \E name \in Names : ReadToCreate(q, name)
             \/ \E c \in Live(categories), name \in Names : ReadToRename(q, c, name)
             \/ \E c \in Live(categories) : ReadToDelete(q, c)
    BY <1>1, <2>3 DEF ReadToCreate, ReadToRename, ReadToDelete
  <2> QED BY <1>6, <2>1, <2>2, <2>3 DEF CategoryStep
<1>7. ASSUME NEW q \in Slots, ProposalStep(q) PROVE Approve(r) \/ Reject(r)
  <2>1. CASE Approve(q) \/ Reject(q)
    BY <1>3, <1>4, <2>1 DEF Approve, Reject
  <2>2. CASE FindCategory(q)
    <3>1. PICK work : Continue(q, work) /\ work.op = "Approve"
      <4>1. req[q] \in Approving
        BY <2>2, ReqTyped, Kinds DEF FindCategory
      <4>2. [req[q] EXCEPT !.step = "create"].op = "Approve"
        BY <4>1 DEF Approving
      <4>3. \A c : [req[q] EXCEPT !.step = "write", !.category = c].op = "Approve"
        BY <4>1 DEF Approving
      <4> QED BY <2>2, <4>2, <4>3 DEF FindCategory
    <3> QED BY <1>2, <3>1 DEF Idle
  <2>3. CASE CreateApproved(q)
    <3>1. req[q] \in Approving /\ Write(q, [req[q] EXCEPT !.step = "write"], {"categories"})
      BY <2>3, ReqTyped, Kinds DEF CreateApproved
    <3>2. [req[q] EXCEPT !.step = "write"].op # Idle.op
      BY <3>1 DEF Approving, Idle
    <3> QED BY <1>3, <1>4, <3>1, <3>2
  <2>4. CASE \/ \E p \in proposals, name \in Names : ReadToApprove(q, p, name)
             \/ \E p \in proposals : ReadToReject(q, p)
    BY <1>1, <2>4 DEF ReadToApprove, ReadToReject
  <2>5. CASE Propose(q)
    <3>1. q = r /\ req[q] = Idle
      BY <1>4, <2>5, EndsItself DEF Propose, Free
    <3> QED BY <3>1 DEF Ends
  <2> QED BY <1>7, <2>1, <2>2, <2>3, <2>4, <2>5 DEF ProposalStep
<1>8. ASSUME NEW q \in Slots, Throw(q) \/ Die(q) PROVE Throw(r) \/ Die(r)
    BY <1>2, <1>8 DEF Throw, Die
<1>9. ~Rest
    BY DEF Rest, Ends
<1> QED BY <1>5, <1>6, <1>7, <1>8, <1>9 DEF Next

-----------------------------------------------------------------------------
(***************************************************************************)
(* What a request that nobody interfered with leaves behind.               *)
(***************************************************************************)

LEMMA EndHarmlessToDays ==
    ASSUME IInv, Next, NEW r \in Slots, Ends(r)
    PROVE  DaysUnharmed(r)
<1>1. days \subseteq Row /\ Unique(days)
    BY DEF IInv, TypeOK, Tables
<1>2. CASE Save(r)
  <2>1. PICK old : old = req[r]
    OBVIOUS
  <2>2. old \in Saving /\ Claim(old) /\ days' = Saved(days, old.days)
    BY <1>2, <2>1, ServicesSaved DEF Save
  <2>3. /\ old.days \in SUBSET Row /\ Unique(old.days)
        /\ "days" \notin old.stale => FromDays(old.days)
    BY <2>2 DEF Saving, Claim, ClaimDays
  <2>4. "days" \notin old.stale =>
          /\ Twice(days') \subseteq Twice(days)
          /\ \A x \in days' : x.isDeleted \/ \A y \in days : y.id = x.id => ~y.isDeleted
          /\ \A x \in days' : \/ Fits(x)
                              \/ \E y \in days : y.id = x.id /\ ~Fits(y)
                              \/ \E y \in old.days : y.id = x.id /\ y.pause = NoBreak
    BY <1>1, <2>2, <2>3, SavedFromDays
  <2> QED BY <2>1, <2>4 DEF DaysUnharmed, Fresh
<1>3. CASE ~Save(r)
  <2>1. days' = days
    BY <1>3, HowItEnds DEF IInv, WriteName, DeleteCategory, Approve, Reject, Throw, Die
  <2> QED BY <1>1, <2>1 DEF DaysUnharmed, Twice, Live, Unique
<1> QED BY <1>2, <1>3

\* Alone, a save leaves a service where it was, or puts it where it was asked to.
LEMMA SavedHarmless ==
    ASSUME IInv, NEW r \in Slots, Save(r)
    PROVE  ServicesUnharmed(r)
<1>1. PICK old : old = req[r]
    OBVIOUS
<1>2. /\ old \in Saving /\ Claim(old)
      /\ \A z \in services' :
           \/ z \in services /\ \A x \in old.services : x.id # z.id
           \/ \E x \in old.services, c \in categories :
                /\ c.name = x.category
                /\ z = [id |-> x.id, isDeleted |-> x.isDeleted, category |-> c.id]
    BY <1>1, ServicesSaved
<1>3. categories' = categories
    BY DEF Save
<1>4. SUFFICES ASSUME "services" \notin old.stale, "categories" \notin old.stale
               PROVE  /\ Orphans(services', categories') \subseteq Orphans(services, categories)
                      /\ \A x \in services', y \in services :
                           x.id = y.id /\ x.category # y.category => x.id \in old.moved
    BY <1>1 DEF ServicesUnharmed, Fresh
<1>5. FromServices(old.services, old.moved)
    BY <1>2, <1>4 DEF Claim, ClaimServices, Saving
<1>6. ASSUME NEW z \in services', NEW x \in old.services, NEW c \in categories,
             c.name = x.category, z = [id |-> x.id, isDeleted |-> x.isDeleted, category |-> c.id]
      PROVE  /\ x.id \in old.moved => ~c.isDeleted
             /\ x.id \notin old.moved =>
                  \E y \in Live(services) : y.id = z.id /\ y.category = z.category
  <2>1. CASE x.id \in old.moved
    <3>1. PICK d \in Live(categories) : d.name = x.category
      BY <1>5, <2>1 DEF FromServices, Offered
    <3>2. d = c
      BY <1>6, <3>1 DEF IInv, Tables, Live
    <3> QED BY <2>1, <3>1, <3>2 DEF Live
  <2>2. CASE x.id \notin old.moved
    <3>1. PICK y \in Live(services), d \in categories :
            y.id = x.id /\ d.id = y.category /\ d.name = x.category
      BY <1>5, <2>2 DEF FromServices
    <3>2. d = c
      BY <1>6, <3>1 DEF IInv, Tables
    <3> QED BY <1>6, <2>2, <3>1, <3>2
  <2> QED BY <2>1, <2>2
<1>7. ASSUME NEW z \in Live(services'), NEW c \in categories, c.id = z.category, c.isDeleted
      PROVE  \E y \in Live(services) : y.id = z.id /\ y.category = z.category
  <2>1. CASE z \in services
    BY <1>7, <2>1 DEF Live
  <2>2. CASE z \notin services
    <3>1. PICK x \in old.services, d \in categories :
            /\ d.name = x.category
            /\ z = [id |-> x.id, isDeleted |-> x.isDeleted, category |-> d.id]
      BY <1>2, <1>7, <2>2 DEF Live
    <3>2. d = c
      BY <1>7, <3>1 DEF IInv, Tables, Unique
    <3> QED BY <1>6, <1>7, <3>1, <3>2 DEF Live
  <2> QED BY <2>1, <2>2
<1>8. Orphans(services', categories') \subseteq Orphans(services, categories)
    BY <1>3, <1>7 DEF Orphans
<1>9. ASSUME NEW z \in services', NEW y \in services, z.id = y.id, z.category # y.category
      PROVE  z.id \in old.moved
  <2>1. z \notin services
    BY <1>9 DEF IInv, Tables, Unique
  <2>2. PICK x \in old.services, c \in categories :
          /\ c.name = x.category
          /\ z = [id |-> x.id, isDeleted |-> x.isDeleted, category |-> c.id]
    BY <1>2, <2>1
  <2>3. x.id = z.id
    BY <2>2
  <2> QED BY <1>6, <1>9, <2>2, <2>3 DEF IInv, Tables, Unique, Live
<1> QED BY <1>8, <1>9

\* A category that is written does not take its services with it.
LEMMA CategoriesHarmless ==
    ASSUME IInv, services' = services, NEW r \in Slots,
           \A y \in Live(services) : \A d \in categories' :
               d.id = y.category /\ d.isDeleted =>
                   \E c \in categories : c.id = y.category /\ c.isDeleted
    PROVE  ServicesUnharmed(r)
<1>1. Orphans(services', categories') \subseteq Orphans(services, categories)
    BY DEF Orphans
<1>2. \A x \in services', y \in services : x.id = y.id => x.category = y.category
    BY DEF IInv, Tables, Unique
<1> QED BY <1>1, <1>2 DEF ServicesUnharmed

LEMMA EndHarmlessToServices ==
    ASSUME IInv, Next, NEW r \in Slots, Ends(r)
    PROVE  ServicesUnharmed(r)
<1>1. PICK old : old = req[r]
    OBVIOUS
<1>2. CASE WriteName(r)
  <2>1. services' = services
    BY <1>2 DEF WriteName
  <2>2. ASSUME NEW d \in categories', d.isDeleted
        PROVE  \E c \in categories : c.id = d.id /\ c.isDeleted
    <3>1. CASE old.op = "Create"
      BY <1>1, <1>2, <2>2, <3>1 DEF WriteName
    <3>2. CASE old.op # "Create"
      <4>1. PICK c \in categories :
              d = IF c.id = old.id THEN [c EXCEPT !.name = old.name] ELSE c
        BY <1>1, <1>2, <3>2 DEF WriteName
      <4>2. c \in Category
        BY DEF IInv, TypeOK
      <4>3. d.id = c.id /\ d.isDeleted = c.isDeleted
        BY <4>1, <4>2 DEF Category
      <4> QED BY <2>2, <4>3
    <3> QED BY <3>1, <3>2
  <2> QED BY <2>1, <2>2, CategoriesHarmless
<1>3. CASE DeleteCategory(r)
  <2>1. /\ services' = services /\ old \in Deleting /\ old.step = "write" /\ Claim(old)
        /\ old.op = "Delete"
        /\ categories' = {IF c.id = old.id THEN [c EXCEPT !.isDeleted = TRUE] ELSE c :
                            c \in categories}
    BY <1>1, <1>3, ReqTyped, Kinds DEF IInv, DeleteCategory
  <2>2. CASE "services" \in old.stale
    BY <1>1, <2>2 DEF ServicesUnharmed, Fresh
  <2>3. CASE "services" \notin old.stale
    <3>1. \A y \in Live(services) : y.category # old.id
      BY <2>1, <2>3 DEF Claim, ClaimServices
    <3>2. ASSUME NEW y \in Live(services), NEW d \in categories', d.id = y.category, d.isDeleted
          PROVE  \E c \in categories : c.id = y.category /\ c.isDeleted
      <4>1. PICK c \in categories :
              d = IF c.id = old.id THEN [c EXCEPT !.isDeleted = TRUE] ELSE c
        BY <2>1
      <4>2. c \in Category
        BY DEF IInv, TypeOK
      <4>3. CASE c.id = old.id
        <5>1. d.id = old.id
          BY <4>1, <4>2, <4>3 DEF Category
        <5> QED BY <3>1, <3>2, <5>1
      <4>4. CASE c.id # old.id
        BY <3>2, <4>1, <4>4
      <4> QED BY <4>3, <4>4
    <3> QED BY <2>1, <3>2, CategoriesHarmless
  <2> QED BY <2>2, <2>3
<1>4. CASE Approve(r) \/ Reject(r) \/ Throw(r) \/ Die(r)
  <2>1. services' = services /\ categories' = categories
    BY <1>4 DEF Approve, Reject, Throw, Die
  <2> QED BY <2>1, CategoriesHarmless
<1> QED BY <1>2, <1>3, <1>4, HowItEnds, SavedHarmless DEF IInv

LEMMA EndHarmlessToDecisions ==
    ASSUME IInv, Next, NEW r \in Slots, Ends(r)
    PROVE  DecisionsUnharmed(r)
<1>1. PICK old : old = req[r]
    OBVIOUS
<1>2. CASE Approve(r)
  <2>1. /\ old \in Approving /\ old.step = "write" /\ old.op = "Approve" /\ Claim(old)
        /\ categories' = categories
    BY <1>1, <1>2, ReqTyped, Kinds DEF IInv, Approve
  <2>2. ASSUME "proposals" \notin old.stale, NEW p \in proposals, p.status # "PENDING"
        PROVE  p \in proposals'
    <3>1. p.id # old.id
      BY <2>1, <2>2 DEF Claim, ClaimProposals
    <3> QED BY <1>1, <1>2, <3>1 DEF Approve
  <2>3. ASSUME "categories" \notin old.stale, NEW q \in proposals' \ proposals
        PROVE  \E c \in Live(categories) : c.id = q.category
    <3>1. q.category = old.category
      BY <1>1, <1>2, <2>3, ApproveMakes
    <3> QED BY <2>1, <2>3, <3>1 DEF Claim, ClaimProposals
  <2> QED BY <1>1, <2>2, <2>3 DEF DecisionsUnharmed, Fresh
<1>3. CASE Reject(r)
  <2>1. old \in Rejecting /\ old.op = "Reject" /\ Claim(old)
    BY <1>1, <1>3, ReqTyped, Kinds DEF IInv, Reject
  <2>2. ASSUME "proposals" \notin old.stale, NEW p \in proposals, p.status # "PENDING"
        PROVE  p \in proposals'
    <3>1. p.id # old.id
      BY <2>1, <2>2 DEF Claim, ClaimProposals
    <3> QED BY <1>1, <1>3, <3>1 DEF Reject
  <2>3. ASSUME NEW q \in proposals' \ proposals PROVE q.status # "APPROVED"
    BY <1>1, <1>3, <2>3, RejectMakes
  <2> QED BY <1>1, <2>2, <2>3 DEF DecisionsUnharmed, Fresh
<1>4. CASE Save(r) \/ WriteName(r) \/ DeleteCategory(r) \/ Throw(r) \/ Die(r)
  <2>1. proposals' = proposals
    BY <1>4 DEF Save, WriteName, DeleteCategory, Throw, Die
  <2> QED BY <2>1 DEF DecisionsUnharmed
<1> QED BY <1>2, <1>3, <1>4, HowItEnds DEF IInv

\* Saving the days that nobody else wrote meanwhile doubles no day, brings none back and
\* leaves a break outside the hours only where none was given.
THEOREM DaysAreSafeUnlessStale == Spec => AvailabilityUnlessStale
<1>1. IInv /\ [Next]_vars => [\A r \in Slots : Ends(r) => DaysUnharmed(r)]_vars
    BY EndHarmlessToDays
<1> QED BY <1>1, Invariance, PTL DEF Spec, AvailabilityUnlessStale

\* Unless another request wrote in between, no request leaves a service in a deleted
\* category, moves one unasked, overrules a decision, or approves what is not there.
THEOREM CatalogueIsSafeUnlessStale == Spec => CatalogueUnlessStale
<1>1. IInv /\ [Next]_vars =>
        [\A r \in Slots : Ends(r) => ServicesUnharmed(r) /\ DecisionsUnharmed(r)]_vars
    BY EndHarmlessToServices, EndHarmlessToDecisions
<1> QED BY <1>1, Invariance, PTL DEF Spec, CatalogueUnlessStale
=============================================================================
