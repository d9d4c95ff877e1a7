------------------------------- MODULE Catalogue -------------------------------
(***************************************************************************)
(* What one professional offers - days of availability and services - and  *)
(* the shared catalogue of categories its services belong to, with the     *)
(* proposals of new categories.                                            *)
(*                                                                         *)
(* A handler loads the professional's aggregate, changes it in memory and  *)
(* saves all of it in one transaction: the days, and the services, each    *)
(* connected again to its category by the category's name.  The handlers   *)
(* of the catalogue read some rows and write one.  Any other request may   *)
(* run between a read and the write that follows it.                       *)
(***************************************************************************)
EXTENDS Availability, FiniteSets

CONSTANTS
    Slots,          \* requests the API can have in flight together
    Names,          \* names of categories: two that differ in case are one name
    Seeded,         \* the names of the categories that the migration inserted
    MaxListed,      \* bound on the services a bulk update lists
    MaxRequests     \* bound on the requests of a behaviour

ASSUME CatalogueAssumption ==
    Seeded \subseteq Names /\ MaxListed \in Nat /\ MaxRequests \in Nat

VARIABLES
    days,           \* the rows of availability
    services,       \* the services: a service names its category by id
    categories,     \* the categories, deleted ones too
    proposals,      \* the requests for a new category
    req,            \* the requests in flight
    begun           \* how many requests began so far

vars == <<days, services, categories, proposals, req, begun>>

-----------------------------------------------------------------------------

Table == {"days", "services", "categories", "proposals"}

\* An id is the number of the request that inserted the row; that of a category, the
\* number and the first name.
CategoryId == Nat \X Names
None == <<>>
Service == [id : Nat, category : CategoryId, isDeleted : BOOLEAN]
Category == [id : CategoryId, name : Names, isDeleted : BOOLEAN]
Proposal == [id : Nat, status : {"PENDING", "REJECTED"}, category : CategoryId \cup {None}]
       \cup [id : Nat, status : {"APPROVED"}, category : CategoryId]

\* A service in memory names its category.  The field stale is history: the tables that
\* others wrote since the request's first read.
Loaded == [id : Nat, category : Names, isDeleted : BOOLEAN]
Idle == [op |-> "Idle", stale |-> {}]
Looking == [op : {"Look"}, days : SUBSET Row, services : SUBSET Loaded,
            placed : SUBSET (Nat \X Names), stale : SUBSET Table]
Saving == [op : {"Save"}, days : SUBSET Row, services : SUBSET Loaded,
           moved : SUBSET Nat, stale : SUBSET Table]
Naming == [op : {"Create", "Rename"}, id : CategoryId, name : Names,
           stale : SUBSET Table]
Deleting == [op : {"Delete"}, id : CategoryId, step : {"count", "write"},
             stale : SUBSET Table]
Approving == [op : {"Approve"}, id : Nat, name : Names, category : CategoryId,
              step : {"find", "create", "write"}, stale : SUBSET Table]
Rejecting == [op : {"Reject"}, id : Nat, stale : SUBSET Table]

TypeOK ==
    /\ days \subseteq Row
    /\ services \subseteq Service
    /\ categories \subseteq Category
    /\ proposals \subseteq Proposal
    /\ req \in [Slots -> Looking \cup Saving \cup Naming \cup Deleting \cup Approving
                          \cup Rejecting \cup {Idle}]
    /\ begun \in 0..MaxRequests

Init ==
    /\ days = {}
    /\ services = {}
    /\ categories = {[id |-> <<0, n>>, name |-> n, isDeleted |-> FALSE] : n \in Seeded}
    /\ proposals = {}
    /\ req = [r \in Slots |-> Idle]
    /\ begun = 0

-----------------------------------------------------------------------------

Free(r) == req[r] = Idle /\ begun < MaxRequests

Start(r, work) ==
    /\ Free(r)
    /\ begun' = begun + 1
    /\ req' = [req EXCEPT ![r] = work]
    /\ UNCHANGED <<days, services, categories, proposals>>

\* What the request writes, if anything, is left to the callers of the next two.
Continue(r, work) ==
    /\ req' = [req EXCEPT ![r] = work]
    /\ UNCHANGED begun

\* What the others read of the tables is old now.
Aged(r, work, tables) ==
    [q \in Slots |-> IF q = r THEN work
                     ELSE IF req[q] = Idle THEN Idle
                     ELSE [req[q] EXCEPT !.stale = @ \cup tables]]

Write(r, work, tables) == req' = Aged(r, work, tables) /\ UNCHANGED begun

NoRow(name) == \A c \in categories : c.name # name
Taken(name, id) == \E c \in categories : c.name = name /\ c.id # id
Offered(name) == {c \in Live(categories) : c.name = name}

-----------------------------------------------------------------------------
(***************************************************************************)
(* The handlers of the aggregate.                                          *)
(***************************************************************************)

\* findById: what is not deleted.
LoadedDays == Live(days)
LoadedServices ==
    {[id |-> x.id, isDeleted |-> FALSE,
      category |-> (CHOOSE c \in categories : c.id = x.category).name] : x \in Live(services)}

\* moved is history: the services that the request gave a category of its own choice.
ToSave(inDays, inServices, moved, stale) ==
    [op |-> "Save", days |-> inDays, services |-> inServices, moved |-> moved, stale |-> stale]

Load(r, newDays) ==
    Free(r) /\ \E mem \in newDays : Start(r, ToSave(mem, LoadedServices, {}, {}))

SetAvailability(r) ==
    \E d \in Days, h \in Hours, p \in Breaks \cup {NoBreak} :
        Load(r, Set(LoadedDays, begun + 1, d, h, p))

\* One day of a list is set, whichever and however.
OneUpserted(mem, nr) ==
    UNION {Upserted(mem, nr, d, h, p) : d \in Days, h \in Hours, p \in Breaks \cup {NoBreak}}

\* The bulk handler, with two days, and that of the week, for which all the offers are one.
SetAvailabilityBulk(r) ==
    Load(r, UNION {OneUpserted(mem, begun + 1) : mem \in OneUpserted(LoadedDays, begun + 1)})

UpdateAvailability(r) == \E d \in Days : Load(r, Updated(LoadedDays, d))
RemoveAvailability(r) == \E d \in Days : Load(r, Removed(LoadedDays, d))

SetAvailabilityStatus(r) ==
    \E d \in Days, s \in Statuses : Load(r, WithStatus(LoadedDays, d, s))

\* DeleteServiceHandler.
RemoveService(r) ==
    \E x \in LoadedServices :
        Start(r, ToSave(LoadedDays,
                        (LoadedServices \ {x}) \cup {[x EXCEPT !.isDeleted = TRUE]}, {}, {}))

\* The profile, the gallery, the fees, a service that is switched on or off.
Edit(r) == Load(r, {LoadedDays})

ToPlace(inServices, placed) ==
    [op |-> "Look", days |-> LoadedDays, services |-> inServices, placed |-> placed,
     stale |-> {}]

\* AddServiceHandler and UpdateServiceHandler read the aggregate, then the category.
ReadToPlace(r) ==
    \E id \in {begun + 1} \cup {x.id : x \in LoadedServices}, name \in Names :
        Start(r, ToPlace(LoadedServices, {<<id, name>>}))

\* UpsertServicesBulkHandler: what the list does not name is removed.  A service that
\* was removed is inserted again under its id.
ReadToPlaceAll(r) ==
    /\ Free(r)
    /\ \E ids \in SUBSET ({begun + 1} \cup {x.id : x \in services}) :
         /\ Cardinality(ids) <= MaxListed
         /\ \E name \in [ids -> Names] :
              Start(r, ToPlace({[x EXCEPT !.isDeleted = x.id \notin ids] : x \in LoadedServices},
                               {<<id, name[id]>> : id \in ids}))

PlacedIds(r) == {p[1] : p \in req[r].placed}
PlacedNames(r) == {p[2] : p \in req[r].placed}

\* The services in memory once those of the request have their categories.
WithPlaced(r) ==
    {x \in req[r].services : x.id \notin PlacedIds(r)}
      \cup {[id |-> p[1], category |-> p[2], isDeleted |-> FALSE] : p \in req[r].placed}

\* Defective variant: a deleted category will do.
PlaceAnywhere(r) ==
    /\ req[r].op = "Look"
    /\ \A name \in PlacedNames(r) : ~NoRow(name)
    /\ Continue(r, ToSave(req[r].days, WithPlaced(r), PlacedIds(r), req[r].stale))
    /\ UNCHANGED <<days, services, categories, proposals>>

PlaceService(r) ==
    /\ req[r].op = "Look"
    /\ \A name \in PlacedNames(r) : Offered(name) # {}
    /\ Continue(r, ToSave(req[r].days, WithPlaced(r), PlacedIds(r), req[r].stale))
    /\ UNCHANGED <<days, services, categories, proposals>>

\* The transaction: the category of a name is connected whether it is deleted or not.
\* A name that is gone fails all of it.
Save(r) ==
    /\ req[r].op = "Save"
    /\ \A x \in req[r].services : ~NoRow(x.category)
    /\ days' = Saved(days, req[r].days)
    /\ services' = {y \in services : \A x \in req[r].services : x.id # y.id}
                     \cup {[x EXCEPT !.category = (CHOOSE c \in categories :
                                                     c.name = x.category).id] :
                             x \in req[r].services}
    /\ Write(r, Idle, {"days", "services"})
    /\ UNCHANGED <<categories, proposals>>

-----------------------------------------------------------------------------
(***************************************************************************)
(* The handlers of the catalogue.  A name is unique among all the rows;    *)
(* the handlers look for it among those not deleted.                       *)
(***************************************************************************)

ReadToCreate(r, name) ==
    /\ Offered(name) = {}
    /\ Start(r, [op |-> "Create", id |-> <<begun + 1, name>>, name |-> name, stale |-> {}])

\* An update that brings no name, or the one there is, writes it back as it was read.
ReadToRename(r, c, name) ==
    /\ Offered(name) \subseteq {c}
    /\ Start(r, [op |-> "Rename", id |-> c.id, name |-> name, stale |-> {}])

\* The insertion, or the update.
WriteName(r) ==
    /\ req[r].op \in {"Create", "Rename"}
    /\ ~Taken(req[r].name, req[r].id)
    /\ categories' =
         IF req[r].op = "Create"
         THEN categories \cup {[id |-> req[r].id, name |-> req[r].name, isDeleted |-> FALSE]}
         ELSE {IF c.id = req[r].id THEN [c EXCEPT !.name = req[r].name] ELSE c :
                 c \in categories}
    /\ Write(r, Idle, {"categories"})
    /\ UNCHANGED <<days, services, proposals>>

ReadToDelete(r, c) ==
    Start(r, [op |-> "Delete", id |-> c.id, step |-> "count", stale |-> {}])

\* Defective variant: whatever belongs to it.
CountNothing(r) ==
    /\ req[r].op = "Delete"
    /\ req[r].step = "count"
    /\ Continue(r, [req[r] EXCEPT !.step = "write"])
    /\ UNCHANGED <<days, services, categories, proposals>>

CountServices(r) ==
    /\ req[r].op = "Delete"
    /\ req[r].step = "count"
    /\ \A x \in Live(services) : x.category # req[r].id
    /\ Continue(r, [req[r] EXCEPT !.step = "write"])
    /\ UNCHANGED <<days, services, categories, proposals>>

DeleteCategory(r) ==
    /\ req[r].op = "Delete"
    /\ req[r].step = "write"
    /\ categories' = {IF c.id = req[r].id THEN [c EXCEPT !.isDeleted = TRUE] ELSE c :
                        c \in categories}
    /\ Write(r, Idle, {"categories"})
    /\ UNCHANGED <<days, services, proposals>>

-----------------------------------------------------------------------------

\* CreateServiceCategoryRequestHandler: one insertion, after a look at the professional.
Propose(r) ==
    /\ Free(r)
    /\ begun' = begun + 1
    /\ proposals' = proposals \cup {[id |-> begun + 1, status |-> "PENDING", category |-> None]}
    /\ req' = Aged(r, Idle, {"proposals"})
    /\ UNCHANGED <<days, services, categories>>

ReadToApprove(r, p, name) ==
    /\ p.status = "PENDING"
    /\ Start(r, [op |-> "Approve", id |-> p.id, name |-> name,
                 category |-> <<begun + 1, name>>, step |-> "find", stale |-> {}])

\* The category there is, or the one that will be inserted.
FindCategory(r) ==
    /\ req[r].op = "Approve"
    /\ req[r].step = "find"
    /\ IF Offered(req[r].name) = {}
       THEN Continue(r, [req[r] EXCEPT !.step = "create"])
       ELSE \E c \in Offered(req[r].name) :
              Continue(r, [req[r] EXCEPT !.step = "write", !.category = c.id])
    /\ UNCHANGED <<days, services, categories, proposals>>

CreateApproved(r) ==
    /\ req[r].op = "Approve"
    /\ req[r].step = "create"
    /\ NoRow(req[r].name)
    /\ categories' = categories \cup {[id |-> req[r].category, name |-> req[r].name,
                                       isDeleted |-> FALSE]}
    /\ Write(r, [req[r] EXCEPT !.step = "write"], {"categories"})
    /\ UNCHANGED <<days, services, proposals>>

\* Defective variant: the request does not say what was approved.
ApproveOnly(r) ==
    /\ req[r].op = "Approve"
    /\ req[r].step = "write"
    /\ proposals' = {IF p.id = req[r].id THEN [p EXCEPT !.status = "APPROVED"] ELSE p :
                       p \in proposals}
    /\ Write(r, Idle, {"proposals"})
    /\ UNCHANGED <<days, services, categories>>

Approve(r) ==
    /\ req[r].op = "Approve"
    /\ req[r].step = "write"
    /\ proposals' = {IF p.id = req[r].id
                     THEN [p EXCEPT !.status = "APPROVED", !.category = req[r].category]
                     ELSE p : p \in proposals}
    /\ Write(r, Idle, {"proposals"})
    /\ UNCHANGED <<days, services, categories>>

\* Defective variant: a request that was reviewed may be rejected.
ReadAnyToReject(r, p) == Start(r, [op |-> "Reject", id |-> p.id, stale |-> {}])

ReadToReject(r, p) ==
    /\ p.status = "PENDING"
    /\ Start(r, [op |-> "Reject", id |-> p.id, stale |-> {}])

\* The category of an approval is left.
Reject(r) ==
    /\ req[r].op = "Reject"
    /\ proposals' = {IF p.id = req[r].id THEN [p EXCEPT !.status = "REJECTED"] ELSE p :
                       p \in proposals}
    /\ Write(r, Idle, {"proposals"})
    /\ UNCHANGED <<days, services, categories>>

-----------------------------------------------------------------------------

\* What a request finds makes it throw.
Refused(r) ==
    CASE req[r].op = "Look" -> \E name \in PlacedNames(r) : Offered(name) = {}
      [] req[r].op = "Save" -> \E x \in req[r].services : NoRow(x.category)
      [] req[r].op \in {"Create", "Rename"} -> Taken(req[r].name, req[r].id)
      [] req[r].op = "Delete" -> /\ req[r].step = "count"
                                 /\ \E x \in Live(services) : x.category = req[r].id
      [] req[r].op = "Approve" -> req[r].step = "create" /\ ~NoRow(req[r].name)
      [] OTHER -> FALSE

Throw(r) ==
    /\ Refused(r)
    /\ Continue(r, Idle)
    /\ UNCHANGED <<days, services, categories, proposals>>

\* The process stops: what was written stays.
Die(r) ==
    /\ req[r] # Idle
    /\ Continue(r, Idle)
    /\ UNCHANGED <<days, services, categories, proposals>>

Rest == begun = MaxRequests /\ (\A r \in Slots : req[r] = Idle) /\ UNCHANGED vars

AggregateStep(r) ==
    \/ SetAvailability(r) \/ SetAvailabilityBulk(r) \/ UpdateAvailability(r)
    \/ RemoveAvailability(r) \/ SetAvailabilityStatus(r)
    \/ RemoveService(r) \/ Edit(r) \/ ReadToPlace(r) \/ ReadToPlaceAll(r)
    \/ PlaceService(r) \/ Save(r)

CategoryStep(r) ==
    \/ \E name \in Names : ReadToCreate(r, name)
    \/ \E c \in Live(categories), name \in Names : ReadToRename(r, c, name)
    \/ WriteName(r)
    \/ \E c \in Live(categories) : ReadToDelete(r, c)
    \/ CountServices(r) \/ DeleteCategory(r)

ProposalStep(r) ==
    \/ Propose(r)
    \/ \E p \in proposals, name \in Names : ReadToApprove(r, p, name)
    \/ FindCategory(r) \/ CreateApproved(r) \/ Approve(r)
    \/ \E p \in proposals : ReadToReject(r, p)
    \/ Reject(r)

Next ==
    \/ \E r \in Slots : \/ AggregateStep(r) \/ CategoryStep(r) \/ ProposalStep(r)
                        \/ Throw(r) \/ Die(r)
    \/ Rest

Spec == Init /\ [][Next]_vars

-----------------------------------------------------------------------------
(***************************************************************************)
(* Properties.  A request wrote when it ended, and knew then what it had   *)
(* read; fresh says that it had read it from tables nobody wrote since.    *)
(***************************************************************************)

Ends(r) == req[r] # Idle /\ req'[r] = Idle
Fresh(r, tables) == req[r].stale \cap tables = {}

Twice(table) == {x.id : x \in {y \in Live(table) :
                                 \E z \in Live(table) : z.id # y.id /\ z.day = y.day}}

DaysUnharmed(r) ==
    Fresh(r, {"days"}) =>
        /\ Twice(days') \subseteq Twice(days)
        /\ \A x \in days' : x.isDeleted \/ \A y \in days : y.id = x.id => ~y.isDeleted
        /\ \A x \in days' : \/ Fits(x)
                            \/ \E y \in days : y.id = x.id /\ ~Fits(y)
                            \/ \E y \in req[r].days : y.id = x.id /\ y.pause = NoBreak

\* A save of days that nobody wrote since they were loaded gives no day a second row,
\* brings no removed day back, and puts a break outside the working hours only by
\* leaving the break out, which keeps the one there was.
AvailabilityUnlessStale == [][\A r \in Slots : Ends(r) => DaysUnharmed(r)]_vars

Orphans(some, all) ==
    {x.id : x \in {y \in Live(some) : \E c \in all : c.id = y.category /\ c.isDeleted}}

ServicesUnharmed(r) ==
    Fresh(r, {"services", "categories"}) =>
        /\ Orphans(services', categories') \subseteq Orphans(services, categories)
        /\ \A x \in services', y \in services :
             x.id = y.id /\ x.category # y.category => x.id \in req[r].moved

DecisionsUnharmed(r) ==
    /\ Fresh(r, {"proposals"}) =>
         \A p \in proposals : p.status # "PENDING" => p \in proposals'
    /\ Fresh(r, {"categories"}) =>
         \A p \in proposals' \ proposals :
           p.status = "APPROVED" => \E c \in Live(categories) : c.id = p.category

\* A request that nobody interfered with leaves no service in a deleted category, moves a
\* service to no category that was not asked for, and does not touch a decision on a
\* proposal; a category it approves is there.
CatalogueUnlessStale ==
    [][\A r \in Slots : Ends(r) => ServicesUnharmed(r) /\ DecisionsUnharmed(r)]_vars
=============================================================================
