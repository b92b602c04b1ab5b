------------------------------ MODULE ProjectDrafts ----------------------------
(***************************************************************************)
(* Drafts of procurement projects and decision units (ProjectService and   *)
(* DecisionUnitService of modules/projects), the ETag that guards their    *)
(* updates and the cursor walk over their list.  An update reads the item, *)
(* checks its state and the ETag, takes the time and writes its copy back, *)
(* so requests overlap; the list is sorted by the time of the last version.*)
(***************************************************************************)
EXTENDS Naturals, FiniteSets

CONSTANTS
    Projects,       \* ids of projects, numbers (ties in the order of the list)
    DraftUnits,     \* ids of decision units, numbers
    Editors,        \* clients
    Names,          \* names of items
    Notes,          \* a project's notes, a unit's lot code
    MaxDraftTime    \* bound on time

VARIABLES
    item,           \* the stored items
    seen,           \* what each client last read: item, name and ETag
    edit,           \* the request each client has under way
    walk,           \* a reader's walk through the pages of one list
    time            \* the clock

draftVars == <<item, seen, edit, walk, time>>

None == "none"
Items == Projects \cup DraftUnits
Nobody == [state |-> "ABSENT", name |-> None, notes |-> None, hash |-> <<>>, at |-> 0]
NoEdit == [kind |-> None, of |-> 0, copy |-> Nobody]
NoWalk == [open |-> FALSE, list |-> {}, cursor |-> <<0, 0>>, got |-> {}, owed |-> {}, more |-> TRUE]

Init ==
    /\ item = [i \in Items |-> Nobody]
    /\ seen = [c \in Editors |-> [of |-> 0, name |-> None, etag |-> <<>>]]
    /\ edit = [c \in Editors |-> NoEdit]
    /\ walk = NoWalk
    /\ time = 0

(* The canonical hash of the payload of a new version; the payload of a    *)
(* creation has more fields than that of an update, and an update hashes   *)
(* the notes as supplied, which may be none at all.                        *)
CreateHash(i, name, notes) == <<"create", name, notes>>

(* Mutant: the hash covers what the request supplies. *)
update_hash_supplied(i, copy, name, notes) ==
    IF i \in Projects THEN <<"update", name, notes>> ELSE <<"update", name>>

UpdateHash(i, copy, name, notes) ==
    LET kept == IF name = None THEN copy.name ELSE name
    IN  IF i \in Projects THEN <<"update", kept, notes>> ELSE <<"update", kept>>

create(i, name, notes) ==
    /\ item[i].state = "ABSENT"
    /\ item' = [item EXCEPT ![i] = [state |-> "DRAFT", name |-> name, notes |-> notes,
                                    hash |-> CreateHash(i, name, notes), at |-> time]]
    /\ UNCHANGED <<seen, edit, walk, time>>

get(c, i) ==
    /\ item[i].state # "ABSENT"
    /\ seen' = [seen EXCEPT ![c] = [of |-> i, name |-> item[i].name, etag |-> item[i].hash]]
    /\ UNCHANGED <<item, edit, walk, time>>

Updatable(c, i) == item[i].state = "DRAFT" /\ item[i].hash = seen[c].etag

(* update_draft up to the copy it will store: the copy's version carries   *)
(* the time of the check.                                                  *)
BeginUpdate(c, i, name, notes) ==
    /\ edit[c].kind = None
    /\ seen[c].of = i
    /\ Updatable(c, i)
    /\ edit' = [edit EXCEPT ![c] = [kind |-> "update", of |-> i, copy |->
         [item[i] EXCEPT !.name = IF name = None THEN @ ELSE name,
                         !.notes = IF notes = None THEN @ ELSE notes,
                         !.hash = UpdateHash(i, item[i], name, notes),
                         !.at = time]]]
    /\ UNCHANGED <<item, seen, walk, time>>

(* archive looks at no state and makes no new version; units have none.    *)
BeginArchive(c, i) ==
    /\ edit[c].kind = None
    /\ i \in Projects
    /\ item[i].state # "ABSENT"
    /\ edit' = [edit EXCEPT ![c] = [kind |-> "archive", of |-> i,
                                    copy |-> [item[i] EXCEPT !.state = "ARCHIVED"]]]
    /\ UNCHANGED <<item, seen, walk, time>>

(* upsert: the copy replaces whatever is stored.  An item that is written  *)
(* back with an older version than the stored one is no longer owed to the *)
(* reader, whose cursor may have passed it.                                *)
Store(c) ==
    /\ edit[c].kind # None
    /\ item' = [item EXCEPT ![edit[c].of] = edit[c].copy]
    /\ edit' = [edit EXCEPT ![c] = NoEdit]
    /\ walk' = [walk EXCEPT !.owed = IF edit[c].copy.at < item[edit[c].of].at
                                     THEN @ \ {edit[c].of} ELSE @]
    /\ UNCHANGED <<seen, time>>

-----------------------------------------------------------------------------
(* paginate: the first items after the cursor in the order of (time of the *)
(* version, id), one more than fit on the page to learn whether there is   *)
(* another page.  A page holds one item.                                   *)
Key(i) == <<item[i].at, i>>

Before(a, b) == a[1] < b[1] \/ (a[1] = b[1] /\ a[2] < b[2])

Rest == {i \in walk.list : item[i].state # "ABSENT" /\ Before(walk.cursor, Key(i))}

First(S) == CHOOSE i \in S : \A j \in S : j # i => Before(Key(i), Key(j))

NextCursor(i) == Key(i)

list(l) ==
    /\ ~walk.open
    /\ l \in {Projects, DraftUnits}
    /\ walk' = [NoWalk EXCEPT !.open = TRUE, !.list = l,
                              !.owed = {i \in l : item[i].state # "ABSENT"}]
    /\ UNCHANGED <<item, seen, edit, time>>

paginate ==
    /\ walk.open /\ walk.more
    /\ IF Rest = {} THEN walk' = [walk EXCEPT !.more = FALSE]
       ELSE walk' = [walk EXCEPT !.got = @ \cup {First(Rest)},
                                 !.cursor = NextCursor(First(Rest)),
                                 !.more = Rest \ {First(Rest)} # {}]
    /\ UNCHANGED <<item, seen, edit, time>>

Tick ==
    /\ time < MaxDraftTime
    /\ time' = time + 1
    /\ UNCHANGED <<item, seen, edit, walk>>

(* The requests about projects and about units. *)
ItemRequests(S) ==
    \/ \E i \in S, name \in Names, notes \in Notes : create(i, name, notes)
    \/ \E i \in S, c \in Editors : get(c, i) \/ BeginArchive(c, i)
    \/ \E i \in S, c \in Editors, name \in Names \cup {None}, notes \in Notes \cup {None} :
         BeginUpdate(c, i, name, notes)

ProjectRequests == ItemRequests(Projects)

UnitRequests == ItemRequests(DraftUnits)

Next ==
    \/ ProjectRequests
    \/ UnitRequests
    \/ \E c \in Editors : Store(c)
    \/ list(Projects) \/ list(DraftUnits)
    \/ paginate
    \/ Tick

Spec == Init /\ [][Next]_draftVars

-----------------------------------------------------------------------------
TypeOK ==
    /\ \A i \in Items : item[i].state \in {"ABSENT", "DRAFT", "ARCHIVED"} /\ item[i].at \in 0..time
    /\ \A c \in Editors : seen[c].of \in Items \cup {0} /\ edit[c].kind \in {None, "update", "archive"}
    /\ walk.got \subseteq walk.list
    /\ time \in 0..MaxDraftTime

(* A client whose ETag still matches knows the item's name: between its    *)
(* read and now nobody has renamed it, whatever mixture of creations and   *)
(* updates produced the stored version.  (The other fields are not in the  *)
(* hash of an update, so the same is not true of them.)                    *)
MatchingEtagKnowsName ==
    \A c \in Editors : \A i \in Items :
      seen[c].of = i /\ seen[c].etag = item[i].hash => seen[c].name = item[i].name

(* A finished walk has returned every item that existed when it started    *)
(* and was not written back with an older version meanwhile, although      *)
(* updates move items to the end of the list while the reader walks.       *)
DraftWalkMissesNothing == walk.open /\ ~walk.more => walk.owed \subseteq walk.got

(* What drafts promise an editor with an ETag and a reader with a cursor   *)
(* (projects services.py).                                                 *)
DraftsInv ==
    /\ TypeOK
    /\ MatchingEtagKnowsName
    /\ DraftWalkMissesNothing

=============================================================================
