----------------------------- MODULE DocumentLinks -----------------------------
(***************************************************************************)
(* The links that bring documents into one decision unit                   *)
(* (modules/documents/application/services.py: inherit_to_unit and         *)
(* override_link through _create_link, resolve_conflict, detach_link).     *)
(* Two active links to documents of one kind are a conflict that a person  *)
(* must resolve.  Each handler lists links and writes copies of them back  *)
(* one upsert at a time; other threads run in between.  The audit sink is  *)
(* up throughout.                                                          *)
(***************************************************************************)
EXTENDS Naturals, FiniteSets

CONSTANTS
    Documents,  \* the documents that may be linked
    Kind,       \* the DocumentKind of each
    Requests,   \* handler calls; a link is named by the call that creates it
    None        \* no document, no link

VARIABLES
    link,     \* the stored DocumentLinks
    request,  \* what each request is doing
    raced     \* history: two calls overlapped

vars == <<link, request, raced>>

ConflictStates == {"NONE", "OPEN", "RESOLVED"}

Link == [document : Documents \cup {None}, conflict : ConflictStates,
         detached : BOOLEAN]

NoLink == [document |-> None, conflict |-> "NONE", detached |-> FALSE]

Points == {"new", "existing", "kind", "store", "reopen", "resolve", "others",
           "detach_others", "detach", "returned"}

(* A handler call: the document or the link it is about, the links it      *)
(* listed and has still to write back, and the copies it read.             *)
Request == [at : Points, document : Documents \cup {None},
            link : Requests \cup {None}, todo : SUBSET Requests,
            copy : [Requests -> Link]]

NoRequest == [at |-> "new", document |-> None, link |-> None, todo |-> {},
              copy |-> [r \in Requests |-> NoLink]]

TypeOK ==
    /\ link \in [Requests -> Link]
    /\ request \in [Requests -> Request]
    /\ raced \in BOOLEAN

Init ==
    /\ link = [r \in Requests |-> NoLink]
    /\ request = [r \in Requests |-> NoRequest]
    /\ raced = FALSE

-----------------------------------------------------------------------------
InFlight(r) == request[r].at \notin {"new", "returned"}

(* list_active_links: stored and not detached. *)
list_active_links ==
    {l \in Requests : link[l].document # None /\ ~link[l].detached}

SameKind(l, d) == Kind[link[l].document] = Kind[d]

Start(r, point, d, l) ==
    /\ request[r].at = "new"
    /\ request' = [request EXCEPT ![r] =
         [NoRequest EXCEPT !.at = point, !.document = d, !.link = l,
                           !.copy = link]]
    /\ raced' = (raced \/ \E q \in Requests : InFlight(q))
    /\ UNCHANGED link

(* A call that returns leaves no locals behind. *)
Continue(r, state) ==
    request' = [request EXCEPT ![r] =
        IF state.at = "returned" THEN [NoRequest EXCEPT !.at = "returned"]
                                 ELSE state]

Goto(r, point) == Continue(r, [request[r] EXCEPT !.at = point])

(* inherit_to_unit and override_link differ in relation and priority only. *)
StartCreate(r, d) == Start(r, "existing", d, None)

(* A document that is already linked keeps its link. *)
FindExisting(r) ==
    /\ request[r].at = "existing"
    /\ Goto(r, IF \E l \in list_active_links :
                    link[l].document = request[r].document
               THEN "returned" ELSE "kind")
    /\ UNCHANGED <<link, raced>>

(* The links are listed again; those to documents of this kind conflict. *)
ListSameKind(r) ==
    /\ request[r].at = "kind"
    /\ Continue(r, [request[r] EXCEPT
         !.at = "store", !.copy = link,
         !.todo = {l \in list_active_links : SameKind(l, request[r].document)}])
    /\ UNCHANGED <<link, raced>>

(* The new link is stored, OPEN when there were any ... *)
Store(r) ==
    /\ request[r].at = "store"
    /\ link' = [link EXCEPT ![r] =
         [document |-> request[r].document, detached |-> FALSE,
          conflict |-> IF request[r].todo = {} THEN "NONE" ELSE "OPEN"]]
    /\ Goto(r, IF request[r].todo = {} THEN "returned" ELSE "reopen")
    /\ UNCHANGED raced

(* One upsert of the loops over listed links; the last one ends the call.  *)
WriteBack(r, l, written) ==
    /\ l \in request[r].todo
    /\ link' = [link EXCEPT ![l] = written]
    /\ Continue(r, [request[r] EXCEPT
         !.todo = @ \ {l},
         !.at = IF request[r].todo = {l} THEN "returned" ELSE @])
    /\ UNCHANGED raced

(* ... and each of them is written back as OPEN. *)
Reopen(r, l) ==
    /\ request[r].at = "reopen"
    /\ WriteBack(r, l, [request[r].copy[l] EXCEPT !.conflict = "OPEN"])

-----------------------------------------------------------------------------
(* resolve_conflict reads the chosen link; only an active OPEN one will do. *)
StartResolve(r, l) ==
    /\ l \in list_active_links
    /\ link[l].conflict = "OPEN"
    /\ Start(r, "resolve", None, l)

(* The chosen link is written back RESOLVED ... *)
Resolve(r) ==
    LET l == request[r].link IN
    /\ request[r].at = "resolve"
    /\ link' = [link EXCEPT ![l] =
                  [request[r].copy[l] EXCEPT !.conflict = "RESOLVED"]]
    /\ Goto(r, "others")
    /\ UNCHANGED raced

(* ... the other active links of its kind are listed ... *)
ListOthers(r) ==
    LET chosen == request[r].copy[request[r].link].document
        others == {l \in list_active_links \ {request[r].link} :
                     SameKind(l, chosen)}
    IN
    /\ request[r].at = "others"
    /\ Continue(r, [request[r] EXCEPT
         !.at = IF others = {} THEN "returned" ELSE "detach_others",
         !.todo = others, !.copy = link])
    /\ UNCHANGED <<link, raced>>

(* Mutant: the losing links are resolved but stay active. *)
KeepOther(r, l) ==
    /\ request[r].at = "detach_others"
    /\ WriteBack(r, l, [request[r].copy[l] EXCEPT !.conflict = "RESOLVED"])

(* ... and each is detached. *)
DetachOther(r, l) ==
    /\ request[r].at = "detach_others"
    /\ WriteBack(r, l, [request[r].copy[l] EXCEPT !.conflict = "RESOLVED",
                                                  !.detached = TRUE])

(* detach_link reads an active link and writes it back detached. *)
StartDetach(r, l) ==
    /\ l \in list_active_links
    /\ Start(r, "detach", None, l)

Detach(r) ==
    LET l == request[r].link IN
    /\ request[r].at = "detach"
    /\ link' = [link EXCEPT ![l] = [request[r].copy[l] EXCEPT !.detached = TRUE]]
    /\ Goto(r, "returned")
    /\ UNCHANGED raced

-----------------------------------------------------------------------------
Handler(r) ==
    \/ FindExisting(r) \/ ListSameKind(r) \/ Store(r)
    \/ Resolve(r) \/ ListOthers(r)
    \/ Detach(r)
    \/ \E l \in Requests : Reopen(r, l) \/ DetachOther(r, l)

Next ==
    \/ \E r \in Requests, d \in Documents : StartCreate(r, d)
    \/ \E r, l \in Requests : StartResolve(r, l) \/ StartDetach(r, l)
    \/ \E r \in Requests : Handler(r)

Spec == Init /\ [][Next]_vars

-----------------------------------------------------------------------------
(* Properties.                                                             *)

Quiescent == \A r \in Requests : ~InFlight(r)

Conflicting(k, l) ==
    /\ k # l
    /\ {k, l} \subseteq list_active_links
    /\ Kind[link[k].document] = Kind[link[l].document]

(* When calls do not overlap, two active links of one kind are both OPEN   *)
(* between calls: no conflict is settled by the order of writes, and a     *)
(* resolved one is reopened by the next link (services.py:1284-1304).      *)
ConflictsAreOpen ==
    ~raced /\ Quiescent =>
        \A k, l \in Requests : Conflicting(k, l) =>
            link[k].conflict = "OPEN" /\ link[l].conflict = "OPEN"

(* When calls do not overlap, a document has at most one active link,      *)
(* however often it was detached and linked again (services.py:1266-1274). *)
OneLinkPerDocument ==
    ~raced =>
        \A k, l \in list_active_links :
            link[k].document = link[l].document => k = l

(* What linking promises: no silent conflict and no double link            *)
(* (services.py:1255-1304).                                                *)
LinksInv ==
    /\ TypeOK
    /\ ConflictsAreOpen
    /\ OneLinkPerDocument

=============================================================================
