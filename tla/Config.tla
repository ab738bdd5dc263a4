------------------------------- MODULE Config -------------------------------
(***************************************************************************)
(* Configuration rows and the two things that read them ahead of the       *)
(* write path: the in-process cache of dimension ids (postgres/dims.go)    *)
(* and the preset installer (presets/templates.go), which every replica    *)
(* runs at boot.                                                           *)
(*                                                                         *)
(* One currency, one classification, one journal type and one template     *)
(* stand for the four tables: a code is unique in its table, and a row is  *)
(* never deleted.  Actors: installers of possibly different releases,      *)
(* callers that create a currency inside their own transaction, posters    *)
(* that execute the template, and an operator.  Each SQL statement is a    *)
(* step of its own (READ COMMITTED), and so is each access to the cache.   *)
(***************************************************************************)
EXTENDS Naturals, Sequences

CONSTANTS
    Installers,   \* calls of InstallTemplatePresets
    Callers,      \* transactions that create the currency themselves
    Posters,      \* calls of ExecuteTemplate
    Preset,       \* installer -> [side, role, kind, label]
    Teams,        \* the sets of actors that run together
    Operated,     \* the rows the operator touches
    MaxId         \* ids the sequences hand out

VARIABLES
    db,           \* code -> its committed row, NoRow before one exists
    tmpl,         \* the template row
    lastId,       \* the id sequence: an id is spent even by a rollback
    hist,         \* the classification has committed entries
    cache,        \* the pool's cache and every transaction's view: code -> id
    act           \* actor -> where its call is

vars == <<db, tmpl, lastId, hist, cache, act>>

Actors == Installers \union Callers \union Posters
Codes == {"cur", "class", "jt"}
NoRow == [id |-> 0, active |-> FALSE, side |-> "", tag |-> "", label |-> ""]
NoTemplate == [active |-> FALSE, class |-> 0, jt |-> 0]
Unset == ""
Empty == [c \in Codes |-> 0]

\* tag is balance_role on a classification, holder_kind on a journal type.
Row(id, side, tag, label) ==
    [id |-> id, active |-> TRUE, side |-> side, tag |-> tag, label |-> label]

Start(a) == IF a \in Installers THEN "getClass"
            ELSE IF a \in Callers THEN "begin" ELSE "call"

\* A fresh database, or one installed before the tags and labels existed.
Init ==
    /\ \/ /\ db = [c \in Codes |-> NoRow]
          /\ tmpl = NoTemplate
       \/ /\ \E cur \in {NoRow, Row(1, Unset, Unset, Unset)} :
             db = [cur |-> cur,
                   class |-> Row(2, "debit", Unset, Unset),
                   jt |-> Row(3, Unset, Unset, Unset)]
          /\ tmpl = [active |-> TRUE, class |-> 2, jt |-> 3]
    /\ lastId = 3
    /\ hist = FALSE
    /\ cache = [w \in Callers \union {"shared"} |-> Empty]
    /\ \E team \in Teams :
         act = [a \in Actors |->
                  [pc |-> IF a \in team THEN Start(a) ELSE "off",
                   ids |-> Empty,      \* the ids its call names
                   row |-> NoRow,      \* the row it read last
                   todo |-> <<>>,      \* dimension lookups still to do
                   step |-> 0,         \* where the current lookup is
                   got |-> Empty,      \* the listing its refresh has so far
                   seen |-> {}]]       \* what was inactive when it was called

Goto(a, l) == act' = [act EXCEPT ![a].pc = l]
GotoWith(a, l, row, todo) ==
    act' = [act EXCEPT ![a].pc = l, ![a].row = row, ![a].todo = todo]
Read(t) == [NoRow EXCEPT !.active = t.active]
At(a, l) == act[a].pc = l /\ act[a].todo = <<>>

-----------------------------------------------------------------------------
(* The dimension cache *)

\* Fault: a transaction's store shares the pool's cache instead of a view.
DimCacheForTxShares(a) == "shared"

\* The cache a call's refresh writes: a tx-bound store has a view of its own.
DimCacheForTx(a) == IF a \in Callers THEN a ELSE "shared"

\* A view's miss falls through to the pool's cache.
DimRead(a, c) ==
    \/ cache[DimCacheForTx(a)][c] = act[a].ids[c]
    \/ cache["shared"][c] = act[a].ids[c]

\* What a listing of c's table shows this call's connection: committed rows,
\* and the row its own transaction has inserted.
ListDims(a, c) ==
    IF a \in Callers /\ c = "cur" /\ act[a].pc \in {"look", "end"}
    THEN act[a].ids[c] ELSE db[c].id

ListOrder == <<"cur", "class", "jt">>

Looking(a, n) == act[a].todo # <<>> /\ act[a].step = n
Found(a) == act' = [act EXCEPT ![a].todo = Tail(@), ![a].step = 0]
NotFound(a) == act' = [act EXCEPT ![a].pc = "notfound", ![a].todo = <<>>, ![a].step = 0]

\* dimLookup: read, and on a miss refresh once and read again.
DimLookup(a) ==
    /\ \/ /\ Looking(a, 0)
          /\ IF DimRead(a, Head(act[a].todo)) THEN Found(a)
             ELSE act' = [act EXCEPT ![a].step = 1]
       \/ /\ Looking(a, 5)
          /\ IF DimRead(a, Head(act[a].todo)) THEN Found(a) ELSE NotFound(a)
    /\ UNCHANGED <<db, tmpl, lastId, hist, cache>>

\* refresh: three listings, then one write of all the maps under the lock.
Refresh(a) ==
    \/ \E n \in 1..3 :
         /\ Looking(a, n)
         /\ act' = [act EXCEPT ![a].step = n + 1,
                               ![a].got[ListOrder[n]] = ListDims(a, ListOrder[n])]
         /\ UNCHANGED cache
    \/ /\ Looking(a, 4)
       /\ cache' = [cache EXCEPT ![DimCacheForTx(a)] = act[a].got]
       /\ act' = [act EXCEPT ![a].step = 5, ![a].got = Empty]

\* A listing that fails ends the call and leaves the cache as it was.
RefreshFails(a) ==
    /\ \E n \in 1..3 : Looking(a, n)
    /\ act' = [act EXCEPT ![a].pc = "failed", ![a].todo = <<>>,
                          ![a].step = 0, ![a].got = Empty]
    /\ UNCHANGED cache

-----------------------------------------------------------------------------
(* The stores *)

Insert(c, row) == /\ lastId < MaxId
                  /\ lastId' = lastId + 1
                  /\ db' = [db EXCEPT ![c] = row]

\* An insert under the unique code: the loser of a race gets the violation.
CreateRow(a, c, row, next) ==
    IF db[c] = NoRow
    THEN /\ Insert(c, row)
         /\ GotoWith(a, next, row, <<>>)
    ELSE /\ Goto(a, "failed")
         /\ UNCHANGED <<db, lastId>>

CreateClassification(a, p) ==
    CreateRow(a, "class", Row(lastId + 1, p.side, p.role, p.label), "labelClass")

CreateJournalType(a, p) ==
    CreateRow(a, "jt", Row(lastId + 1, Unset, p.kind, p.label), "labelJt")

\* SetBalanceRole under the table's guard: a role that is set stays, and a
\* classification with entries is not promoted to spendable.
SetBalanceRole(a, role) ==
    IF \/ db["class"].tag \notin {role, Unset}
       \/ db["class"].tag = Unset /\ role = "available" /\ hist
    THEN Goto(a, "failed") /\ UNCHANGED db
    ELSE /\ db' = [db EXCEPT !["class"].tag = role]
         /\ Goto(a, "labelClass")

\* SetHolderKind: the guard on journal_types lets the column change freely.
SetHolderKind(a, kind) ==
    /\ db' = [db EXCEPT !["jt"].tag = kind]
    /\ Goto(a, "getTemplate")

SetDisplayLabelIfEmpty(c, label) ==
    db' = [db EXCEPT ![c].label = IF @ = Unset THEN label ELSE @]

\* The operator deactivates a row; the flag is a soft delete.
DeactivateRow(c) ==
    /\ c \in Operated
    /\ db[c].active
    /\ db' = [db EXCEPT ![c].active = FALSE]
    /\ UNCHANGED tmpl

DeactivateClassification == DeactivateRow("class")
DeactivateJournalType == DeactivateRow("jt")
DeactivateCurrency == DeactivateRow("cur")

DeactivateTemplate ==
    /\ "template" \in Operated
    /\ tmpl.active
    /\ tmpl' = [tmpl EXCEPT !.active = FALSE]
    /\ UNCHANGED db

Deactivate ==
    /\ \/ DeactivateClassification
       \/ DeactivateJournalType
       \/ DeactivateCurrency
       \/ DeactivateTemplate
    /\ UNCHANGED <<lastId, hist, cache, act>>

\* The operator words a label of their own.
Override ==
    /\ \E c \in {"class", "jt"} \intersect Operated :
         /\ db[c].id # 0 /\ db[c].label # "operator"
         /\ db' = [db EXCEPT ![c].label = "operator"]
    /\ UNCHANGED <<tmpl, lastId, hist, cache, act>>

-----------------------------------------------------------------------------
(* The installer *)

\* ensureClassificationPreset: what the row it read makes it do next.
EnsureClassification(i) ==
    LET p == Preset[i] IN
    \/ /\ At(i, "getClass")
       /\ LET r == db["class"] IN
            \/ /\ r = NoRow
               /\ Goto(i, "addClass")
            \/ /\ r # NoRow
               /\ GotoWith(i, CASE r.side # p.side \/ ~r.active -> "failed"
                                [] r.tag # p.role -> IF r.tag # Unset THEN "failed" ELSE "roleClass"
                                [] OTHER -> "labelClass", r, <<>>)
       /\ UNCHANGED <<db, lastId>>
    \/ /\ At(i, "addClass")
       /\ CreateClassification(i, p)
    \/ /\ At(i, "roleClass")
       /\ SetBalanceRole(i, p.role)
       /\ UNCHANGED lastId
    \/ /\ At(i, "labelClass")
       /\ IF p.label # Unset /\ act[i].row.label = Unset
          THEN SetDisplayLabelIfEmpty("class", p.label) ELSE UNCHANGED db
       /\ act' = [act EXCEPT ![i].pc = "getJt", ![i].ids["class"] = act[i].row.id]
       /\ UNCHANGED lastId

\* ensureJournalTypePreset
EnsureJournalType(i) ==
    LET p == Preset[i] IN
    \/ /\ At(i, "getJt")
       /\ LET r == db["jt"] IN
            \/ r = NoRow /\ Goto(i, "addJt")
            \/ r # NoRow /\ GotoWith(i, IF r.active THEN "labelJt" ELSE "failed", r, <<>>)
       /\ UNCHANGED <<db, lastId>>
    \/ /\ At(i, "addJt")
       /\ CreateJournalType(i, p)
    \/ /\ At(i, "labelJt")
       /\ IF p.label # Unset /\ act[i].row.label = Unset
          THEN SetDisplayLabelIfEmpty("jt", p.label) ELSE UNCHANGED db
       /\ act' = [act EXCEPT ![i].ids["jt"] = act[i].row.id,
                             ![i].pc = CASE act[i].row.tag = p.kind -> "getTemplate"
                                         [] act[i].row.tag = Unset -> "kindJt"
                                         [] OTHER -> "failed"]
       /\ UNCHANGED lastId
    \/ /\ At(i, "kindJt")
       /\ SetHolderKind(i, p.kind)
       /\ UNCHANGED lastId

\* templateFromRow resolves the line's classification, then the journal type.
TemplateFromRow == <<"class", "jt">>

\* GetTemplate: an existing template is to be compared, a missing one created.
GetTemplate(i) ==
    /\ At(i, "getTemplate")
    /\ IF tmpl = NoTemplate THEN GotoWith(i, "insertTemplate", NoRow, <<"jt">>)
       ELSE GotoWith(i, "matchTemplate", Read(tmpl), TemplateFromRow)
    /\ UNCHANGED tmpl

\* buildTemplateInput names the rows the two ensure steps found or made.
BuildTemplateInput(i) ==
    [active |-> TRUE, class |-> act[i].ids["class"], jt |-> act[i].ids["jt"]]

ValidateExistingTemplatePreset(i) ==
    /\ At(i, "matchTemplate")
    /\ Goto(i, IF act[i].row.active /\ [tmpl EXCEPT !.active = TRUE] = BuildTemplateInput(i)
               THEN "ok" ELSE "failed")
    /\ UNCHANGED tmpl

\* The insert of a template waits for another's uncommitted one.
Inserting == {i \in Installers : act[i].pc = "commitTemplate"}

\* CreateTemplate's transaction: the row, its line, the row read back, commit.
InsertTemplate(i) ==
    /\ At(i, "insertTemplate")
    /\ Inserting = {}
    /\ IF tmpl = NoTemplate
       THEN GotoWith(i, "commitTemplate", NoRow, <<"class">> \o TemplateFromRow)
       ELSE Goto(i, "failed")
    /\ UNCHANGED tmpl

CreateTemplate(i) ==
    /\ At(i, "commitTemplate")
    /\ tmpl' = BuildTemplateInput(i)
    /\ Goto(i, "ok")

InstallTemplate(i) ==
    /\ \/ GetTemplate(i)
       \/ ValidateExistingTemplatePreset(i)
       \/ InsertTemplate(i)
       \/ CreateTemplate(i)
    /\ UNCHANGED <<db, lastId, hist, cache>>

\* InstallTemplatePresets
Install(i) ==
    \/ (EnsureClassification(i) \/ EnsureJournalType(i)) /\ UNCHANGED <<tmpl, hist, cache>>
    \/ InstallTemplate(i)

-----------------------------------------------------------------------------
(* A caller's own transaction, and a posting *)

Creating == {t \in Callers : act[t].pc \in {"look", "end"}}

\* CreateCurrency inside the caller's transaction, used before the commit.
CreateCurrency(t) ==
    /\ At(t, "begin")
    /\ Creating = {}
    /\ \/ /\ db["cur"] # NoRow
          /\ Goto(t, "failed")
          /\ UNCHANGED lastId
       \/ /\ db["cur"] = NoRow
          /\ lastId < MaxId
          /\ lastId' = lastId + 1
          /\ act' = [act EXCEPT ![t].pc = "look", ![t].ids["cur"] = lastId + 1,
                                ![t].todo = <<"cur">>]
    /\ UNCHANGED <<db, tmpl, hist, cache>>

\* The transaction ends and its view of the cache goes with it.
EndTx(t) ==
    /\ At(t, "look")
    /\ \/ /\ db' = [db EXCEPT !["cur"] = Row(act[t].ids["cur"], Unset, Unset, Unset)]
          /\ Goto(t, "ok")
       \/ /\ act' = [act EXCEPT ![t].pc = "begin", ![t].ids = Empty]
          /\ UNCHANGED db
    /\ cache' = [cache EXCEPT ![t] = Empty]
    /\ UNCHANGED <<tmpl, lastId, hist>>

\* InactiveDims: which of the named rows are deactivated.
InactiveDims(ids) == {c \in Codes : db[c].id = ids[c] /\ ~db[c].active}

\* renderTemplate reads the template and resolves the ids it names.
RenderTemplate(p) ==
    /\ At(p, "call")
    /\ tmpl # NoTemplate /\ db["cur"] # NoRow
    /\ act' = [act EXCEPT
                 ![p].ids = [cur |-> db["cur"].id, class |-> tmpl.class, jt |-> tmpl.jt],
                 ![p].seen = {c \in Codes : ~db[c].active} \union
                             (IF tmpl.active THEN {} ELSE {"template"}),
                 ![p].pc = "render",
                 ![p].row = Read(tmpl),
                 ![p].todo = TemplateFromRow]
    /\ UNCHANGED hist

\* Render refuses a deactivated template; the post resolves the uids again.
Render(p) ==
    /\ At(p, "render")
    /\ IF act[p].row.active THEN GotoWith(p, "check", NoRow, <<"jt", "cur", "class">>)
       ELSE Goto(p, "refused")
    /\ UNCHANGED hist

AssertDimsActive(p) ==
    /\ At(p, "check")
    /\ Goto(p, IF InactiveDims(act[p].ids) = {} THEN "write" ELSE "refused")
    /\ UNCHANGED hist

WriteJournal(p) ==
    /\ At(p, "write")
    /\ hist' = TRUE
    /\ Goto(p, "posted")

ExecuteTemplate(p) ==
    /\ \/ RenderTemplate(p)
       \/ Render(p)
       \/ AssertDimsActive(p)
       \/ WriteJournal(p)
    /\ UNCHANGED <<db, tmpl, lastId, cache>>

Next ==
    \/ \E a \in Actors : \/ DimLookup(a)
                         \/ (Refresh(a) \/ RefreshFails(a)) /\ UNCHANGED <<db, tmpl, lastId, hist>>
    \/ \E i \in Installers : Install(i)
    \/ \E t \in Callers : CreateCurrency(t) \/ EndTx(t)
    \/ \E p \in Posters : ExecuteTemplate(p)
    \/ Deactivate
    \/ Override

Spec == Init /\ [][Next]_vars

-----------------------------------------------------------------------------
(* Properties *)

\* The pool's cache never holds an id that is not a committed row's: a row a
\* transaction created and may roll back stays in that transaction's view,
\* whatever the order of refreshes, commits and rollbacks (dimCacheForTx).
SharedCommitted == \A c \in Codes : cache["shared"][c] \in {0, db[c].id}

\* An install that returned success keeps the meaning it installed: the
\* classification has the normal side and the balance role of its preset from
\* then on, even when installers of another release run alongside and find
\* the role still empty (ensureClassificationPreset reads, then upgrades).
InstalledRoleHolds ==
    \A i \in Installers : act[i].pc = "ok" =>
        db["class"].side = Preset[i].side /\ db["class"].tag = Preset[i].role

\* A posting called after a dimension or the template was deactivated is
\* refused, however warm the caches are (assertDimsActive, Render).
DeactivatedRefused == \A p \in Posters : act[p].pc = "posted" => act[p].seen = {}

\* What is cached is committed, an installed side and role stay (a holder_kind may change),
\* what was deactivated is refused.
ConfigSound == SharedCommitted /\ InstalledRoleHolds /\ DeactivatedRefused
=============================================================================
