----------------------------- MODULE PagesProofs -----------------------------
(***************************************************************************)
(* What holds of the pages of nodes, users and the workspace, of the       *)
(* overview, of the system log and of signing in, for any accounts, nodes, *)
(* profiles, entries, places and bounds: how far answers, polls, deletions *)
(* and saves that overlap can lead a page, or the tables, astray.          *)
(***************************************************************************)
EXTENDS UsersPage, NodesPage, WorkspacePage, DashboardPage, SignIn, LogsPage,
  QueryCacheProofs, SequenceTheorems, FiniteSetTheorems, WellFoundedInduction,
  NaturalsInduction, TLAPS

-----------------------------------------------------------------------------
(* The page of users. *)

Items == SUBSET [id : UserIds, row : Row]
Operators == {"mine", "other"}
Saves == [phase : {"idle", "sent", "done", "refused"}, id : UserIds \union {0},
          name : UserNames \union {""}, of : UserIds \union {0}]
Manages == [phase : {"idle", "sent", "held", "done", "refused"}, name : UserNames \union {""},
            action : Actions \union {""}, role : {0, Admin, Root}, id : UserIds \union {0},
            held : Seq(Row)]

\* What the values are.
AccountsTyped ==
  users \in [UserIds -> Seq(Row)] /\ lastId \in 0 .. UserCount
ListsTyped ==
  /\ where \in [page : Pages, word : UserNames \union {""}]
  /\ dated \in [lists : SUBSET ListKeys, details : SUBSET UserIds]
  /\ DOMAIN userLists = ListKeys /\ \A k \in ListKeys : IsQueryOf(userLists[k], Items)
DetailsTyped ==
  /\ DOMAIN userDetails = UserIds /\ \A i \in UserIds : IsQueryOf(userDetails[i], Row)
FormTyped ==
  /\ editor \in [open : BOOLEAN, id : UserIds \union {0}]
  /\ userForm \in [of : UserIds \union {0}, name : UserNames \union {""}, secret : BOOLEAN]
RequestsTyped ==
  /\ save \in Saves /\ (save.phase # "idle" => save.name \in UserNames)
  /\ manage \in [Operators -> Manages]

UsersTyped ==
  AccountsTyped /\ ListsTyped /\ DetailsTyped /\ FormTyped /\ RequestsTyped
  /\ userMoves \in 0 .. MaxMoves

\* The form of an editor that is open for an account is filled by it, or its detail is still
\* missing and asked for, or was refused; a save took its name from such a form.
Awaited(q) == q.data = <<>> /\ (Fetching(q) \/ q.failed)
EditorFills ==
  /\ ~editor.open => editor.id = 0
  /\ editor.open /\ editor.id = 0 => userForm.of = 0
  /\ editor.open /\ editor.id # 0 =>
       userForm.of = editor.id \/ Awaited(userDetails[editor.id])
  /\ \A i \in UserIds : userDetails[i].phase = "read" => userDetails[i].answer # <<>>
  /\ save.phase # "idle" => save.of = save.id

UsersInv == UsersTyped /\ EditorFills

\* The row of an account.
LEMMA AccountRow ==
  ASSUME AccountsTyped, NEW i \in Accounts
  PROVE  i \in UserIds /\ users[i] \in Seq(Row) /\ users[i][1] \in Row /\ 1 \in 1 .. Len(users[i])
<1>1. i \in UserIds /\ users[i] # <<>> /\ users[i] \in Seq(Row)
  BY DEF Accounts, AccountsTyped
<1>2. QED
  BY <1>1, Present1

LEMMA FirstPage == ASSUME UsersPageAssumption PROVE 0 \in Pages
<1>1. UserCount \in Nat \ {0}
  BY DEF UsersPageAssumption
<1>2. QED
  BY <1>1 DEF Pages

LEMMA PageBefore ==
  ASSUME UsersPageAssumption, NEW p \in Pages, p > 0 PROVE p - 1 \in Pages
<1>1. UserCount \in Nat \ {0}
  BY DEF UsersPageAssumption
<1>2. QED
  BY <1>1 DEF Pages

LEMMA KeyListed ==
  ASSUME UsersPageAssumption, NEW p \in Pages, NEW w \in UserNames \union {""}
  PROVE  Key(p, w) \in ListKeys
<1>1. 0 \in Pages
  BY FirstPage
<1>2. CASE w = ""
  BY <1>2 DEF ListKeys, Key
<1>3. CASE w # ""
  BY <1>1, <1>3 DEF ListKeys, Key
<1>4. QED
  BY <1>2, <1>3

LEMMA HereKey == ASSUME UsersPageAssumption, ListsTyped PROVE Here \in ListKeys
BY KeyListed DEF ListsTyped, Here

LEMMA ListedItems ==
  ASSUME AccountsTyped, NEW k \in ListKeys PROVE Listed(k) \in Items
<1>1. \A i \in Accounts : i \in UserIds /\ users[i][1] \in Row
  BY AccountRow
<1>2. ASSUME NEW x \in Listed(k) PROVE x \in [id : UserIds, row : Row]
  <2>1. \E i \in Accounts : x = [id |-> i, row |-> users[i][1]]
    BY DEF Listed
  <2>2. QED
    BY <1>1, <2>1
<1>3. QED
  BY <1>2 DEF Items

\* What a managing request makes of a row is a row.
LEMMA ManagedRow ==
  ASSUME NEW row \in Row, NEW a, NEW r PROVE Managed(row, a, r) \in Seq(Row)
<1>1. /\ [row EXCEPT !.on = FALSE] \in Row /\ [row EXCEPT !.on = TRUE] \in Row
      /\ [row EXCEPT !.role = Admin] \in Row /\ [row EXCEPT !.role = Common] \in Row
  BY DEF Row
<1>2. <<>> \in Seq(Row) /\ \A x \in Row : <<x>> \in Seq(Row)
  BY EmptySeq
<1>3. QED
  BY <1>1, <1>2 DEF Managed

LEMMA UsersBounds ==
  ASSUME UsersPageAssumption PROVE UserCount \in Nat \ {0} /\ MaxMoves \in Nat
BY DEF UsersPageAssumption

LEMMA InitUsers == ASSUME UsersPageAssumption PROVE UsersInit => UsersInv
<1> SUFFICES ASSUME UsersInit PROVE UsersInv
  OBVIOUS
<1>1. AccountsTyped
  <2>1. lastId = Len(FirstNames) /\ FirstNames \in Seq(UserNames) /\ lastId \in 1 .. UserCount
    BY DEF UsersInit, UsersPageAssumption
  <2>2. ASSUME NEW i \in UserIds PROVE users[i] \in Seq(Row)
    <3>1. CASE i > lastId
      <4>1. users[i] = <<>>
        BY <3>1 DEF UsersInit
      <4>2. QED
        BY <4>1, EmptySeq
    <3>2. CASE ~(i > lastId)
      <4> DEFINE r == [name |-> FirstNames[i],
                       role |-> IF i = 1 THEN MyRole ELSE Common, on |-> TRUE]
      <4>1. users[i] = <<r>>
        BY <3>2 DEF UsersInit
      <4>2. i \in 1 .. Len(FirstNames)
        BY <2>1, <3>2 DEF UserIds
      <4>3. FirstNames[i] \in UserNames
        BY <2>1, <4>2, ElementOfSeq
      <4>4. r \in Row
        BY <4>3 DEF Row, UsersPageAssumption
      <4> HIDE DEF r
      <4>5. QED
        BY <4>1, <4>4
    <3>3. QED
      BY <3>1, <3>2
  <2>3. users \in [UserIds -> Seq(Row)]
    <3>1. users = [i \in UserIds |-> users[i]]
      BY DEF UsersInit
    <3>2. QED
      BY <2>2, <3>1
  <2>4. QED
    BY <2>1, <2>2, <2>3 DEF AccountsTyped
<1>2. ListsTyped
  <2>1. where \in [page : Pages, word : UserNames \union {""}]
    BY FirstPage DEF UsersInit
  <2>2. dated \in [lists : SUBSET ListKeys, details : SUBSET UserIds]
    BY DEF UsersInit
  <2>3. DOMAIN userLists = ListKeys /\ \A k \in ListKeys : IsQueryOf(userLists[k], Items)
    BY QueryBegins DEF UsersInit
  <2>4. QED
    BY <2>1, <2>2, <2>3 DEF ListsTyped
<1>3. DetailsTyped
  BY QueryBegins DEF UsersInit, DetailsTyped
<1>4. FormTyped
  BY DEF UsersInit, FormTyped, Blank
<1>5. RequestsTyped
  <2>1. <<>> \in Seq(Row)
    BY EmptySeq
  <2>2. QED
    BY <2>1 DEF UsersInit, RequestsTyped, Saves, Manages, NoSave, NoManage, Operators, Actions
<1>6. EditorFills
  BY QueryBegins DEF UsersInit, EditorFills, NoSave
<1>7. userMoves \in 0 .. MaxMoves
  <2>1. userMoves = 0 /\ MaxMoves \in Nat
    BY UsersBounds DEF UsersInit
  <2>2. QED
    BY <2>1
<1>8. QED
  BY <1>1, <1>2, <1>3, <1>4, <1>5, <1>6, <1>7 DEF UsersInv, UsersTyped

\* Requests that create, change and delete accounts keep them rows.
LEMMA NextAccounts ==
  ASSUME UsersPageAssumption, AccountsTyped, RequestsTyped, [UsersNext]_usersVars
  PROVE  AccountsTyped'
<1>1. CASE UNCHANGED server
  BY <1>1 DEF AccountsTyped, server
<1>2. ASSUME CreateUserAsAdmin, ~UNCHANGED server PROVE AccountsTyped'
  <2> DEFINE r == [name |-> save.name, role |-> Common, on |-> TRUE]
  <2>1. /\ lastId < UserCount /\ lastId' = lastId + 1
        /\ users' = [users EXCEPT ![lastId + 1] = <<r>>] /\ save.phase = "sent"
    BY <1>2 DEF CreateUserAsAdmin
  <2>2. r \in Row
    BY <2>1 DEF RequestsTyped, Row
  <2> HIDE DEF r
  <2>3. <<r>> \in Seq(Row)
    BY <2>2
  <2>4. lastId' \in 0 .. UserCount
    <3>1. lastId \in 0 .. UserCount
      BY DEF AccountsTyped
    <3>2. QED
      BY <2>1, <3>1, UsersBounds
  <2>5. QED
    BY <2>1, <2>3, <2>4 DEF AccountsTyped
<1>3. ASSUME UpdateUserAsAdmin, ~UNCHANGED server PROVE AccountsTyped'
  <2> DEFINE i == save.id
             r == [users[i][1] EXCEPT !.name = save.name]
  <2>1. /\ users' = [users EXCEPT ![i][1].name = save.name] /\ lastId' = lastId
        /\ i \in Accounts /\ save.phase = "sent"
    BY <1>3 DEF UpdateUserAsAdmin, server
  <2>2. i \in UserIds /\ users[i] \in Seq(Row) /\ users[i][1] \in Row /\ 1 \in 1 .. Len(users[i])
    BY <2>1, AccountRow
  <2>3. r \in Row
    BY <2>1, <2>2 DEF RequestsTyped, Row
  <2>4. users' = [users EXCEPT ![i] = [users[i] EXCEPT ![1] = r]]
    BY <2>1
  <2> HIDE DEF r, i
  <2>5. [users[i] EXCEPT ![1] = r] \in Seq(Row)
    BY <2>2, <2>3, ExceptSeq
  <2>6. QED
    BY <2>1, <2>4, <2>5 DEF AccountsTyped
<1>4. ASSUME NEW w \in Operators, ManageWrite(w) PROVE AccountsTyped'
  <2>1. /\ lastId' = lastId
        /\ \/ users' = users \/ users' = [users EXCEPT ![manage[w].id] = <<>>]
           \/ users' = [users EXCEPT ![manage[w].id] = manage[w].held]
    BY <1>4 DEF ManageWrite, Written
  <2>2. manage[w].held \in Seq(Row) /\ <<>> \in Seq(Row)
    BY EmptySeq DEF RequestsTyped, Manages
  <2>3. QED
    BY <2>1, <2>2 DEF AccountsTyped
<1>5. QED
  BY <1>1, <1>2, <1>3, <1>4, Zenon
     DEF UsersNext, usersVars, server, Operators, handleSearchSubmit, handleResetSearch,
         PreviousUsers, NextUsers, Go, Refresh, UsersRead, handleCreate, handleEdit,
         handleResetForm, TypeForm, handleSubmit, UserRead, UserAnswer, SaveAnswer, handleManage,
         OtherOperator, AskManage, ManageAnswer, OtherEnds, ManageLookUp

\* The list goes on to another page or word.
LEMMA GoesOn ==
  ASSUME UsersPageAssumption, ListsTyped, NEW p \in Pages, NEW w \in UserNames \union {""}, Go(p, w)
  PROVE  ListsTyped'
<1> DEFINE k == Key(p, w)
<1>1. where' = [page |-> p, word |-> w] /\ dated' = dated
  BY DEF Go
<1>2. k \in ListKeys /\ IsQueryOf(userLists[k], Items)
  BY KeyListed DEF ListsTyped
<1>3. IsQueryOf(Fetch(userLists[k]), Items)
  BY <1>2, QueryFetched
<1>4. userLists' = userLists \/ userLists' = [userLists EXCEPT ![k] = Fetch(userLists[k])]
  BY DEF Go, ListAsked
<1> HIDE DEF k
<1>5. DOMAIN userLists' = ListKeys /\ \A j \in ListKeys : IsQueryOf(userLists'[j], Items)
  BY <1>2, <1>3, <1>4 DEF ListsTyped
<1>6. QED
  BY <1>1, <1>5 DEF ListsTyped

\* Invalidating lists, or lists and details, keeps them queries.
LEMMA ListsDropped ==
  ASSUME UsersPageAssumption, ListsTyped,
         userLists' = [userLists EXCEPT ![Here] = Invalidated(@)]
  PROVE  DOMAIN userLists' = ListKeys /\ \A j \in ListKeys : IsQueryOf(userLists'[j], Items)
<1>1. Here \in ListKeys /\ IsQueryOf(userLists[Here], Items)
  BY HereKey DEF ListsTyped
<1>2. IsQueryOf(Invalidated(userLists[Here]), Items)
  BY <1>1, QueryInvalidated
<1>3. QED
  BY <1>1, <1>2 DEF ListsTyped

LEMMA AllDropped ==
  ASSUME UsersPageAssumption, ListsTyped, DetailsTyped, where' = where, NEW e, AllInvalidated(e)
  PROVE  ListsTyped' /\ DetailsTyped'
<1>1. DOMAIN userLists' = ListKeys /\ \A j \in ListKeys : IsQueryOf(userLists'[j], Items)
  BY ListsDropped DEF AllInvalidated
<1>2. dated' \in [lists : SUBSET ListKeys, details : SUBSET UserIds]
  BY DEF AllInvalidated
<1>3. \A i \in UserIds : IsQueryOf(userDetails[i], Row) /\ IsQueryOf(Invalidated(userDetails[i]), Row)
  BY QueryInvalidated DEF DetailsTyped
<1>4. QED
  BY <1>1, <1>2, <1>3 DEF ListsTyped, DetailsTyped, AllInvalidated

\* The lists and details stay queries, whichever of them are asked for, answered or dropped.
LEMMA NextQueries ==
  ASSUME UsersPageAssumption, UsersTyped, [UsersNext]_usersVars
  PROVE  ListsTyped' /\ DetailsTyped'
<1>1. AccountsTyped /\ ListsTyped /\ DetailsTyped
  BY DEF UsersTyped
<1>2. CASE UNCHANGED <<where, cached>>
  BY <1>1, <1>2 DEF ListsTyped, DetailsTyped, cached
<1>3. ASSUME NEW p \in Pages, NEW w \in UserNames \union {""}, Go(p, w)
      PROVE  ListsTyped' /\ DetailsTyped'
  BY <1>1, <1>3, GoesOn DEF Go, DetailsTyped
<1>4. CASE Refresh
  <2>1. DOMAIN userLists' = ListKeys /\ \A j \in ListKeys : IsQueryOf(userLists'[j], Items)
    BY <1>1, <1>4, ListsDropped DEF Refresh, ListsInvalidated
  <2>2. dated' \in [lists : SUBSET ListKeys, details : SUBSET UserIds]
    BY <1>1, <1>4 DEF Refresh, ListsInvalidated, ListsTyped
  <2>3. QED
    BY <1>1, <1>4, <2>1, <2>2 DEF Refresh, ListsTyped, DetailsTyped
<1>5. ASSUME NEW k \in ListKeys, UsersRead(k) PROVE ListsTyped' /\ DetailsTyped'
  <2> DEFINE q == Answered(Read(userLists[k], Listed(k)))
  <2>1. Listed(k) \in Items /\ IsQueryOf(userLists[k], Items)
    BY <1>1, ListedItems DEF ListsTyped
  <2>2. IsQueryOf(q, Items)
    BY <2>1, QueryReads, QueryAnswered
  <2>3. userLists' = [userLists EXCEPT ![k] = q]
    BY <1>5 DEF UsersRead
  <2> HIDE DEF q
  <2>4. DOMAIN userLists' = ListKeys /\ \A j \in ListKeys : IsQueryOf(userLists'[j], Items)
    BY <1>1, <2>2, <2>3 DEF ListsTyped
  <2>5. dated' \in [lists : SUBSET ListKeys, details : SUBSET UserIds]
    BY <1>1, <1>5 DEF UsersRead, ListsTyped
  <2>6. QED
    BY <1>1, <1>5, <2>4, <2>5 DEF UsersRead, ListsTyped, DetailsTyped
<1>6. CASE handleEdit
  <2>1. PICK item \in userLists[Here].data[1] :
          userDetails' = userDetails
          \/ userDetails' = [userDetails EXCEPT ![item.id] = Fetch(userDetails[item.id])]
    BY <1>6 DEF handleEdit
  <2>2. ASSUME item.id \in UserIds PROVE IsQueryOf(Fetch(userDetails[item.id]), Row)
    BY <1>1, <2>2, QueryFetched DEF DetailsTyped
  <2>3. DetailsTyped'
    BY <1>1, <2>1, <2>2 DEF DetailsTyped
  <2>4. QED
    BY <1>1, <1>6, <2>3 DEF handleEdit, ListsTyped
<1>7. ASSUME NEW i \in UserIds, UserRead(i) PROVE ListsTyped' /\ DetailsTyped'
  <2> DEFINE q == IF i \in Accounts /\ MyRole > users[i][1].role
                  THEN Read(userDetails[i], users[i][1]) ELSE Failed(userDetails[i])
  <2>1. IsQueryOf(userDetails[i], Row)
    BY <1>1 DEF DetailsTyped
  <2>2. IsQueryOf(q, Row)
    BY <1>1, <2>1, AccountRow, QueryReads, QueryFailed
  <2>3. userDetails' = [userDetails EXCEPT ![i] = q]
    BY <1>7 DEF UserRead
  <2> HIDE DEF q
  <2>4. DetailsTyped'
    BY <1>1, <2>2, <2>3 DEF DetailsTyped
  <2>5. QED
    BY <1>1, <1>7, <2>4 DEF UserRead, ListsTyped
<1>8. ASSUME NEW i \in UserIds, UserAnswer(i) PROVE ListsTyped' /\ DetailsTyped'
  <2>1. IsQueryOf(Answered(userDetails[i]), Row)
    BY <1>1, QueryAnswered DEF DetailsTyped
  <2>2. DetailsTyped'
    BY <1>1, <1>8, <2>1 DEF DetailsTyped, UserAnswer
  <2>3. dated' \in [lists : SUBSET ListKeys, details : SUBSET UserIds]
    BY <1>1, <1>8 DEF UserAnswer, ListsTyped
  <2>4. QED
    BY <1>1, <1>8, <2>2, <2>3 DEF UserAnswer, ListsTyped
<1>9. CASE SaveAnswer
  BY <1>1, <1>2, <1>9, AllDropped DEF SaveAnswer
<1>10. CASE ManageAnswer
  BY <1>1, <1>2, <1>10, AllDropped DEF ManageAnswer
<1>11. CASE handleSearchSubmit \/ handleResetSearch
  BY <1>3, <1>11, FirstPage DEF handleSearchSubmit, handleResetSearch
<1>12. CASE PreviousUsers
  <2>1. where.page \in Pages /\ where.page > 0 /\ Go(where.page - 1, "")
    BY <1>1, <1>12 DEF PreviousUsers, ListsTyped
  <2>2. where.page - 1 \in Pages
    BY <2>1, PageBefore
  <2>3. QED
    BY <1>3, <2>1, <2>2
<1>13. CASE NextUsers
  BY <1>3, <1>13 DEF NextUsers
<1>14. QED
  BY <1>2, <1>4, <1>5, <1>6, <1>7, <1>8, <1>9, <1>10, <1>11, <1>12, <1>13, Zenon
     DEF UsersNext, usersVars, cached, handleCreate, handleResetForm, TypeForm, handleSubmit,
         CreateUserAsAdmin, UpdateUserAsAdmin, handleManage, OtherOperator, AskManage, OtherEnds,
         ManageLookUp, ManageWrite

\* What a list shows, and what a detail holds.
LEMMA ListItem ==
  ASSUME UsersPageAssumption, ListsTyped, userLists[Here].data # <<>>,
         NEW item \in userLists[Here].data[1]
  PROVE  item.id \in UserIds /\ item.row \in Row
<1>1. userLists[Here].data \in Seq(Items)
  BY HereKey, QueryFields DEF ListsTyped
<1>2. userLists[Here].data[1] \in Items
  BY <1>1, Present1
<1>3. QED
  BY <1>2 DEF Items

LEMMA DetailRow ==
  ASSUME DetailsTyped, NEW i \in UserIds
  PROVE  /\ userDetails[i].data # <<>> => userDetails[i].data[1] \in Row
         /\ userDetails[i].answer # <<>> => userDetails[i].answer[1] \in Row
<1>1. userDetails[i].data \in Seq(Row) /\ userDetails[i].answer \in Seq(Row)
  BY QueryFields DEF DetailsTyped
<1>2. QED
  BY <1>1, Present1

LEMMA FilledForm ==
  ASSUME NEW i \in UserIds, NEW row \in Row
  PROVE  /\ Filled(i, row) \in
              [of : UserIds \union {0}, name : UserNames \union {""}, secret : BOOLEAN]
         /\ Filled(i, row).of = i
BY DEF Filled, Row

LEMMA BlankForm ==
  /\ Blank \in [of : UserIds \union {0}, name : UserNames \union {""}, secret : BOOLEAN]
  /\ Blank.of = 0
BY DEF Blank

\* The editor is about an account or about none.
LEMMA NextForm ==
  ASSUME UsersPageAssumption, UsersInv, [UsersNext]_usersVars
  PROVE  FormTyped'
<1>1. FormTyped /\ ListsTyped /\ DetailsTyped /\ EditorFills
  BY DEF UsersInv, UsersTyped
<1>2. CASE UNCHANGED <<editor, userForm>>
  BY <1>1, <1>2 DEF FormTyped
<1>3. CASE handleCreate \/ handleResetForm
  <2>1. PICK b \in BOOLEAN : editor' = [open |-> b, id |-> 0] /\ userForm' = Blank
    BY <1>3 DEF handleCreate, handleResetForm
  <2>2. QED
    BY <2>1, BlankForm DEF FormTyped
<1>4. CASE handleEdit
  <2>1. PICK item \in userLists[Here].data[1] :
          /\ editor' = [open |-> TRUE, id |-> item.id]
          /\ userForm' = IF userDetails[item.id].data = <<>> THEN userForm
                         ELSE Filled(item.id, userDetails[item.id].data[1])
    BY <1>4 DEF handleEdit
  <2>2. item.id \in UserIds
    BY <1>1, <1>4, ListItem DEF handleEdit
  <2>3. userForm' \in [of : UserIds \union {0}, name : UserNames \union {""}, secret : BOOLEAN]
    BY <1>1, <2>1, <2>2, DetailRow, FilledForm DEF FormTyped
  <2>4. QED
    BY <2>1, <2>2, <2>3 DEF FormTyped
<1>5. CASE TypeForm
  <2>1. PICK n \in UserNames, b \in BOOLEAN : userForm' = [userForm EXCEPT !.name = n, !.secret = b]
    BY <1>5 DEF TypeForm
  <2>2. editor' = editor
    BY <1>5 DEF TypeForm
  <2>3. QED
    BY <1>1, <2>1, <2>2 DEF FormTyped
<1>6. ASSUME NEW i \in UserIds, UserAnswer(i) PROVE FormTyped'
  <2>1. userDetails[i].answer[1] \in Row
    BY <1>1, <1>6, DetailRow DEF UserAnswer, EditorFills
  <2>2. Filled(i, userDetails[i].answer[1]) \in
          [of : UserIds \union {0}, name : UserNames \union {""}, secret : BOOLEAN]
    BY <2>1, FilledForm
  <2>3. /\ editor' = editor
        /\ userForm' = userForm \/ userForm' = Filled(i, userDetails[i].answer[1])
    BY <1>6 DEF UserAnswer
  <2>4. QED
    BY <1>1, <2>2, <2>3 DEF FormTyped
<1>7. CASE SaveAnswer
  <2>1. CASE editor' = [open |-> FALSE, id |-> 0] /\ userForm' = Blank
    BY <2>1, BlankForm DEF FormTyped
  <2>2. CASE UNCHANGED <<editor, userForm>>
    BY <1>2, <2>2
  <2>3. QED
    BY <1>7, <2>1, <2>2 DEF SaveAnswer
<1>8. QED
  BY <1>2, <1>3, <1>4, <1>5, <1>6, <1>7, Zenon
     DEF UsersNext, usersVars, handleSearchSubmit, handleResetSearch, PreviousUsers, NextUsers,
         Go, Refresh, UsersRead, handleSubmit, UserRead, CreateUserAsAdmin, UpdateUserAsAdmin,
         handleManage, OtherOperator, AskManage, ManageAnswer, OtherEnds, ManageLookUp, ManageWrite

\* Requests are about names of accounts, and hold rows.
LEMMA NextRequests ==
  ASSUME UsersPageAssumption, UsersInv, [UsersNext]_usersVars
  PROVE  RequestsTyped'
<1>1. AccountsTyped /\ RequestsTyped /\ FormTyped /\ ListsTyped
  BY DEF UsersInv, UsersTyped
<1>2. CASE UNCHANGED <<save, manage>>
  BY <1>1, <1>2 DEF RequestsTyped
<1>3. CASE handleSubmit
  <2>1. /\ save' = [phase |-> "sent", id |-> editor.id, name |-> userForm.name, of |-> userForm.of]
        /\ userForm.name # "" /\ manage' = manage
    BY <1>3 DEF handleSubmit
  <2>2. editor.id \in UserIds \union {0} /\ userForm.name \in UserNames
        /\ userForm.of \in UserIds \union {0}
    BY <1>1, <2>1 DEF FormTyped
  <2>3. QED
    BY <1>1, <2>1, <2>2 DEF RequestsTyped, Saves
<1>4. CASE CreateUserAsAdmin \/ UpdateUserAsAdmin
  <2>1. /\ save.phase = "sent" /\ manage' = manage
        /\ \/ save' = [save EXCEPT !.phase = "refused"] \/ save' = [save EXCEPT !.phase = "done"]
    BY <1>4 DEF CreateUserAsAdmin, UpdateUserAsAdmin
  <2>2. QED
    BY <1>1, <2>1 DEF RequestsTyped, Saves
<1>5. CASE SaveAnswer
  BY <1>1, <1>5 DEF SaveAnswer, RequestsTyped, Saves, NoSave
<1>6. ASSUME NEW w \in Operators, NEW n \in UserNames, NEW a \in Actions, NEW r \in {Admin, Root},
             AskManage(w, n, a, r)
      PROVE  RequestsTyped'
  <2> DEFINE m == [NoManage EXCEPT !.phase = "sent", !.name = n, !.action = a, !.role = r]
  <2>1. <<>> \in Seq(Row)
    BY EmptySeq
  <2>2. m \in Manages
    BY <2>1 DEF NoManage, Manages
  <2>3. manage' = [manage EXCEPT ![w] = m] /\ save' = save
    BY <1>6 DEF AskManage
  <2> HIDE DEF m
  <2>4. QED
    BY <1>1, <2>2, <2>3 DEF RequestsTyped
<1>7. CASE handleManage
  <2>1. PICK item \in userLists[Here].data[1] :
          \E a \in Offered(item) : AskManage("mine", item.row.name, a, MyRole)
    BY <1>7 DEF handleManage
  <2>2. item.row \in Row
    BY <1>1, <1>7, ListItem DEF handleManage
  <2>3. /\ item.row.name \in UserNames /\ MyRole \in {Admin, Root}
        /\ Offered(item) \subseteq Actions
    BY <2>2 DEF Row, Offered, Actions, UsersPageAssumption
  <2>4. QED
    BY <1>6, <2>1, <2>3 DEF Operators
<1>8. CASE OtherOperator
  <2>1. PICK i \in Accounts, a \in Actions, r \in {Admin, Root} :
          AskManage("other", users[i][1].name, a, r)
    BY <1>8 DEF OtherOperator
  <2>2. users[i][1].name \in UserNames
    BY <1>1, <2>1, AccountRow DEF Row
  <2>3. QED
    BY <1>6, <2>1, <2>2 DEF Operators
<1>9. ASSUME NEW w \in Operators, ManageLookUp(w) PROVE RequestsTyped'
  <2>1. manage[w] \in Manages /\ save' = save
    BY <1>1, <1>9 DEF RequestsTyped, ManageLookUp
  <2>2. CASE manage' = [manage EXCEPT ![w].phase = "refused"]
    BY <1>1, <2>1, <2>2 DEF RequestsTyped, Manages
  <2>3. ASSUME NEW i \in Accounts, NEW h,
               h = Managed(users[i][1], manage[w].action, manage[w].role),
               manage' = [manage EXCEPT ![w].phase = "held", ![w].id = i, ![w].held = h]
        PROVE  RequestsTyped'
    <3>1. h \in Seq(Row) /\ i \in UserIds
      BY <1>1, <2>3, AccountRow, ManagedRow
    <3>2. QED
      BY <1>1, <2>1, <2>3, <3>1 DEF RequestsTyped, Manages
  <2>4. QED
    BY <1>9, <2>2, <2>3, Zenon DEF ManageLookUp
<1>10. ASSUME NEW w \in Operators, ManageWrite(w) PROVE RequestsTyped'
  <2>1. PICK p \in {"done", "refused"} :
          manage' = [manage EXCEPT ![w].phase = p, ![w].held = <<>>] /\ save' = save
    BY <1>10 DEF ManageWrite
  <2> DEFINE m == [manage[w] EXCEPT !.phase = p, !.held = <<>>]
  <2>2. <<>> \in Seq(Row) /\ manage[w] \in Manages
    BY <1>1, EmptySeq DEF RequestsTyped
  <2>3. m \in Manages
    BY <2>2 DEF Manages
  <2>4. manage' = [manage EXCEPT ![w] = m]
    BY <2>1
  <2> HIDE DEF m
  <2>5. QED
    BY <1>1, <2>1, <2>3, <2>4 DEF RequestsTyped
<1>11. CASE ManageAnswer \/ OtherEnds
  <2>1. <<>> \in Seq(Row)
    BY EmptySeq
  <2>2. NoManage \in Manages
    BY <2>1 DEF NoManage, Manages
  <2>3. PICK w \in Operators : manage' = [manage EXCEPT ![w] = NoManage] /\ save' = save
    BY <1>11 DEF ManageAnswer, OtherEnds, Operators
  <2>4. QED
    BY <1>1, <2>2, <2>3 DEF RequestsTyped
<1>12. QED
  BY <1>2, <1>3, <1>4, <1>5, <1>7, <1>8, <1>9, <1>10, <1>11, Zenon
     DEF UsersNext, usersVars, Operators, handleSearchSubmit, handleResetSearch, PreviousUsers,
         NextUsers, Go, Refresh, UsersRead, handleCreate, handleEdit, handleResetForm, TypeForm,
         UserRead, UserAnswer

LEMMA NextMoves ==
  ASSUME UsersPageAssumption, UsersTyped, [UsersNext]_usersVars
  PROVE  userMoves' \in 0 .. MaxMoves
<1>1. UNCHANGED userMoves \/ UserMove
  BY Zenon
     DEF UsersNext, usersVars, handleSearchSubmit, handleResetSearch, PreviousUsers, NextUsers, Go,
         Refresh, UsersRead, handleCreate, handleEdit, handleResetForm, TypeForm, handleSubmit,
         UserRead, UserAnswer, CreateUserAsAdmin, UpdateUserAsAdmin, SaveAnswer, handleManage,
         OtherOperator, AskManage, ManageAnswer, OtherEnds, ManageLookUp, ManageWrite
<1>2. userMoves \in 0 .. MaxMoves /\ MaxMoves \in Nat
  BY UsersBounds DEF UsersTyped
<1>3. QED
  BY <1>1, <1>2 DEF UserMove

\* A detail that is dropped is awaited as before, and none is read without an answer.
LEMMA DroppedAwaited ==
  ASSUME DetailsTyped, EditorFills, NEW e, AllInvalidated(e), NEW i \in UserIds
  PROVE  /\ userDetails'[i].phase = "read" => userDetails'[i].answer # <<>>
         /\ Awaited(userDetails[i]) => Awaited(userDetails'[i])
<1>1. /\ IsQueryOf(userDetails[i], Row)
      /\ userDetails[i].phase = "read" => userDetails[i].answer # <<>>
  BY DEF DetailsTyped, EditorFills
<1>2. userDetails'[i] = userDetails[i] \/ userDetails'[i] = Invalidated(userDetails[i])
  BY DEF AllInvalidated
<1>3. CASE userDetails'[i] = Invalidated(userDetails[i])
  <2> PICK q : q = userDetails[i]
    OBVIOUS
  <2>1. /\ Invalidated(q).data = q.data /\ Invalidated(q).phase # "idle"
        /\ Invalidated(q).phase = "read" => q.phase = "read" /\ Invalidated(q).answer = q.answer
    BY <1>1, QueryInvalidated
  <2> QED
    BY <1>1, <1>3, <2>1 DEF Awaited, Fetching
<1>4. QED
  BY <1>1, <1>2, <1>3

\* The form that is open keeps what filled it, until the editor is about another account.
LEMMA NextEditor ==
  ASSUME UsersPageAssumption, UsersInv, UsersNext
  PROVE  EditorFills'
<1>1. EditorFills /\ FormTyped /\ DetailsTyped /\ ListsTyped /\ AccountsTyped /\ RequestsTyped
  BY DEF UsersInv, UsersTyped
<1>2. CASE UNCHANGED <<editor, userForm, userDetails, save>>
  BY <1>1, <1>2 DEF EditorFills, Awaited, Fetching
<1>3. CASE handleCreate
  BY <1>1, <1>3, BlankForm DEF handleCreate, EditorFills, cached
<1>4. CASE handleEdit
  <2>1. PICK item \in userLists[Here].data[1] :
          /\ editor' = [open |-> TRUE, id |-> item.id]
          /\ userForm' = IF userDetails[item.id].data = <<>> THEN userForm
                         ELSE Filled(item.id, userDetails[item.id].data[1])
          /\ userDetails' = IF userDetails[item.id].data = <<>> \/ item.id \in dated.details
                            THEN [userDetails EXCEPT ![item.id] = Fetch(userDetails[item.id])]
                            ELSE userDetails
    BY <1>4 DEF handleEdit
  <2>2. item.id \in UserIds /\ item.id # 0
    BY <1>1, <1>4, ListItem DEF handleEdit, UserIds
  <2> DEFINE q == userDetails[item.id]
  <2>3. /\ IsQueryOf(q, Row) /\ Fetch(q).data = q.data /\ Fetch(q).phase # "idle"
        /\ Fetch(q).answer = q.answer /\ (Fetch(q).phase = "read" <=> q.phase = "read")
    BY <1>1, <2>2, QueryFetched DEF DetailsTyped
  <2> HIDE DEF q
  <2>4. \A i \in UserIds : userDetails'[i].phase = "read" => userDetails'[i].answer # <<>>
    BY <1>1, <2>1, <2>2, <2>3 DEF EditorFills, DetailsTyped, q
  <2>5. CASE q.data = <<>>
    <3>1. userDetails'[item.id] = Fetch(q)
      BY <1>1, <2>1, <2>2, <2>5 DEF DetailsTyped, q
    <3>2. Awaited(userDetails'[item.id])
      BY <2>3, <2>5, <3>1 DEF Awaited, Fetching
    <3>3. editor'.open /\ editor'.id = item.id /\ save' = save
      BY <1>4, <2>1 DEF handleEdit
    <3>4. QED
      BY <1>1, <2>2, <2>4, <3>2, <3>3 DEF EditorFills
  <2>6. CASE q.data # <<>>
    <3>1. userForm'.of = item.id
      BY <1>1, <2>1, <2>2, <2>6, DetailRow, FilledForm DEF q
    <3>2. editor'.open /\ editor'.id = item.id /\ save' = save
      BY <1>4, <2>1 DEF handleEdit
    <3>3. QED
      BY <1>1, <2>2, <2>4, <3>1, <3>2 DEF EditorFills
  <2>7. QED
    BY <2>5, <2>6
<1>5. CASE handleResetForm
  BY <1>1, <1>5 DEF handleResetForm, EditorFills, cached
<1>6. CASE TypeForm
  <2>1. PICK n \in UserNames, b \in BOOLEAN : userForm' = [userForm EXCEPT !.name = n, !.secret = b]
    BY <1>6 DEF TypeForm
  <2>2. userForm'.of = userForm.of /\ UNCHANGED <<editor, userDetails, save>>
    BY <1>1, <1>6, <2>1 DEF TypeForm, FormTyped, cached
  <2>3. QED
    BY <1>1, <2>2 DEF EditorFills, Awaited, Fetching
<1>7. CASE handleSubmit
  <2>1. /\ save' = [phase |-> "sent", id |-> editor.id, name |-> userForm.name, of |-> userForm.of]
        /\ UNCHANGED <<editor, userDetails, userForm>> /\ FormShown
    BY <1>7 DEF handleSubmit, cached
  <2>2. userForm.of = editor.id
    BY <1>1, <2>1 DEF FormShown, EditorFills, Awaited, Loading
  <2>3. save'.of = save'.id
    BY <2>1, <2>2
  <2>4. QED
    BY <1>1, <2>1, <2>3 DEF EditorFills, Awaited, Fetching
<1>8. ASSUME NEW i \in UserIds, UserRead(i) PROVE EditorFills'
  <2> DEFINE q == userDetails[i]
             r == IF i \in Accounts /\ MyRole > users[i][1].role
                  THEN Read(userDetails[i], users[i][1]) ELSE Failed(userDetails[i])
  <2>1. IsQueryOf(q, Row)
    BY <1>1 DEF DetailsTyped
  <2>2. /\ r.data = q.data /\ (r.failed \/ r.phase = "read")
        /\ r.phase = "read" => r.answer # <<>>
    <3>1. CASE i \in Accounts /\ MyRole > users[i][1].role
      BY <1>1, <2>1, <3>1, AccountRow, QueryReads
    <3>2. CASE ~(i \in Accounts /\ MyRole > users[i][1].role)
      BY <2>1, <3>2, QueryFailed
    <3>3. QED
      BY <3>1, <3>2
  <2>3. userDetails' = [userDetails EXCEPT ![i] = r] /\ UNCHANGED <<editor, userForm, save>>
    BY <1>8 DEF UserRead
  <2>4. Awaited(q) => Awaited(r)
    BY <2>2 DEF Awaited, Fetching
  <2> HIDE DEF r
  <2>5. /\ userDetails'[i] = r
        /\ \A j \in UserIds : j # i => userDetails'[j] = userDetails[j]
    BY <1>1, <2>3 DEF DetailsTyped
  <2>6. QED
    BY <1>1, <2>2, <2>3, <2>4, <2>5 DEF EditorFills, FormTyped
<1>9. ASSUME NEW i \in UserIds, UserAnswer(i) PROVE EditorFills'
  <2> DEFINE q == userDetails[i]
  <2>1. /\ IsQueryOf(q, Row) /\ Answered(q).data = q.answer /\ Answered(q).phase = "idle"
        /\ q.answer # <<>> /\ i # 0
    <3>1. IsQueryOf(q, Row) /\ q.answer # <<>>
      BY <1>1, <1>9 DEF DetailsTyped, EditorFills, UserAnswer
    <3>2. i # 0
      BY DEF UserIds
    <3>3. QED
      BY <3>1, <3>2, QueryAnswered
  <2>2. /\ userDetails' = [userDetails EXCEPT ![i] = Answered(q)] /\ UNCHANGED <<editor, save>>
        /\ userForm' = IF i = editor.id /\ q.answer # q.data
                       THEN Filled(i, q.answer[1]) ELSE userForm
    BY <1>9 DEF UserAnswer
  <2>3. q.answer[1] \in Row
    BY <1>1, <2>1, DetailRow
  <2>4. Filled(i, q.answer[1]).of = i
    BY <2>3, FilledForm
  <2> HIDE DEF q
  <2>5. \A j \in UserIds : userDetails'[j].phase = "read" => userDetails'[j].answer # <<>>
    BY <1>1, <2>1, <2>2 DEF EditorFills, DetailsTyped
  <2>6. CASE i = editor.id
    <3>1. Awaited(q) => q.answer # q.data
      BY <2>1 DEF Awaited
    <3>2. editor.open => userForm'.of = i
      BY <1>1, <2>1, <2>2, <2>4, <2>6, <3>1 DEF EditorFills, q
    <3>3. QED
      BY <1>1, <2>1, <2>2, <2>5, <2>6, <3>2 DEF EditorFills
  <2>7. CASE i # editor.id
    <3>1. userForm' = userForm
      BY <2>2, <2>7
    <3>2. editor.id # 0 => userDetails'[editor.id] = userDetails[editor.id]
      BY <1>1, <2>2, <2>7 DEF DetailsTyped, FormTyped
    <3>3. QED
      BY <1>1, <2>2, <2>5, <3>1, <3>2 DEF EditorFills
  <2>8. QED
    BY <2>6, <2>7
<1>10. CASE CreateUserAsAdmin \/ UpdateUserAsAdmin
  <2>1. /\ UNCHANGED <<editor, userForm, userDetails>> /\ save.phase = "sent"
        /\ \/ save' = [save EXCEPT !.phase = "refused"] \/ save' = [save EXCEPT !.phase = "done"]
    BY <1>10 DEF CreateUserAsAdmin, UpdateUserAsAdmin, cached
  <2>2. save'.of = save'.id
    BY <1>1, <2>1 DEF EditorFills, RequestsTyped, Saves
  <2>3. QED
    BY <1>1, <2>1, <2>2 DEF EditorFills, Awaited, Fetching
<1>11. CASE SaveAnswer
  <2>1. save'.phase = "idle"
    BY <1>11 DEF SaveAnswer, NoSave
  <2>2. CASE UNCHANGED <<editor, userForm, cached>>
    BY <1>1, <2>1, <2>2 DEF EditorFills, cached, Awaited, Fetching
  <2>3. CASE editor' = [open |-> FALSE, id |-> 0] /\ AllInvalidated(0)
    BY <1>1, <2>1, <2>3, DroppedAwaited DEF EditorFills
  <2>4. QED
    BY <1>11, <2>2, <2>3 DEF SaveAnswer
<1>12. CASE ManageAnswer
  <2>1. UNCHANGED <<editor, userForm, save>>
    BY <1>12 DEF ManageAnswer
  <2>2. CASE UNCHANGED cached
    BY <1>2, <2>1, <2>2 DEF cached
  <2>3. CASE AllInvalidated(editor.id)
    <3>1. editor.id # 0 => editor.id \in UserIds
      BY <1>1 DEF FormTyped
    <3>2. QED
      BY <1>1, <2>1, <2>3, <3>1, DroppedAwaited DEF EditorFills
  <2>4. QED
    BY <1>12, <2>2, <2>3 DEF ManageAnswer
<1>13. QED
  BY <1>2, <1>3, <1>4, <1>5, <1>6, <1>7, <1>8, <1>9, <1>10, <1>11, <1>12, Zenon
     DEF UsersNext, cached, handleSearchSubmit, handleResetSearch, PreviousUsers, NextUsers, Go,
         Refresh, UsersRead, handleManage, OtherOperator, AskManage, OtherEnds, ManageLookUp,
         ManageWrite

\* No step takes any of it away.
LEMMA NextUsersKeeps ==
  ASSUME UsersPageAssumption PROVE UsersInv /\ [UsersNext]_usersVars => UsersInv'
<1> SUFFICES ASSUME UsersInv, [UsersNext]_usersVars PROVE UsersInv'
  OBVIOUS
<1>1. UsersTyped'
  BY NextAccounts, NextQueries, NextForm, NextRequests, NextMoves DEF UsersTyped, UsersInv
<1>2. CASE UsersNext
  BY <1>1, <1>2, NextEditor DEF UsersInv
<1>3. CASE UNCHANGED usersVars
  BY <1>1, <1>3 DEF UsersInv, EditorFills, Awaited, Fetching, usersVars
<1>4. QED
  BY <1>2, <1>3

LEMMA UsersAlways == ASSUME UsersPageAssumption PROVE UsersSpec => []UsersInv
BY InitUsers, NextUsersKeeps, PTL DEF UsersSpec

\* The types of the page (TypeOK).
THEOREM UsersTypeCorrect == ASSUME UsersPageAssumption PROVE UsersSpec => []UsersTypeOK
<1>1. UsersInv => UsersTypeOK
  <2> SUFFICES ASSUME UsersInv PROVE UsersTypeOK
    OBVIOUS
  <2>1. AccountsTyped /\ ListsTyped /\ DetailsTyped /\ FormTyped /\ RequestsTyped
    BY DEF UsersInv, UsersTyped
  <2>2. save.phase \in {"idle", "sent", "done", "refused"} /\ save.id \in UserIds \union {0}
    BY <2>1 DEF RequestsTyped, Saves
  <2>3. \A w \in {"mine", "other"} :
          /\ manage[w].phase \in {"idle", "sent", "held", "done", "refused"}
          /\ manage[w].held \in Seq(Row)
    BY <2>1 DEF RequestsTyped, Manages, Operators
  <2>4. userMoves \in 0 .. MaxMoves
    BY DEF UsersInv, UsersTyped
  <2>5. QED
    BY <2>1, <2>2, <2>3, <2>4
       DEF UsersTypeOK, AccountsTyped, ListsTyped, DetailsTyped, FormTyped, Items
<1>2. QED
  BY UsersAlways, <1>1, PTL

\* A save changes the user whose data filled the form that was saved, for any accounts and
\* clicks (users-page.tsx:126-140, 221-232).
THEOREM UserSaveAlwaysShown == ASSUME UsersPageAssumption PROVE UsersSpec => []SavesTheUserShown
<1>1. UsersInv => SavesTheUserShown
  BY DEF UsersInv, EditorFills, SavesTheUserShown
<1>2. QED
  BY UsersAlways, <1>1, PTL

\* An account that was deleted does not come back, although requests that were under way hold
\* a copy of it and write all of the copy (user.go:215-263, model/user.go:76-86).
THEOREM AccountsStayGone == ASSUME UsersPageAssumption PROVE UsersSpec => GoneForGood
<1>1. UsersInv /\ [UsersNext]_usersVars => [StaysGone]_usersVars
  <2> SUFFICES ASSUME UsersInv, UsersNext, NEW i \in 1 .. lastId, users[i] = <<>>
               PROVE  users'[i] = <<>>
    BY DEF StaysGone
  <2>1. i \in UserIds /\ DOMAIN users = UserIds /\ lastId \in Nat
    BY UsersBounds DEF UsersInv, UsersTyped, AccountsTyped, UserIds
  <2>2. CASE UNCHANGED users
    BY <2>2
  <2>3. ASSUME CreateUserAsAdmin, ~UNCHANGED users PROVE users'[i] = <<>>
    <3>1. \E r : users' = [users EXCEPT ![lastId + 1] = r]
      BY <2>3 DEF CreateUserAsAdmin, server
    <3>2. QED
      BY <2>1, <3>1
  <2>4. ASSUME UpdateUserAsAdmin, ~UNCHANGED users PROVE users'[i] = <<>>
    <3>1. users' = [users EXCEPT ![save.id][1].name = save.name] /\ save.id \in Accounts
      BY <2>4 DEF UpdateUserAsAdmin
    <3>2. i # save.id
      BY <3>1 DEF Accounts
    <3>3. QED
      BY <2>1, <3>1, <3>2
  <2>5. ASSUME NEW w \in Operators, ManageWrite(w) PROVE users'[i] = <<>>
    <3>1. \/ users' = users \/ users' = [users EXCEPT ![manage[w].id] = <<>>]
          \/ manage[w].id \in Accounts /\ users' = [users EXCEPT ![manage[w].id] = manage[w].held]
      BY <2>5 DEF ManageWrite, Written
    <3>2. manage[w].id \in Accounts => i # manage[w].id
      BY DEF Accounts
    <3>3. QED
      BY <2>1, <3>1, <3>2
  <2>6. QED
    BY <2>2, <2>3, <2>4, <2>5, Zenon
       DEF UsersNext, server, Operators, handleSearchSubmit, handleResetSearch, PreviousUsers,
           NextUsers, Go, Refresh, UsersRead, handleCreate, handleEdit, handleResetForm, TypeForm,
           handleSubmit, UserRead, UserAnswer, SaveAnswer, handleManage, OtherOperator, AskManage,
           ManageAnswer, OtherEnds, ManageLookUp
<1>2. QED
  BY UsersAlways, <1>1, PTL DEF UsersSpec, GoneForGood

-----------------------------------------------------------------------------
(* The workspace. *)

CallFields == {"phase", "id", "payload", "early", "source"}
AnswerFields == {"data", "phase", "answer", "failed"}

\* What the values are, as far as the proofs need it.
CallsShaped ==
  /\ DOMAIN calls = Mutations
  /\ \A m \in Mutations : DOMAIN calls[m] = CallFields /\ calls[m].id \in Ids \union {0}
DetailsShaped ==
  DOMAIN details = Ids /\ \A i \in Ids : DOMAIN details[i] = AnswerFields
TablesShaped == DOMAIN rows = Ids /\ DOMAIN stored = Ids /\ born \in Ids

\* Rows and snapshots have ids that were given out; a request that has passed its checks is
\* about such a row, and a rendered snapshot is of the row as it is, or overlapped.
TablesAgree ==
  /\ \A i \in Ids : rows[i] # <<>> => i <= born /\ rows[i] = <<rows[i][1]>>
  /\ \A i \in Ids : stored[i] # <<>> => i <= born
  /\ \A m \in {"update", "toggle", "snapshot"} :
       calls[m].phase = "checked" => calls[m].id \in Ids /\ calls[m].id <= born
  /\ calls["create"].phase = "done" => calls["create"].id \in Ids
  /\ calls["snapshot"].phase = "checked" /\ calls["snapshot"].id \notin overlapped =>
       rows[calls["snapshot"].id] = <<calls["snapshot"].payload>>
  /\ SnapshotCurrent

\* The draft of a selected profile is not another's, unless its own detail is missing; and an
\* update was sent from such a draft.
FormFilled ==
  /\ selectedId \in Ids \union {0}
  /\ ~creating /\ selectedId # 0 =>
       filledBy \in {0, selectedId} \/ details[selectedId].data = <<>>
  /\ SavesItsOwn

WorkspaceInv == CallsShaped /\ DetailsShaped /\ TablesShaped /\ TablesAgree /\ FormFilled

LEMMA InitWorkspace == ASSUME WorkspaceAssumption PROVE WorkspaceInit => WorkspaceInv
<1> SUFFICES ASSUME WorkspaceInit PROVE WorkspaceInv
  OBVIOUS
<1>1. CallsShaped /\ \A m \in Mutations : calls[m].phase = "idle"
  BY DEF WorkspaceInit, CallsShaped, NoCall, CallFields
<1>2. DetailsShaped
  <2>1. DOMAIN Unasked = AnswerFields
    BY DEF Unasked, Fresh, AnswerFields
  <2>2. QED
    BY <2>1 DEF WorkspaceInit, DetailsShaped
<1>3. TablesShaped
  BY DEF WorkspaceInit, TablesShaped
<1>4. TablesAgree
  <2>1. \A i \in Ids : rows[i] # <<>> => i <= born /\ rows[i] = <<rows[i][1]>>
    <3> SUFFICES ASSUME NEW i \in Ids, rows[i] # <<>>
                 PROVE  i <= born /\ rows[i] = <<rows[i][1]>>
      OBVIOUS
    <3>1. ~(i > born) /\ \E r : rows[i] = <<r>>
      BY DEF WorkspaceInit
    <3>2. i \in Int /\ born \in Int
      <4>1. born \in Ids
        BY DEF WorkspaceInit
      <4>2. QED
        BY <4>1 DEF Ids, WorkspaceAssumption
    <3>3. PICK r : rows[i] = <<r>>
      BY <3>1
    <3>4. rows[i][1] = r
      BY <3>3
    <3>5. QED
      BY <3>1, <3>2, <3>3, <3>4
  <2>2. \A i \in Ids : stored[i] = <<>>
    BY DEF WorkspaceInit
  <2>3. QED
    BY <1>1, <2>1, <2>2 DEF TablesAgree, SnapshotCurrent, Mutations
<1>5. FormFilled
  BY <1>1 DEF WorkspaceInit, FormFilled, SavesItsOwn, Mutations
<1>6. QED
  BY <1>1, <1>2, <1>3, <1>4, <1>5 DEF WorkspaceInv

\* One request is replaced.
LEMMA CallReplaced ==
  ASSUME CallsShaped, NEW m \in Mutations, NEW c, calls' = [calls EXCEPT ![m] = c],
         DOMAIN c = CallFields, c.id \in Ids \union {0}
  PROVE  CallsShaped' /\ calls'[m] = c /\ \A n \in Mutations \ {m} : calls'[n] = calls[n]
BY DEF CallsShaped

\* One request gets to another phase.
LEMMA PhaseSet ==
  ASSUME CallsShaped, NEW m \in Mutations, NEW p, Phase(m, p)
  PROVE  /\ CallsShaped' /\ \A n \in Mutations \ {m} : calls'[n] = calls[n]
         /\ calls'[m].phase = p /\ calls'[m].id = calls[m].id /\ calls'[m].payload = calls[m].payload
         /\ calls'[m].source = calls[m].source /\ calls'[m].early = calls[m].early
BY DEF CallsShaped, Phase, CallFields

\* The same, and its payload is what the checks, or the rendering, made of it.
LEMMA PhaseAndPayloadSet ==
  ASSUME CallsShaped, NEW m \in Mutations, NEW p, NEW x,
         calls' = [calls EXCEPT ![m].phase = p, ![m].payload = x]
  PROVE  /\ CallsShaped' /\ \A n \in Mutations \ {m} : calls'[n] = calls[n]
         /\ calls'[m].phase = p /\ calls'[m].id = calls[m].id /\ calls'[m].payload = x
         /\ calls'[m].source = calls[m].source /\ calls'[m].early = calls[m].early
BY DEF CallsShaped, CallFields

\* What the cache does to a detail keeps its fields, and its data until it is answered.
LEMMA DetailChanged ==
  ASSUME NEW q, DOMAIN q = AnswerFields, NEW d
  PROVE  /\ DOMAIN Fetch(q) = AnswerFields /\ Fetch(q).data = q.data
         /\ DOMAIN Invalidated(q) = AnswerFields /\ Invalidated(q).data = q.data
         /\ DOMAIN Read(q, d) = AnswerFields /\ Read(q, d).data = q.data
         /\ DOMAIN Failed(q) = AnswerFields /\ Failed(q).data = q.data
         /\ DOMAIN Answered(q) = AnswerFields /\ Answered(q).data = q.answer
<1>1. DOMAIN Fetch(q) = AnswerFields /\ Fetch(q).data = q.data
  BY DEF Fetch, AnswerFields
<1>2. DOMAIN Invalidated(q) = AnswerFields /\ Invalidated(q).data = q.data
  BY DEF Invalidated, AnswerFields
<1>3. DOMAIN Read(q, d) = AnswerFields /\ Read(q, d).data = q.data
  BY DEF Read, AnswerFields
<1>4. DOMAIN Failed(q) = AnswerFields /\ Failed(q).data = q.data
  BY DEF Failed, AnswerFields
<1>5. DOMAIN Answered(q) = AnswerFields /\ Answered(q).data = q.answer
  BY DEF Answered, AnswerFields
<1>6. QED
  BY <1>1, <1>2, <1>3, <1>4, <1>5

\* The update that is under way, if any, is the one that was.
UpdateKept ==
  calls'["update"].phase # "idle" =>
    /\ calls["update"].phase # "idle"
    /\ calls'["update"].id = calls["update"].id /\ calls'["update"].source = calls["update"].source
    /\ calls'["update"].early = calls["update"].early

\* Only request m changed, and nothing that the tables depend on: it did not pass its checks.
QuietCall(m) ==
  /\ \A n \in Mutations \ {m} : calls'[n] = calls[n]
  /\ calls'[m].phase # "checked" /\ (m = "create" => calls'[m].phase # "done")

QuietTables == UNCHANGED <<rows, stored, born, overlapped>>
AtRest == QuietTables /\ (calls' = calls \/ \E m \in Mutations : QuietCall(m))

\* A click starts one request.
LEMMA CallMade ==
  ASSUME CallsShaped, NEW m \in Mutations, NEW id \in Ids \union {0}, NEW p, Call(m, id, p)
  PROVE  CallsShaped' /\ AtRest /\ (m = "update" \/ UpdateKept)
<1> DEFINE c == [phase |-> "sent", id |-> id, payload |-> p,
                 source |-> IF m = "update" THEN filledBy ELSE 0,
                 early |-> m = "update" /\ details[id].data = <<>>]
<1>1. calls' = [calls EXCEPT ![m] = c] /\ QuietTables
  BY DEF Call, QuietTables, profileTables
<1>2. DOMAIN c = CallFields /\ c.id = id /\ c.phase = "sent"
  BY DEF CallFields
<1> HIDE DEF c
<1>3. CallsShaped' /\ calls'[m] = c /\ \A n \in Mutations \ {m} : calls'[n] = calls[n]
  BY <1>1, <1>2, CallReplaced
<1>4. m # "update" => calls'["update"] = calls["update"]
  BY <1>3 DEF Mutations
<1>5. QED
  BY <1>1, <1>2, <1>3, <1>4 DEF AtRest, QuietCall, UpdateKept

\* An answer ends one.
LEMMA CallEnds ==
  ASSUME CallsShaped, NEW m \in Mutations, Finish(m), UNCHANGED <<profileTables, overlapped>>
  PROVE  CallsShaped' /\ AtRest /\ UpdateKept
<1>1. DOMAIN NoCall = CallFields /\ NoCall.id = 0 /\ NoCall.phase = "idle"
  BY DEF NoCall, CallFields
<1>2. CallsShaped' /\ calls'[m] = NoCall /\ \A n \in Mutations \ {m} : calls'[n] = calls[n]
  BY <1>1, CallReplaced DEF Finish
<1>3. "update" \in Mutations /\ QuietTables
  BY DEF Mutations, QuietTables, profileTables
<1>4. QED
  BY <1>1, <1>2, <1>3 DEF AtRest, QuietCall, UpdateKept

\* The server moves one on.
LEMMA CallMoves ==
  ASSUME CallsShaped, NEW m \in Mutations, NEW p, Phase(m, p), calls[m].phase # "idle"
  PROVE  CallsShaped' /\ UpdateKept /\ (p \notin {"checked", "done"} \/ (p = "done" /\ m # "create")
                                        => QuietCall(m))
<1>1. "update" \in Mutations
  BY DEF Mutations
<1>2. QED
  BY <1>1, PhaseSet DEF UpdateKept, QuietCall

LEMMA CallMovesOn ==
  ASSUME CallsShaped, NEW m \in Mutations, NEW p, NEW x, calls[m].phase # "idle",
         calls' = [calls EXCEPT ![m].phase = p, ![m].payload = x]
  PROVE  CallsShaped' /\ UpdateKept /\ (p # "checked" /\ (m = "create" => p # "done") => QuietCall(m))
<1>1. "update" \in Mutations
  BY DEF Mutations
<1>2. QED
  BY <1>1, PhaseAndPayloadSet DEF UpdateKept, QuietCall

LEMMA NextId ==
  ASSUME WorkspaceAssumption, NEW n \in Ids, n < ProfileCount PROVE n + 1 \in Ids
BY DEF Ids, WorkspaceAssumption

\* What a step does to the requests; the other steps of the server are those of the tables.
ServerSteps ==
  \/ CreateProfile \/ DeleteProfile \/ RenderSaved \/ StoreSnapshot
  \/ \E m \in Mutations : Check(m) \/ UpdateProfile(m)

LEMMA NextCalls ==
  ASSUME WorkspaceAssumption, WorkspaceInv, WorkspaceNext
  PROVE  /\ CallsShaped'
         /\ UpdateKept \/ (Editing /\ Call("update", selectedId, draft))
         /\ AtRest \/ ServerSteps
<1>1. CallsShaped /\ selectedId \in Ids \union {0} /\ 0 \in Ids \union {0}
  BY DEF WorkspaceInv, FormFilled
<1>2. \A m \in {"create", "update", "delete", "toggle", "preview", "snapshot", "saveTemplate",
                "deleteTemplate"} : m \in Mutations
  BY DEF Mutations
<1> DEFINE Done == /\ CallsShaped' /\ (UpdateKept \/ (Editing /\ Call("update", selectedId, draft)))
                   /\ (AtRest \/ ServerSteps)
<1>3. CASE ClickForm \/ SnapshotCard \/ ClickToggle \/ ClickTemplates
  <2>1. CASE Call("preview", 0, draft)
    BY <1>1, <1>2, <2>1, CallMade
  <2>2. CASE Editing /\ Call("update", selectedId, draft)
    BY <1>1, <1>2, <2>2, CallMade
  <2>3. CASE Call("delete", selectedId, defaultPayload)
    BY <1>1, <1>2, <2>3, CallMade
  <2>4. CASE Call("create", 0, draft)
    BY <1>1, <1>2, <2>4, CallMade
  <2>5. CASE SnapshotCard
    BY <1>1, <1>2, <2>5, CallMade DEF SnapshotCard
  <2>6. CASE ClickToggle
    <3>1. PICK i \in Ids : \E p : Call("toggle", i, p)
      BY <2>6 DEF ClickToggle
    <3>2. QED
      BY <1>1, <1>2, <3>1, CallMade
  <2>7. CASE ClickTemplates
    BY <1>1, <1>2, <2>7, CallMade DEF ClickTemplates
  <2>8. QED
    BY <1>3, <2>1, <2>2, <2>3, <2>4, <2>5, <2>6, <2>7 DEF ClickForm
<1>4. CASE CreateAnswer \/ ToggleAnswer \/ DeleteAnswer \/ PreviewAnswer
  BY <1>1, <1>2, <1>4, CallEnds DEF CreateAnswer, ToggleAnswer, DeleteAnswer, PreviewAnswer, Answering
<1>5. ASSUME NEW m \in Mutations, SavedAnswer(m) \/ TemplateAnswer(m) \/ CallRefused(m) PROVE Done
  BY <1>1, <1>2, <1>5, CallEnds DEF SavedAnswer, TemplateAnswer, CallRefused, Answering
<1>6. CASE CreateProfile
  <2>1. DOMAIN calls["create"] = CallFields /\ born + 1 \in Ids
    <3>1. born \in Ids /\ born < ProfileCount
      BY <1>6 DEF CreateProfile, WorkspaceInv, TablesShaped
    <3>2. DOMAIN calls["create"] = CallFields
      BY <1>1, <1>2 DEF CallsShaped
    <3>3. QED
      BY <3>1, <3>2, NextId
  <2>2. CallsShaped' /\ calls'["update"] = calls["update"]
    BY <1>1, <1>2, <1>6, <2>1 DEF CreateProfile, CallsShaped, CallFields
  <2>3. QED
    BY <1>6, <2>2 DEF UpdateKept, ServerSteps
<1>7. ASSUME NEW m \in Mutations, Check(m) PROVE Done
  <2>1. calls[m].phase = "sent" /\ \E p, x : calls' = [calls EXCEPT ![m].phase = p, ![m].payload = x]
    BY <1>7 DEF Check
  <2>2. QED
    BY <1>1, <1>7, <2>1, CallMovesOn DEF ServerSteps
<1>8. ASSUME NEW m \in Mutations, UpdateProfile(m) PROVE Done
  BY <1>1, <1>8, CallMoves DEF ServerSteps, UpdateProfile
<1>9. CASE DeleteProfile \/ StoreSnapshot
  BY <1>1, <1>2, <1>9, CallMoves DEF ServerSteps, DeleteProfile, StoreSnapshot
<1>10. CASE PreviewPortProfile
  <2>1. PICK p \in {"done", "refused"} :
          \E x : calls' = [calls EXCEPT !["preview"].phase = p, !["preview"].payload = x]
    BY <1>10 DEF PreviewPortProfile
  <2>2. calls["preview"].phase = "sent" /\ QuietTables
    BY <1>10 DEF PreviewPortProfile, QuietTables, profileTables
  <2>3. QED
    BY <1>1, <1>2, <2>1, <2>2, CallMovesOn DEF AtRest
<1>11. CASE RenderSaved
  <2>1. /\ calls["snapshot"].phase = "sent"
        /\ \E p, x : calls' = [calls EXCEPT !["snapshot"].phase = p, !["snapshot"].payload = x]
    BY <1>11 DEF RenderSaved
  <2>2. QED
    BY <1>1, <1>2, <1>11, <2>1, CallMovesOn DEF ServerSteps
<1>12. CASE SavePortProfileTemplate \/ DeletePortProfileTemplate
  <2>1. PICK m \in {"saveTemplate", "deleteTemplate"} :
          calls[m].phase = "sent" /\ \E p \in {"done", "refused"} : Phase(m, p)
    BY <1>12 DEF SavePortProfileTemplate, DeletePortProfileTemplate
  <2>2. QuietTables
    BY <1>12 DEF SavePortProfileTemplate, DeletePortProfileTemplate, QuietTables
  <2>3. QED
    BY <1>1, <1>2, <2>1, <2>2, CallMoves DEF AtRest
<1>13. ASSUME NEW m \in Mutations, Lost(m) PROVE Done
  <2>1. calls[m].phase = "sent" /\ Phase(m, "refused") /\ QuietTables
    BY <1>13 DEF Lost, QuietTables, profileTables
  <2>2. QED
    BY <1>1, <2>1, CallMoves DEF AtRest
<1>14. CASE calls' = calls /\ QuietTables
  <2>1. CallsShaped'
    BY <1>1, <1>14 DEF CallsShaped
  <2>2. QED
    BY <1>14, <2>1 DEF UpdateKept, AtRest
<1>15. (calls' = calls /\ QuietTables) \/ ClickForm \/ SnapshotCard \/ ClickToggle \/ ClickTemplates
       \/ CreateProfile \/ DeleteProfile \/ PreviewPortProfile \/ RenderSaved \/ StoreSnapshot
       \/ SavePortProfileTemplate \/ DeletePortProfileTemplate
       \/ CreateAnswer \/ ToggleAnswer \/ DeleteAnswer \/ PreviewAnswer
       \/ \E m \in Mutations : \/ Check(m) \/ UpdateProfile(m) \/ Lost(m)
                               \/ SavedAnswer(m) \/ TemplateAnswer(m) \/ CallRefused(m)
  BY Zenon
     DEF WorkspaceNext, QuietTables, profileTables, ListRead, ListAnswer, TemplatesRead, DetailRead,
         DetailAnswer, Age, Select, handleCreateNew, applyTemplate, StartNew, EditName, EditPorts,
         UseMixed, EditSettings, NodePicker, handleToggleNode, Edit, FormOnly
<1>16. QED
  BY <1>3, <1>4, <1>5, <1>6, <1>7, <1>8, <1>9, <1>10, <1>11, <1>12, <1>13, <1>14, <1>15

LEMMA QuietAgree ==
  ASSUME TablesAgree, AtRest PROVE TablesAgree'
<1> USE DEF AtRest, QuietTables
<1>1. CASE calls' = calls
  BY <1>1 DEF TablesAgree, SnapshotCurrent
<1>2. ASSUME NEW m \in Mutations, QuietCall(m) PROVE TablesAgree'
  <2>1. \A n \in {"update", "toggle", "snapshot"} :
          calls'[n].phase = "checked" => calls'[n] = calls[n]
    BY <1>2 DEF QuietCall, Mutations
  <2>2. calls'["create"].phase = "done" => calls'["create"] = calls["create"]
    BY <1>2 DEF QuietCall, Mutations
  <2>3. QED
    BY <2>1, <2>2 DEF TablesAgree, SnapshotCurrent
<1>3. QED
  BY <1>1, <1>2

LEMMA NextTables ==
  ASSUME WorkspaceAssumption, WorkspaceInv, WorkspaceNext PROVE TablesShaped' /\ TablesAgree'
<1>1. CallsShaped /\ CallsShaped' /\ TablesShaped /\ TablesAgree /\ 0 \notin Ids
  BY NextCalls DEF WorkspaceInv, Ids
<1>2. CASE AtRest
  BY <1>1, <1>2, QuietAgree DEF TablesShaped, AtRest, QuietTables
<1>3. ASSUME NEW m \in Mutations, Check(m) PROVE TablesShaped' /\ TablesAgree'
  <2> DEFINE x == Normalized(calls[m].payload)
             p == IF Valid(x) /\ Unique(x, calls[m].id) /\ (m = "create" \/ calls[m].id \in Present)
                  THEN "checked" ELSE "refused"
  <2>1. /\ calls' = [calls EXCEPT ![m].phase = p, ![m].payload = x]
        /\ p = "checked" => m = "create" \/ calls[m].id \in Present
        /\ p # "done" /\ m \in {"create", "update", "toggle"}
    BY <1>3 DEF Check
  <2> HIDE DEF x, p
  <2>2. UNCHANGED <<rows, stored, born, overlapped>>
    BY <1>3 DEF Check, profileTables
  <2>3. /\ \A n \in Mutations \ {m} : calls'[n] = calls[n]
        /\ calls'[m].phase = p /\ calls'[m].id = calls[m].id
    BY <1>1, <2>1, PhaseAndPayloadSet
  <2>4. calls[m].id \in Present => calls[m].id \in Ids /\ calls[m].id <= born
    BY <1>1 DEF Present, TablesAgree
  <2>5. calls'["snapshot"] = calls["snapshot"]
    BY <2>1, <2>3 DEF Mutations
  <2>6. \A n \in {"update", "toggle", "snapshot"} :
          calls'[n].phase = "checked" => calls'[n].id \in Ids /\ calls'[n].id <= born
    <3> SUFFICES ASSUME NEW n \in {"update", "toggle", "snapshot"}, calls'[n].phase = "checked"
                 PROVE  calls'[n].id \in Ids /\ calls'[n].id <= born
      OBVIOUS
    <3>1. CASE n = m
      BY <2>1, <2>3, <2>4, <3>1
    <3>2. CASE n # m
      <4>1. n \in Mutations \ {m}
        BY <3>2 DEF Mutations
      <4> QED
        BY <1>1, <2>3, <4>1 DEF TablesAgree
    <3> QED
      BY <3>1, <3>2
  <2>7. calls'["create"].phase = "done" => calls'["create"].id \in Ids
    BY <1>1, <2>1, <2>3 DEF TablesAgree, Mutations
  <2>8. QED
    BY <1>1, <2>2, <2>5, <2>6, <2>7 DEF TablesAgree, TablesShaped, SnapshotCurrent
<1>4. CASE CreateProfile
  <2> DEFINE n == born + 1
  <2>1. born \in Ids /\ n \in Ids /\ born' = n /\ UNCHANGED <<stored, overlapped>>
    <3>1. born \in Ids /\ born < ProfileCount
      BY <1>1, <1>4 DEF CreateProfile, TablesShaped
    <3>2. QED
      BY <1>4, <3>1, NextId DEF CreateProfile
  <2>2. rows' = [rows EXCEPT ![n] = <<calls["create"].payload>>]
    BY <1>4 DEF CreateProfile
  <2>3. \A i \in Ids : i <= born => i <= n /\ i # n
    BY <2>1 DEF Ids
  <2>4. n <= n
    BY <2>1 DEF Ids
  <2>5. /\ calls' = [calls EXCEPT !["create"].phase = "done", !["create"].id = n]
        /\ "create" \in Mutations /\ DOMAIN calls["create"] = CallFields
    BY <1>1, <1>4 DEF CreateProfile, CallsShaped, Mutations
  <2> HIDE DEF n
  <2>6. calls'["create"].id = n /\ \A m \in Mutations \ {"create"} : calls'[m] = calls[m]
    BY <1>1, <2>5 DEF CallsShaped, CallFields
  <2>7. \A m \in {"update", "toggle", "snapshot"} : calls'[m] = calls[m]
    BY <2>6 DEF Mutations
  <2>8. TablesShaped'
    BY <1>1, <2>1, <2>2 DEF TablesShaped
  <2>9. /\ rows'[n] = <<calls["create"].payload>> /\ rows'[n] = <<rows'[n][1]>>
        /\ \A i \in Ids \ {n} : rows'[i] = rows[i]
    BY <1>1, <2>1, <2>2 DEF TablesShaped
  <2>10. ~(n <= born)
    <3>1. ~(born + 1 <= born)
      BY <2>1 DEF Ids
    <3>2. QED
      BY <3>1 DEF n
  <2>11. stored[n] = <<>>
    BY <1>1, <2>1, <2>10 DEF TablesAgree
  <2>12. \A i \in Ids : rows'[i] # <<>> => i <= n /\ rows'[i] = <<rows'[i][1]>>
    BY <1>1, <2>3, <2>4, <2>9 DEF TablesAgree
  <2>13. \A i \in Ids : stored[i] # <<>> => i <= n
    BY <1>1, <2>3 DEF TablesAgree
  <2>14. \A m \in {"update", "toggle", "snapshot"} :
           calls'[m].phase = "checked" => calls'[m].id \in Ids /\ calls'[m].id <= n
    BY <1>1, <2>3, <2>7 DEF TablesAgree
  <2>15. calls'["snapshot"].phase = "checked" /\ calls'["snapshot"].id \notin overlapped =>
           rows'[calls'["snapshot"].id] = <<calls'["snapshot"].payload>>
    <3>1. calls["snapshot"].phase = "checked" =>
            calls["snapshot"].id \in Ids /\ calls["snapshot"].id # n
      BY <1>1, <2>3 DEF TablesAgree
    <3>2. QED
      BY <1>1, <2>7, <2>9, <3>1 DEF TablesAgree
  <2>16. SnapshotCurrent'
    BY <1>1, <2>1, <2>9, <2>11 DEF TablesAgree, SnapshotCurrent
  <2>17. QED
    BY <2>1, <2>6, <2>8, <2>12, <2>13, <2>14, <2>15, <2>16 DEF TablesAgree
<1>5. ASSUME NEW m \in Mutations, UpdateProfile(m) PROVE TablesShaped' /\ TablesAgree'
  <2> DEFINE i == calls[m].id
  <2>1. i \in Ids /\ i <= born /\ m \in {"update", "toggle"} /\ calls[m].phase = "checked"
    BY <1>1, <1>5 DEF UpdateProfile, TablesAgree
  <2>2. /\ rows' = [rows EXCEPT ![i] = <<calls[m].payload>>]
        /\ stored' = [stored EXCEPT ![i] = <<>>] /\ born' = born
        /\ Phase(m, "done")
    BY <1>5 DEF UpdateProfile
  <2>3. \/ calls["snapshot"].phase = "checked" /\ calls["snapshot"].id = i
             /\ overlapped' = overlapped \union {i}
        \/ ~(calls["snapshot"].phase = "checked" /\ calls["snapshot"].id = i)
             /\ overlapped' = overlapped \ {i}
    BY <1>5 DEF UpdateProfile
  <2>4. /\ \A k \in Mutations \ {m} : calls'[k] = calls[k]
        /\ calls'[m].phase = "done"
    BY <1>1, <2>2, PhaseSet
  <2> HIDE DEF i
  <2>5. TablesShaped' /\ rows'[i] = <<calls[m].payload>> /\ rows'[i] = <<rows'[i][1]>>
        /\ stored'[i] = <<>> /\ \A k \in Ids \ {i} : rows'[k] = rows[k] /\ stored'[k] = stored[k]
    BY <1>1, <2>1, <2>2 DEF TablesShaped
  <2>6. calls'["snapshot"] = calls["snapshot"] /\ calls'["create"] = calls["create"]
    BY <2>1, <2>4 DEF Mutations
  <2>7. \A k \in {"update", "toggle", "snapshot"} :
          calls'[k].phase = "checked" => calls'[k].id \in Ids /\ calls'[k].id <= born
    BY <1>1, <2>1, <2>4 DEF TablesAgree, Mutations
  <2>8. /\ \A k \in Ids : rows'[k] # <<>> => k <= born /\ rows'[k] = <<rows'[k][1]>>
        /\ \A k \in Ids : stored'[k] # <<>> => k <= born
    BY <1>1, <2>1, <2>5 DEF TablesAgree
  <2>9. calls'["snapshot"].phase = "checked" /\ calls'["snapshot"].id \notin overlapped' =>
          rows'[calls'["snapshot"].id] = <<calls'["snapshot"].payload>>
    BY <1>1, <2>3, <2>5, <2>6 DEF TablesAgree
  <2>10. SnapshotCurrent'
    BY <1>1, <2>3, <2>5 DEF TablesAgree, SnapshotCurrent
  <2>11. QED
    BY <1>1, <2>2, <2>5, <2>6, <2>7, <2>8, <2>9, <2>10 DEF TablesAgree
<1>6. CASE DeleteProfile
  <2> DEFINE i == calls["delete"].id
  <2>1. /\ rows' = [rows EXCEPT ![i] = <<>>] /\ stored' = [stored EXCEPT ![i] = <<>>]
        /\ born' = born /\ Phase("delete", "done")
        /\ \/ calls["snapshot"].phase = "checked" /\ calls["snapshot"].id = i
                /\ overlapped' = overlapped \union {i}
           \/ ~(calls["snapshot"].phase = "checked" /\ calls["snapshot"].id = i)
                /\ overlapped' = overlapped
    BY <1>6 DEF DeleteProfile
  <2>2. "delete" \in Mutations
    BY DEF Mutations
  <2>3. \A k \in Mutations \ {"delete"} : calls'[k] = calls[k]
    BY <1>1, <2>1, <2>2, PhaseSet
  <2> HIDE DEF i
  <2>4. \A k \in {"create", "update", "toggle", "snapshot"} : calls'[k] = calls[k]
    BY <2>3 DEF Mutations
  <2>5. /\ TablesShaped'
        /\ i \in Ids => rows'[i] = <<>> /\ stored'[i] = <<>>
        /\ \A k \in Ids \ {i} : rows'[k] = rows[k] /\ stored'[k] = stored[k]
    BY <1>1, <2>1 DEF TablesShaped
  <2>6. /\ \A k \in Ids : rows'[k] # <<>> => k <= born /\ rows'[k] = <<rows'[k][1]>>
        /\ \A k \in Ids : stored'[k] # <<>> => k <= born
    BY <1>1, <2>5 DEF TablesAgree
  <2>7. calls'["snapshot"].phase = "checked" /\ calls'["snapshot"].id \notin overlapped' =>
          rows'[calls'["snapshot"].id] = <<calls'["snapshot"].payload>>
    BY <1>1, <2>1, <2>4, <2>5 DEF TablesAgree
  <2>8. SnapshotCurrent'
    BY <1>1, <2>1, <2>5 DEF TablesAgree, SnapshotCurrent
  <2>9. QED
    BY <1>1, <2>1, <2>4, <2>5, <2>6, <2>7, <2>8 DEF TablesAgree
<1>7. CASE RenderSaved
  <2> DEFINE i == calls["snapshot"].id
             p == IF i \in Present THEN "checked" ELSE "refused"
             x == IF i \in Present THEN rows[i][1] ELSE calls["snapshot"].payload
  <2>0. calls' = [calls EXCEPT !["snapshot"].phase = p, !["snapshot"].payload = x]
    BY <1>7 DEF RenderSaved
  <2>1. p = "checked" => i \in Present /\ x = rows[i][1]
    OBVIOUS
  <2>2. "snapshot" \in Mutations /\ UNCHANGED <<rows, stored, born, overlapped>>
    BY <1>7 DEF RenderSaved, Mutations, profileTables
  <2> HIDE DEF p, x
  <2>3. /\ \A k \in Mutations \ {"snapshot"} : calls'[k] = calls[k]
        /\ calls'["snapshot"].phase = p /\ calls'["snapshot"].id = i
        /\ calls'["snapshot"].payload = x
    <3>1. CallsShaped
      BY <1>1
    <3>2. SUFFICES ASSUME NEW m, m = "snapshot"
                   PROVE  /\ \A k \in Mutations \ {m} : calls'[k] = calls[k]
                          /\ calls'[m].phase = p /\ calls'[m].id = calls[m].id
                          /\ calls'[m].payload = x
      OBVIOUS
    <3>3. m \in Mutations /\ calls' = [calls EXCEPT ![m].phase = p, ![m].payload = x]
      BY <2>0, <2>2, <3>2
    <3>4. QED
      BY <3>1, <3>3 DEF CallsShaped, CallFields
  <2> HIDE DEF i
  <2>4. \A k \in {"create", "update", "toggle"} : calls'[k] = calls[k]
    BY <2>3 DEF Mutations
  <2>5. p = "checked" => i \in Ids /\ i <= born /\ rows[i] = <<x>>
    BY <1>1, <2>1 DEF Present, TablesAgree
  <2>6. QED
    BY <1>1, <2>2, <2>3, <2>4, <2>5 DEF TablesAgree, TablesShaped, SnapshotCurrent
<1>8. CASE StoreSnapshot
  <2> DEFINE i == calls["snapshot"].id
             x == calls["snapshot"].payload
  <2>1. i \in Ids /\ i <= born /\ (i \notin overlapped => rows[i] = <<x>>)
    BY <1>1, <1>8 DEF StoreSnapshot, TablesAgree
  <2>2. /\ stored' = [stored EXCEPT ![i] = IF stored[i] = <<>> THEN <<x>> ELSE stored[i]]
        /\ Phase("snapshot", "done") /\ UNCHANGED <<rows, born, overlapped>>
    BY <1>8 DEF StoreSnapshot
  <2>3. "snapshot" \in Mutations
    BY DEF Mutations
  <2>4. /\ \A k \in Mutations \ {"snapshot"} : calls'[k] = calls[k]
        /\ calls'["snapshot"].phase = "done"
    BY <1>1, <2>2, <2>3, PhaseSet
  <2> HIDE DEF i, x
  <2>5. \A k \in {"create", "update", "toggle"} : calls'[k] = calls[k]
    BY <2>4 DEF Mutations
  <2>6. /\ TablesShaped' /\ \A k \in Ids \ {i} : stored'[k] = stored[k]
        /\ stored'[i] = stored[i] \/ stored'[i] = <<x>>
    BY <1>1, <2>1, <2>2 DEF TablesShaped
  <2>7. \A k \in Ids : stored'[k] # <<>> => k <= born
    BY <1>1, <2>1, <2>6 DEF TablesAgree
  <2>8. SnapshotCurrent'
    BY <1>1, <2>1, <2>2, <2>6 DEF TablesAgree, SnapshotCurrent
  <2>9. QED
    BY <1>1, <2>2, <2>4, <2>5, <2>6, <2>7, <2>8 DEF TablesAgree
<1>9. QED
  BY <1>2, <1>3, <1>4, <1>5, <1>6, <1>7, <1>8, NextCalls DEF ServerSteps

\* Showing a profile fills the form from it, unless its detail is missing.
LEMMA ProfileShown ==
  ASSUME DetailsShaped, NEW i \in Ids, NEW d, NEW f, NEW source, Show(i, details, d, f, source)
  PROVE  /\ DetailsShaped' /\ selectedId' = i
         /\ filledBy' = i \/ details'[i].data = <<>>
<1>1. DetailsShaped' /\ details'[i].data = details[i].data
  <2>1. CASE details' = details
    BY <2>1 DEF DetailsShaped
  <2>2. CASE details' = [details EXCEPT ![i] = Fetch(details[i])]
    <3>1. details'[i] = Fetch(details[i]) /\ DOMAIN details' = Ids
          /\ \A j \in Ids \ {i} : details'[j] = details[j]
      BY <2>2 DEF DetailsShaped
    <3>2. DOMAIN Fetch(details[i]) = AnswerFields /\ Fetch(details[i]).data = details[i].data
      BY DetailChanged DEF DetailsShaped
    <3>3. QED
      BY <3>1, <3>2 DEF DetailsShaped
  <2>3. QED
    BY <2>1, <2>2 DEF Show
<1>2. QED
  BY <1>1 DEF Show, Fill

LEMMA ListSettled ==
  ASSUME DetailsShaped, NEW list, NEW d, NEW f, NEW source, Settle(list, d, f, source)
  PROVE  /\ DetailsShaped'
         /\ \/ selectedId' = 0
            \/ selectedId' \in Ids /\ (filledBy' = selectedId' \/ details'[selectedId'].data = <<>>)
<1>1. CASE UNCHANGED details /\ selectedId' = 0
  BY <1>1 DEF DetailsShaped
<1>2. CASE \E i \in Ids : Show(i, details, d, f, source)
  BY <1>2, ProfileShown
<1>3. QED
  BY <1>1, <1>2 DEF Settle

\* What an answer invalidates keeps its data.
LEMMA DetailDropped ==
  ASSUME DetailsShaped, NEW i, InvalidateDetail(i)
  PROVE  DetailsShaped' /\ \A j \in Ids : details'[j].data = details[j].data
<1>1. CASE details' = details
  BY <1>1 DEF DetailsShaped
<1>2. CASE details' = [details EXCEPT ![i] = Invalidated(details[i])] /\ i \in Ids
  <2>1. details'[i] = Invalidated(details[i]) /\ DOMAIN details' = Ids
        /\ \A j \in Ids \ {i} : details'[j] = details[j]
    BY <1>2 DEF DetailsShaped
  <2>2. /\ DOMAIN Invalidated(details[i]) = AnswerFields
        /\ Invalidated(details[i]).data = details[i].data
    BY <1>2, DetailChanged DEF DetailsShaped
  <2>3. QED
    BY <2>1, <2>2 DEF DetailsShaped
<1>3. CASE i \notin Ids
  BY <1>3 DEF InvalidateDetail, DetailsShaped
<1>4. QED
  BY <1>1, <1>2, <1>3 DEF InvalidateDetail

\* The selection and the profile that filled the form.
FormSelected ==
  /\ selectedId \in Ids \union {0}
  /\ ~creating /\ selectedId # 0 =>
       filledBy \in {0, selectedId} \/ details[selectedId].data = <<>>

LEMMA NextSelected ==
  ASSUME WorkspaceInv, WorkspaceNext PROVE DetailsShaped' /\ FormSelected'
<1>1. DetailsShaped /\ FormSelected /\ TablesAgree
  BY DEF WorkspaceInv, FormFilled, FormSelected
<1> DEFINE Chosen == UNCHANGED <<selectedId, creating, filledBy>>
           Good == DetailsShaped' /\ FormSelected'
<1>2. ASSUME Chosen, DetailsShaped', \A j \in Ids : details'[j].data = details[j].data PROVE Good
  BY <1>1, <1>2 DEF FormSelected
<1>3. CASE Chosen /\ UNCHANGED details
  BY <1>1, <1>3 DEF FormSelected, DetailsShaped
<1>4. CASE ListAnswer
  <2>1. CASE UNCHANGED <<selectedId, filledBy, details>> /\ UNCHANGED creating
    BY <1>3, <2>1
  <2>2. CASE Settle(profileList', draft, fragment, filledBy)
    BY <1>1, <2>2, ListSettled DEF FormSelected
  <2>3. QED
    BY <1>4, <2>1, <2>2 DEF ListAnswer
<1>5. ASSUME NEW i \in Ids, DetailRead(i) PROVE Good
  <2>1. PICK q : /\ details' = [details EXCEPT ![i] = q]
                 /\ \/ q = Failed(details[i]) \/ \E d : q = Read(details[i], d)
    BY <1>5 DEF DetailRead
  <2>2. DOMAIN q = AnswerFields /\ q.data = details[i].data
    BY <1>1, <2>1, DetailChanged DEF DetailsShaped
  <2>3. DetailsShaped' /\ \A j \in Ids : details'[j].data = details[j].data
    BY <1>1, <2>1, <2>2 DEF DetailsShaped
  <2>4. Chosen
    BY <1>5 DEF DetailRead, form
  <2>5. QED
    BY <1>2, <2>3, <2>4
<1>6. ASSUME NEW i \in Ids, DetailAnswer(i) PROVE Good
  <2>1. details' = [details EXCEPT ![i] = Answered(details[i])] /\ UNCHANGED <<selectedId, creating>>
    BY <1>6 DEF DetailAnswer
  <2>2. DOMAIN Answered(details[i]) = AnswerFields /\ Answered(details[i]).data = details[i].answer
    BY <1>1, DetailChanged DEF DetailsShaped
  <2>3. /\ DetailsShaped' /\ details'[i].data = details[i].answer
        /\ \A j \in Ids \ {i} : details'[j].data = details[j].data
    BY <1>1, <2>1, <2>2 DEF DetailsShaped
  <2>4. CASE i = selectedId /\ details[i].answer # details[i].data
    <3>1. filledBy' = i
      BY <1>6, <2>4 DEF DetailAnswer, Fill
    <3>2. QED
      BY <1>1, <2>1, <2>3, <2>4, <3>1 DEF FormSelected
  <2>5. CASE ~(i = selectedId /\ details[i].answer # details[i].data)
    <3>1. filledBy' = filledBy
      BY <1>6, <2>5 DEF DetailAnswer
    <3>2. selectedId \in Ids => details'[selectedId].data = details[selectedId].data
      BY <2>3, <2>5
    <3>3. QED
      BY <1>1, <2>1, <2>3, <3>1, <3>2 DEF FormSelected
  <2>6. QED
    BY <2>4, <2>5
<1>7. ASSUME NEW i \in Ids, Select(i) PROVE Good
  BY <1>1, <1>7, ProfileShown DEF Select, FormSelected
<1>8. ASSUME NEW d, StartNew(d) PROVE Good
  BY <1>1, <1>8 DEF StartNew, FormSelected, DetailsShaped
<1>9. CASE CreateAnswer
  <2>1. PICK i \in Ids : Show(i, details, draft, fragment, i)
    BY <1>1, <1>9 DEF CreateAnswer, TablesAgree
  <2>2. selectedId' \in Ids /\ DetailsShaped' /\ (filledBy' = selectedId' \/ details'[selectedId'].data = <<>>)
    BY <1>1, <2>1, ProfileShown
  <2>3. QED
    BY <2>2 DEF FormSelected
<1>10. CASE DeleteAnswer
  <2>1. CASE Settle(profileList, defaultPayload, <<>>, 0)
    BY <1>1, <2>1, ListSettled DEF FormSelected
  <2>2. CASE filledBy' = 0 /\ UNCHANGED <<selectedId, details>>
    BY <1>1, <2>2 DEF FormSelected, DetailsShaped
  <2>3. QED
    BY <1>10, <2>1, <2>2 DEF DeleteAnswer
<1>11. CASE ToggleAnswer \/ \E m \in Mutations : SavedAnswer(m)
  <2>1. Chosen
    BY <1>11 DEF ToggleAnswer, SavedAnswer, form
  <2>2. \E i : InvalidateDetail(i)
    BY <1>11 DEF ToggleAnswer, SavedAnswer
  <2>3. QED
    BY <1>1, <1>2, <2>1, <2>2, DetailDropped
<1>12. \/ Chosen /\ UNCHANGED details
       \/ ListAnswer \/ CreateAnswer \/ DeleteAnswer \/ ToggleAnswer
       \/ \E i \in Ids : DetailRead(i) \/ DetailAnswer(i) \/ Select(i)
       \/ \E d : StartNew(d)
       \/ \E m \in Mutations : SavedAnswer(m)
  BY Zenon
     DEF WorkspaceNext, ListRead, TemplatesRead, Age, handleCreateNew, applyTemplate, EditName,
         EditPorts, UseMixed, EditSettings, NodePicker, handleToggleNode, Edit, FormOnly, ClickForm,
         SnapshotCard, ClickToggle, ClickTemplates, Call, CreateProfile, DeleteProfile,
         PreviewPortProfile, RenderSaved, StoreSnapshot, SavePortProfileTemplate,
         DeletePortProfileTemplate, PreviewAnswer, Check, UpdateProfile, Lost, TemplateAnswer,
         CallRefused, Served, caches, form
<1>13. QED
  BY <1>3, <1>4, <1>5, <1>6, <1>7, <1>8, <1>9, <1>10, <1>11, <1>12

LEMMA NextOwnSave ==
  ASSUME WorkspaceAssumption, WorkspaceInv, WorkspaceNext PROVE SavesItsOwn'
<1>1. CASE UpdateKept
  BY <1>1 DEF UpdateKept, SavesItsOwn, WorkspaceInv, FormFilled
<1>2. CASE Editing /\ Call("update", selectedId, draft)
  <2> DEFINE c == [phase |-> "sent", id |-> selectedId, payload |-> draft,
                   source |-> IF "update" = "update" THEN filledBy ELSE 0,
                   early |-> "update" = "update" /\ details[selectedId].data = <<>>]
  <2>1. calls' = [calls EXCEPT !["update"] = c] /\ ~creating /\ selectedId # 0
    BY <1>2 DEF Call, Editing
  <2>2. c.source = filledBy /\ c.id = selectedId
        /\ (c.early <=> details[selectedId].data = <<>>)
    OBVIOUS
  <2> HIDE DEF c
  <2>3. calls'["update"] = c
    BY <2>1 DEF WorkspaceInv, CallsShaped, Mutations
  <2>4. QED
    BY <2>1, <2>2, <2>3 DEF WorkspaceInv, FormFilled, SavesItsOwn
<1>3. QED
  BY <1>1, <1>2, NextCalls

LEMMA NextWorkspace ==
  ASSUME WorkspaceAssumption PROVE WorkspaceInv /\ [WorkspaceNext]_workspaceVars => WorkspaceInv'
<1> SUFFICES ASSUME WorkspaceInv, [WorkspaceNext]_workspaceVars PROVE WorkspaceInv'
  OBVIOUS
<1>1. CASE WorkspaceNext
  BY <1>1, NextCalls, NextTables, NextSelected, NextOwnSave
     DEF WorkspaceInv, FormFilled, FormSelected
<1>2. CASE UNCHANGED workspaceVars
  <2>1. UNCHANGED <<rows, stored, born, details, selectedId, creating, filledBy, calls, overlapped>>
    BY <1>2 DEF workspaceVars, profileTables, caches, form
  <2>2. QED
    BY <2>1 DEF WorkspaceInv, CallsShaped, DetailsShaped, TablesShaped, TablesAgree, FormFilled,
                SnapshotCurrent, SavesItsOwn
<1>3. QED
  BY <1>1, <1>2

\* A stored snapshot is what its profile renders to now, except where a save of the snapshot
\* and a change of the profile overlapped, for any profiles and clicks (port_profile.go:95-131,
\* 205-223).
THEOREM SnapshotAlwaysCurrent ==
  ASSUME WorkspaceAssumption PROVE WorkspaceSpec => []SnapshotCurrent
<1>1. WorkspaceInv => SnapshotCurrent
  BY DEF WorkspaceInv, TablesAgree
<1>2. QED
  BY InitWorkspace, NextWorkspace, <1>1, PTL DEF WorkspaceSpec

\* A profile is never saved with the draft that another profile's detail filled in, unless its
\* own detail had not arrived when the operator saved (workspace-page.tsx:177-204, 219-229).
THEOREM ProfileAlwaysSavesItsOwn ==
  ASSUME WorkspaceAssumption PROVE WorkspaceSpec => []SavesItsOwn
<1>1. WorkspaceInv => SavesItsOwn
  BY DEF WorkspaceInv, FormFilled
<1>2. QED
  BY InitWorkspace, NextWorkspace, <1>1, PTL DEF WorkspaceSpec

-----------------------------------------------------------------------------
(* The nodes. *)

Works == [phase : {"idle", "sent", "testing", "done", "refused", "refreshing"},
          ids : SUBSET Nodes, left : SUBSET Nodes]

NodeTablesTyped ==
  node \in [Nodes -> {"unborn", "alive", "deleted"}] /\ tested \subseteq Nodes /\ gone \subseteq Nodes
NodeListsTyped ==
  /\ OnScreen \in Lists /\ DOMAIN lists = Lists
  /\ \A l \in Lists : IsQueryOf(lists[l], SUBSET Nodes)
  /\ stale \subseteq Lists /\ overtaken \subseteq Lists
NodeClicksTyped ==
  selected \subseteq Nodes /\ nodeAuto \in BOOLEAN /\ moves \in 0 .. MaxNodeMoves
NodesTyped ==
  NodeTablesTyped /\ NodeListsTyped /\ NodeClicksTyped /\ work \in [WorkKinds -> Works]

\* What the page counts as deleted is deleted, and a deletion has deleted what it left behind.
DeletionsHold ==
  /\ \A n \in gone : node[n] = "deleted"
  /\ \A k \in {"delete", "batch"} : \A n \in work[k].ids :
       \/ node[n] = "deleted"
       \/ n \in work[k].left /\ work[k].phase = "sent"
       \/ work[k].phase \notin {"sent", "done"}

\* A list, if there is one, without any node that is gone.
Without(list, nodes) == list = <<>> \/ list[1] \intersect nodes = {}

\* An answer the server has read is without them, unless the list was overtaken; and so is what
\* a list shows, unless it is on its way to be replaced, or will be as soon as it is shown.
AnswersWithout ==
  \A l \in Lists : lists[l].phase = "read" => Without(lists[l].answer, gone) \/ l \in overtaken
ListsWithout ==
  \A l \in Lists :
    \/ Without(lists[l].data, gone) \/ l \in overtaken
    \/ lists[l].failed \/ lists[l].phase # "idle" \/ (l # OnScreen /\ l \in stale)

\* A node under test exists, until it is deleted; what a test leaves behind is stored.
TestsHold ==
  \A k \in Tests : work[k].phase \in {"testing", "done", "refreshing"} =>
    \A n \in work[k].ids :
      \/ n \in work[k].left /\ work[k].phase = "testing" /\ node[n] # "unborn"
      \/ n \in tested \/ node[n] = "deleted"

NodesInv == NodesTyped /\ DeletionsHold /\ AnswersWithout /\ ListsWithout /\ TestsHold

LEMMA InitNodes == ASSUME NodesPageAssumption PROVE NodesInit => NodesInv
<1> SUFFICES ASSUME NodesInit PROVE NodesInv
  OBVIOUS
<1>1. OnScreen \in Lists
  BY DEF NodesInit, OnScreen, Lists, NodeFilters, NodesPageAssumption
<1>2. NodeListsTyped
  BY <1>1, QueryBegins DEF NodesInit, NodeListsTyped
<1>3. NoWork \in Works /\ NoWork.phase = "idle" /\ NoWork.ids = {}
  BY DEF NoWork, Works
<1>4. work \in [WorkKinds -> Works] /\ \A k \in WorkKinds : work[k] = NoWork
  BY <1>3 DEF NodesInit
<1>5. NodeTablesTyped /\ NodeClicksTyped
  <2>1. node \in [Nodes -> {"unborn", "alive"}] /\ tested = {} /\ gone = {}
    BY DEF NodesInit
  <2>2. 0 \in 0 .. MaxNodeMoves
    BY DEF NodesPageAssumption
  <2>3. NodeTablesTyped
    BY <2>1 DEF NodeTablesTyped
  <2>4. QED
    BY <2>2, <2>3 DEF NodesInit, NodeClicksTyped
<1>6. DeletionsHold
  BY <1>3, <1>4 DEF NodesInit, DeletionsHold, WorkKinds
<1>7. TestsHold
  BY <1>3, <1>4 DEF TestsHold, WorkKinds
<1>8. AnswersWithout /\ ListsWithout
  BY QueryBegins DEF NodesInit, AnswersWithout, ListsWithout, Without
<1>9. QED
  BY <1>2, <1>4, <1>5, <1>6, <1>7, <1>8 DEF NodesInv, NodesTyped

\* What the queries have and list.
LEMMA ShownNodes == ASSUME NodeListsTyped PROVE Shown \subseteq Nodes
<1>1. IsQueryOf(lists[OnScreen], SUBSET Nodes)
  BY DEF NodeListsTyped
<1>2. lists[OnScreen].data # <<>> => lists[OnScreen].data[1] \in SUBSET Nodes
  BY <1>1, QueryFields, Present1
<1>3. QED
  BY <1>2 DEF Shown

LEMMA ListedLive == ASSUME NEW l PROVE NodesListed(l) \subseteq Living /\ Living \subseteq Nodes
BY DEF NodesListed, Matching, Living

\* A list changes on its own, to something that keeps the invariant.
LEMMA OneList ==
  ASSUME NodesInv, NEW l \in Lists, NEW q, lists' = [lists EXCEPT ![l] = q],
         IsQueryOf(q, SUBSET Nodes), UNCHANGED <<page, filter, gone>>,
         stale' \subseteq Lists, overtaken' \subseteq Lists,
         stale \ {l} \subseteq stale', overtaken \ {l} \subseteq overtaken',
         q.phase = "read" => Without(q.answer, gone) \/ l \in overtaken',
         \/ Without(q.data, gone) \/ l \in overtaken'
         \/ q.failed \/ q.phase # "idle" \/ (l # OnScreen /\ l \in stale')
  PROVE  NodeListsTyped' /\ AnswersWithout' /\ ListsWithout'
<1>1. DOMAIN lists = Lists /\ OnScreen \in Lists /\ OnScreen' = OnScreen
  BY DEF NodesInv, NodesTyped, NodeListsTyped, OnScreen
<1>2. DOMAIN lists' = Lists /\ lists'[l] = q /\ \A k \in Lists \ {l} : lists'[k] = lists[k]
  BY <1>1
<1>3. Lists' = Lists
  BY DEF Lists
<1>4. NodeListsTyped'
  BY <1>1, <1>2, <1>3 DEF NodesInv, NodesTyped, NodeListsTyped
<1>5. AnswersWithout'
  <2> SUFFICES ASSUME NEW k \in Lists, lists'[k].phase = "read"
               PROVE  Without(lists'[k].answer, gone) \/ k \in overtaken'
    BY DEF AnswersWithout, Without
  <2>1. QED
    BY <1>2 DEF NodesInv, AnswersWithout
<1>6. ListsWithout'
  <2> SUFFICES ASSUME NEW k \in Lists
               PROVE  \/ Without(lists'[k].data, gone) \/ k \in overtaken'
                      \/ lists'[k].failed \/ lists'[k].phase # "idle" \/ (k # OnScreen /\ k \in stale')
    BY <1>1 DEF ListsWithout, Without
  <2>1. QED
    BY <1>2 DEF NodesInv, ListsWithout
<1>7. QED
  BY <1>4, <1>5, <1>6

\* All lists are invalidated: what more is gone then is nowhere at rest.
LEMMA EveryListDropped ==
  ASSUME NodesInv, NEW l \in Lists, InvalidateLists(l), OnScreen' = l
  PROVE  NodeListsTyped' /\ AnswersWithout' /\ ListsWithout'
<1>1. DOMAIN lists = Lists /\ IsQueryOf(lists[l], SUBSET Nodes) /\ overtaken \subseteq Lists
  BY DEF NodesInv, NodesTyped, NodeListsTyped
<1> DEFINE q == Invalidated(lists[l])
<1>2. /\ IsQueryOf(q, SUBSET Nodes) /\ q.phase # "idle"
      /\ q.phase = "read" => lists[l].phase = "read" /\ lists[l].data = <<>>
  BY <1>1, QueryInvalidated
<1>3. stale' = Lists /\ lists' = [lists EXCEPT ![l] = q]
  BY DEF InvalidateLists
<1>4. overtaken' = overtaken \union
        {k \in Lists : lists[k].phase = "read" /\ (k # l \/ Loading(lists[k]))}
  BY DEF InvalidateLists
<1> HIDE DEF q
<1>5. DOMAIN lists' = Lists /\ lists'[l] = q /\ \A k \in Lists \ {l} : lists'[k] = lists[k]
  BY <1>1, <1>3
<1>6. Lists' = Lists
  BY DEF Lists
<1>7. NodeListsTyped'
  BY <1>1, <1>2, <1>3, <1>4, <1>5, <1>6 DEF NodesInv, NodesTyped, NodeListsTyped
<1>8. AnswersWithout'
  <2> SUFFICES ASSUME NEW k \in Lists, lists'[k].phase = "read" PROVE k \in overtaken'
    BY DEF AnswersWithout
  <2>1. CASE k = l
    <3>1. Loading(lists[l]) /\ lists[l].phase = "read"
      BY <1>2, <1>5, <2>1 DEF Loading, Fetching
    <3>2. QED
      BY <1>4, <2>1, <3>1
  <2>2. CASE k # l
    BY <1>4, <1>5, <2>2
  <2>3. QED
    BY <2>1, <2>2
<1>9. ListsWithout'
  BY <1>2, <1>3, <1>5, <1>6 DEF ListsWithout
<1>10. QED
  BY <1>7, <1>8, <1>9

\* Another list is shown: one that is stale is asked for.
LEMMA OtherList ==
  ASSUME NodesInv, NEW l \in Lists, ShowList(l), UNCHANGED <<stale, overtaken, gone>>
  PROVE  NodeListsTyped' /\ AnswersWithout' /\ ListsWithout'
<1>1. DOMAIN lists = Lists /\ IsQueryOf(lists[l], SUBSET Nodes)
  BY DEF NodesInv, NodesTyped, NodeListsTyped
<1>2. OnScreen' = l /\ Lists' = Lists
  BY DEF ShowList, OnScreen, Lists
<1> DEFINE q == IF lists[l].data = <<>> \/ l \in stale THEN Fetch(lists[l]) ELSE lists[l]
<1>3. lists' = [lists EXCEPT ![l] = q]
  BY DEF ShowList
<1>4. /\ IsQueryOf(q, SUBSET Nodes) /\ q.data = lists[l].data /\ q.failed = lists[l].failed
      /\ q.answer = lists[l].answer /\ (q.phase = "read" <=> lists[l].phase = "read")
      /\ lists[l].phase # "idle" => q.phase # "idle"
      /\ l \in stale => q.phase # "idle"
  BY <1>1, QueryFetched
<1> HIDE DEF q
<1>5. DOMAIN lists' = Lists /\ lists'[l] = q /\ \A k \in Lists \ {l} : lists'[k] = lists[k]
  BY <1>1, <1>3
<1>6. NodeListsTyped'
  BY <1>2, <1>4, <1>5 DEF NodesInv, NodesTyped, NodeListsTyped
<1>7. AnswersWithout'
  BY <1>2, <1>4, <1>5 DEF NodesInv, AnswersWithout, Without
<1>8. ListsWithout'
  <2> SUFFICES ASSUME NEW k \in Lists
               PROVE  \/ Without(lists'[k].data, gone) \/ k \in overtaken
                      \/ lists'[k].failed \/ lists'[k].phase # "idle" \/ (k # l /\ k \in stale)
    BY <1>2 DEF ListsWithout, Without
  <2>1. QED
    BY <1>4, <1>5 DEF NodesInv, ListsWithout
<1>9. QED
  BY <1>6, <1>7, <1>8

LEMMA NextLists ==
  ASSUME NodesPageAssumption, NodesInv, NodesNext
  PROVE  NodeListsTyped' /\ AnswersWithout' /\ ListsWithout'
<1> DEFINE Good == NodeListsTyped' /\ AnswersWithout' /\ ListsWithout'
<1>1. /\ \A l \in Lists : IsQueryOf(lists[l], SUBSET Nodes)
      /\ stale \subseteq Lists /\ overtaken \subseteq Lists /\ OnScreen \in Lists
      /\ page \in 0 .. NodeCount /\ filter \in NodeFilters /\ NodeCount \in Nat
  BY DEF NodesInv, NodesTyped, NodeListsTyped, OnScreen, Lists, NodesPageAssumption
<1>2. CASE UNCHANGED <<page, filter, lists, stale, overtaken, gone>>
  BY <1>2 DEF NodesInv, NodesTyped, NodeListsTyped, AnswersWithout, ListsWithout, Without, OnScreen,
              Lists
<1>3. CASE Timer
  <2> DEFINE q == Fetch(lists[OnScreen])
  <2>1. /\ lists' = [lists EXCEPT ![OnScreen] = q] /\ lists[OnScreen].phase = "idle"
        /\ UNCHANGED <<page, filter, stale, overtaken, gone>>
    BY <1>3 DEF Timer, Fetching, ListsUnchanged
  <2>2. IsQueryOf(q, SUBSET Nodes) /\ q.phase # "idle" /\ q.phase # "read"
    BY <1>1, <2>1, QueryFetched
  <2> HIDE DEF q
  <2>3. QED
    BY <1>1, <2>1, <2>2, OneList
<1>4. ASSUME NEW l \in Lists, NodesRead(l) PROVE Good
  <2> DEFINE ns == NodesListed(l)
             q == Read(lists[l], ns)
  <2>1. ns \in SUBSET Nodes /\ ns \intersect gone = {}
    BY ListedLive DEF NodesInv, DeletionsHold, Living
  <2>2. /\ lists' = [lists EXCEPT ![l] = q] /\ overtaken' = overtaken \ {l}
        /\ UNCHANGED <<page, filter, stale, gone>>
    BY <1>4 DEF NodesRead, ListsUnchanged
  <2> HIDE DEF ns
  <2>3. /\ IsQueryOf(q, SUBSET Nodes) /\ q.phase = "read" /\ q.answer = <<ns>>
    <3> DEFINE old == lists[l]
               D == SUBSET Nodes
    <3>1. IsQueryOf(old, D) /\ ns \in D
      BY <1>1, <2>1
    <3> HIDE DEF old, D
    <3>2. IsQueryOf(Read(old, ns), D) /\ Read(old, ns).phase = "read" /\ Read(old, ns).answer = <<ns>>
      BY <3>1, QueryReads
    <3>3. QED
      BY <3>2 DEF old, D
  <2> HIDE DEF q
  <2>4. Without(q.answer, gone)
    BY <2>1, <2>3 DEF Without
  <2>5. QED
    BY <1>1, <2>2, <2>3, <2>4, OneList
<1>5. ASSUME NEW l \in Lists, NodesAnswer(l) PROVE Good
  <2> DEFINE q == Answered(lists[l])
  <2>1. /\ lists' = [lists EXCEPT ![l] = q] /\ stale' = stale \ {l} /\ lists[l].phase = "read"
        /\ UNCHANGED <<page, filter, overtaken, gone>>
    BY <1>5 DEF NodesAnswer, ListsUnchanged
  <2>2. IsQueryOf(q, SUBSET Nodes) /\ q.phase = "idle" /\ q.data = lists[l].answer
    BY <1>1, QueryAnswered
  <2> HIDE DEF q
  <2>3. Without(q.data, gone) \/ l \in overtaken
    BY <2>1, <2>2 DEF NodesInv, AnswersWithout
  <2>4. QED
    BY <1>1, <2>1, <2>2, <2>3, OneList
<1>6. ASSUME NEW l \in Lists, ListFails(l) PROVE Good
  <2> DEFINE q == Failed(lists[l])
  <2>1. lists' = [lists EXCEPT ![l] = q] /\ UNCHANGED <<page, filter, stale, overtaken, gone>>
    BY <1>6 DEF ListFails, ListsUnchanged
  <2>2. IsQueryOf(q, SUBSET Nodes) /\ q.phase = "idle" /\ q.failed
    BY <1>1, QueryFailed
  <2> HIDE DEF q
  <2>3. QED
    BY <1>1, <2>1, <2>2, OneList
<1>7. ASSUME NEW l \in Lists, Expire(l) PROVE Good
  <2>1. stale' = stale \union {l} /\ UNCHANGED <<page, filter, lists, overtaken, gone>>
    BY <1>7 DEF Expire, ListsUnchanged
  <2>2. QED
    BY <2>1 DEF NodesInv, NodesTyped, NodeListsTyped, AnswersWithout, ListsWithout, Without, OnScreen,
                Lists
<1>8. ASSUME NEW l \in Lists, NEW chosen, MoveTo(l, chosen) PROVE Good
  BY <1>8, OtherList DEF MoveTo
<1>9. CASE NextPage \/ PreviousPage \/ SetSort \/ Search \/ Reset \/ \E f \in NodeFilters : SetFilter(f)
  <2>1. \E l \in Lists : \E chosen : MoveTo(l, chosen)
    <3>1. \A f \in NodeFilters : <<page, f>> \in Lists /\ <<0, f>> \in Lists
      BY <1>1 DEF Lists
    <3>2. "all" \in NodeFilters
      BY DEF NodeFilters
    <3>3. page < NodeCount => <<page + 1, filter>> \in Lists
      BY <1>1 DEF Lists
    <3>4. page # 0 => <<page - 1, filter>> \in Lists
      BY <1>1 DEF Lists
    <3>5. QED
      BY <1>1, <1>9, <3>1, <3>2, <3>3, <3>4
         DEF NextPage, PreviousPage, SetSort, Search, Reset, SetFilter
  <2>2. QED
    BY <1>8, <2>1
<1>10. ASSUME NEW k, Success(k) PROVE Good
  <2>1. InvalidateLists(OnScreen) /\ OnScreen' = OnScreen
    BY <1>10 DEF Success, OnScreen
  <2>2. QED
    BY <1>1, <2>1, EveryListDropped
<1>11. CASE Imported
  <2>1. <<0, filter>> \in Lists
    BY <1>1 DEF Lists
  <2>2. InvalidateLists(<<0, filter>>) /\ OnScreen' = <<0, filter>>
    BY <1>11 DEF Imported, OnScreen
  <2>3. QED
    BY <2>1, <2>2, EveryListDropped
<1>12. ASSUME \/ \E n \in Nodes : Toggle(n) \/ DeleteCard(n) \/ TestCard(n)
              \/ SelectAll \/ SelectNone \/ ToggleAutoRefresh
              \/ BatchTest \/ BatchDelete \/ SaveTags \/ TestAll \/ UpdateTags
       PROVE  UNCHANGED <<page, filter, lists, stale, overtaken, gone>>
  <2>1. ASSUME SelectAll \/ SelectNone \/ ToggleAutoRefresh \/ \E n \in Nodes : Toggle(n)
        PROVE  UNCHANGED <<page, filter, lists, stale, overtaken, gone>>
    BY <2>1, Zenon DEF Toggle, SelectAll, SelectNone, ToggleAutoRefresh, Choose, browser
  <2>2. ASSUME \/ BatchTest \/ BatchDelete \/ SaveTags \/ TestAll
               \/ \E n \in Nodes : DeleteCard(n) \/ TestCard(n)
        PROVE  \E k, ids : StartWork(k, ids)
    BY <2>2, Zenon DEF DeleteCard, TestCard, BatchTest, BatchDelete, SaveTags, TestAll
  <2>3. ASSUME UpdateTags PROVE UNCHANGED <<page, filter, lists, stale, overtaken, gone>>
    BY <2>3, Zenon DEF UpdateTags, Step, browser
  <2> QED
    BY <1>12, <2>1, <2>2, <2>3, Zenon DEF StartWork, browser
<1>13. ASSUME NEW k \in WorkKinds, DeleteOne(k) \/ FindNodes(k) \/ StoreOne(k) \/ Refreshed(k) \/ Failure(k)
       PROVE  UNCHANGED <<page, filter, lists, stale, overtaken, gone>>
  BY <1>13, Zenon DEF DeleteOne, FindNodes, StoreOne, Refreshed, Failure, Step, browser
<1>14. \/ UNCHANGED <<page, filter, lists, stale, overtaken, gone>>
       \/ Timer \/ \E l \in Lists : NodesRead(l) \/ NodesAnswer(l) \/ ListFails(l) \/ Expire(l)
       \/ NextPage \/ PreviousPage \/ SetSort \/ Search \/ Reset
       \/ (\E f \in NodeFilters : SetFilter(f)) \/ (\E k : Success(k)) \/ Imported
  BY <1>12, <1>13, Zenon DEF NodesNext
<1>15. QED
  BY <1>2, <1>3, <1>4, <1>5, <1>6, <1>7, <1>9, <1>10, <1>11, <1>14

\* The steps of the tables, and what the page counts as gone.
LEMMA WorkSet ==
  ASSUME work \in [WorkKinds -> Works], NEW k \in WorkKinds, NEW w \in Works,
         work' = [work EXCEPT ![k] = w]
  PROVE  /\ work' \in [WorkKinds -> Works] /\ work'[k] = w
         /\ \A j \in WorkKinds \ {k} : work'[j] = work[j]
OBVIOUS

LEMMA WorkSteps ==
  ASSUME work \in [WorkKinds -> Works], NEW k \in WorkKinds,
         NEW p \in {"idle", "sent", "testing", "done", "refused", "refreshing"},
         NEW left \in SUBSET Nodes, Step(k, p, left)
  PROVE  /\ work' \in [WorkKinds -> Works]
         /\ work'[k].phase = p /\ work'[k].left = left /\ work'[k].ids = work[k].ids
         /\ \A j \in WorkKinds \ {k} : work'[j] = work[j]
BY DEF Step, Works

\* Work that is not about a node of the page's choice changes nothing the invariant is about.
WorkKept(k) ==
  /\ work' \in [WorkKinds -> Works] /\ \A j \in WorkKinds \ {k} : work'[j] = work[j]

\* The nodes go one way: they are made, stored about and deleted.
TablesGrow ==
  /\ node' \in [Nodes -> {"unborn", "alive", "deleted"}] /\ tested' \subseteq Nodes
  /\ tested \subseteq tested'
  /\ \A n \in Nodes : /\ node[n] = "deleted" => node'[n] = "deleted"
                      /\ node[n] # "unborn" => node'[n] # "unborn"

LEMMA TablesAlwaysGrow ==
  ASSUME NodesInv, NodesNext PROVE TablesGrow
<1>1. NodeTablesTyped /\ \A k \in WorkKinds : work[k].left \subseteq Nodes
  BY DEF NodesInv, NodesTyped, Works
<1>2. CASE UNCHANGED nodeTables
  BY <1>1, <1>2 DEF TablesGrow, NodeTablesTyped, nodeTables
<1>3. ASSUME NEW n \in Nodes, UNCHANGED tested,
             node' = [node EXCEPT ![n] = "deleted"] \/ UNCHANGED node
      PROVE  TablesGrow
  BY <1>1, <1>3 DEF TablesGrow, NodeTablesTyped
<1>4. ASSUME NEW k \in WorkKinds, DeleteOne(k) PROVE TablesGrow
  <2>1. PICK n \in work[k].left : node' = [node EXCEPT ![n] = "deleted"] \/ UNCHANGED node
    BY <1>4 DEF DeleteOne
  <2>2. n \in Nodes /\ UNCHANGED tested
    BY <1>1, <1>4, <2>1 DEF DeleteOne
  <2>3. QED
    BY <1>3, <2>1, <2>2
<1>5. ASSUME NEW k \in WorkKinds, StoreOne(k) PROVE TablesGrow
  <2>1. UNCHANGED node /\ (UNCHANGED tested \/ \E n \in work[k].left : tested' = tested \union {n})
    BY <1>5 DEF StoreOne
  <2>2. QED
    BY <1>1, <2>1 DEF TablesGrow, NodeTablesTyped
<1>6. CASE Imported
  <2>1. /\ node' = [n \in Nodes |-> IF node[n] = "unborn" THEN "alive" ELSE node[n]]
        /\ UNCHANGED tested
    BY <1>6 DEF Imported
  <2>2. QED
    BY <1>1, <2>1 DEF TablesGrow, NodeTablesTyped
<1>7. \/ UNCHANGED nodeTables \/ Imported
      \/ \E k \in WorkKinds : DeleteOne(k) \/ StoreOne(k)
  BY Zenon
     DEF NodesNext, Timer, NodesRead, NodesAnswer, ListFails, Expire, ListsUnchanged, NextPage,
         PreviousPage, SetSort, Search, Reset, SetFilter, MoveTo, Toggle, DeleteCard, TestCard,
         SelectAll, SelectNone, ToggleAutoRefresh, BatchTest, BatchDelete, SaveTags, TestAll,
         UpdateTags, FindNodes, Success, Refreshed, Failure, StartWork, Choose, nodeTables
<1>8. QED
  BY <1>2, <1>4, <1>5, <1>6, <1>7

\* What happens to the work, the deletions and the tests.
LEMMA NextWork ==
  ASSUME NodesPageAssumption, NodesInv, NodesNext
  PROVE  work' \in [WorkKinds -> Works] /\ gone' \subseteq Nodes /\ DeletionsHold' /\ TestsHold'
<1>1. /\ work \in [WorkKinds -> Works] /\ NodeTablesTyped /\ NodeClicksTyped /\ Shown \subseteq Nodes
      /\ Enabled \subseteq Nodes
  BY ShownNodes DEF NodesInv, NodesTyped, NodesPageAssumption
<1>2. TablesGrow /\ DeletionsHold /\ TestsHold
  BY TablesAlwaysGrow DEF NodesInv
<1>3. \A k \in WorkKinds : work[k] \in Works /\ work[k].ids \subseteq Nodes /\ work[k].left \subseteq Nodes
  BY <1>1 DEF Works
<1>4. /\ \A k \in {"delete", "batch"} : k \in WorkKinds /\ k \notin Tests
      /\ \A k \in Tests : k \in WorkKinds
  BY DEF WorkKinds, Tests
<1> DEFINE Good == /\ work' \in [WorkKinds -> Works] /\ gone' \subseteq Nodes
                   /\ DeletionsHold' /\ TestsHold'
\* One piece of work changes, to something that holds as well.
<1>5. ASSUME NEW k \in WorkKinds, work' \in [WorkKinds -> Works], gone' \subseteq Nodes,
             \A j \in WorkKinds \ {k} : work'[j] = work[j],
             \A n \in gone' : node'[n] = "deleted",
             k \in {"delete", "batch"} => \A n \in work'[k].ids :
               \/ node'[n] = "deleted"
               \/ n \in work'[k].left /\ work'[k].phase = "sent"
               \/ work'[k].phase \notin {"sent", "done"},
             k \in Tests /\ work'[k].phase \in {"testing", "done", "refreshing"} =>
               \A n \in work'[k].ids :
                 \/ n \in work'[k].left /\ work'[k].phase = "testing" /\ node'[n] # "unborn"
                 \/ n \in tested' \/ node'[n] = "deleted"
      PROVE  Good
  <2>1. ASSUME NEW j \in {"delete", "batch"}, NEW n \in work'[j].ids
        PROVE  \/ node'[n] = "deleted"
               \/ n \in work'[j].left /\ work'[j].phase = "sent"
               \/ work'[j].phase \notin {"sent", "done"}
    <3>1. CASE j = k
      BY <1>5, <2>1, <3>1
    <3>2. CASE j # k
      <4>1. work'[j] = work[j] /\ n \in Nodes
        BY <1>3, <1>4, <1>5, <2>1, <3>2
      <4>2. QED
        BY <1>2, <2>1, <4>1 DEF DeletionsHold, TablesGrow
    <3>3. QED
      BY <3>1, <3>2
  <2>2. ASSUME NEW j \in Tests, work'[j].phase \in {"testing", "done", "refreshing"},
               NEW n \in work'[j].ids
        PROVE  \/ n \in work'[j].left /\ work'[j].phase = "testing" /\ node'[n] # "unborn"
               \/ n \in tested' \/ node'[n] = "deleted"
    <3>1. CASE j = k
      BY <1>5, <2>2, <3>1
    <3>2. CASE j # k
      <4>1. work'[j] = work[j] /\ n \in Nodes
        BY <1>3, <1>4, <1>5, <2>2, <3>2
      <4>2. QED
        BY <1>2, <2>2, <4>1 DEF TestsHold, TablesGrow
    <3>3. QED
      BY <3>1, <3>2
  <2>3. QED
    BY <1>5, <2>1, <2>2 DEF DeletionsHold, TestsHold
<1>6. CASE UNCHANGED work /\ UNCHANGED gone
  <2>1. \A n \in gone' : node'[n] = "deleted"
    BY <1>1, <1>2, <1>6 DEF NodeTablesTyped, DeletionsHold, TablesGrow
  <2>2. DeletionsHold'
    <3>1. \A k \in {"delete", "batch"} : \A n \in work[k].ids : n \in Nodes
      BY <1>3, <1>4
    <3>2. QED
      BY <1>2, <1>6, <2>1, <3>1 DEF DeletionsHold, TablesGrow
  <2>3. TestsHold'
    <3>1. \A k \in Tests : \A n \in work[k].ids : n \in Nodes
      BY <1>3, <1>4
    <3>2. QED
      BY <1>2, <1>6, <3>1 DEF TestsHold, TablesGrow
  <2>4. QED
    BY <1>1, <1>6, <2>2, <2>3 DEF NodeTablesTyped
<1>7. UNCHANGED gone => gone' \subseteq Nodes /\ \A n \in gone' : node'[n] = "deleted"
  BY <1>1, <1>2 DEF NodeTablesTyped, DeletionsHold, TablesGrow
<1>8. ASSUME NEW k \in WorkKinds, NEW ids \in SUBSET Nodes, StartWork(k, ids) PROVE Good
  <2> DEFINE w == [phase |-> "sent", ids |-> ids, left |-> ids]
  <2>1. work' = [work EXCEPT ![k] = w] /\ UNCHANGED gone
    BY <1>8 DEF StartWork
  <2>2. w \in Works /\ w.phase = "sent" /\ w.left = w.ids
    BY DEF Works
  <2> HIDE DEF w
  <2>3. WorkKept(k) /\ work'[k] = w
    BY <1>1, <2>1, <2>2, WorkSet DEF WorkKept
  <2>4. QED
    BY <1>5, <1>7, <2>1, <2>2, <2>3 DEF WorkKept
<1>9. ASSUME NEW k \in WorkKinds, work' = [work EXCEPT ![k] = NoWork], UNCHANGED gone PROVE Good
  <2>1. NoWork \in Works /\ NoWork.phase = "idle" /\ NoWork.ids = {}
    BY DEF NoWork, Works
  <2>2. WorkKept(k) /\ work'[k] = NoWork
    BY <1>1, <1>9, <2>1, WorkSet DEF WorkKept
  <2>3. QED
    BY <1>5, <1>7, <1>9, <2>1, <2>2 DEF WorkKept
<1>10. ASSUME NEW k \in WorkKinds, DeleteOne(k) PROVE Good
  <2>1. PICK n \in work[k].left, p \in {"sent", "done", "refused"}, left \in SUBSET Nodes :
          /\ Step(k, p, left)
          /\ \/ /\ node' = [node EXCEPT ![n] = "deleted"] /\ left = work[k].left \ {n}
                /\ p = IF work[k].left = {n} THEN "done" ELSE "sent"
             \/ p = "refused"
    <3>1. PICK n \in work[k].left :
            \/ /\ node' = [node EXCEPT ![n] = "deleted"]
               /\ Step(k, IF work[k].left = {n} THEN "done" ELSE "sent", work[k].left \ {n})
            \/ Step(k, "refused", work[k].left)
      BY <1>10 DEF DeleteOne
    <3>2. work[k].left \in SUBSET Nodes /\ work[k].left \ {n} \in SUBSET Nodes
      BY <1>3
    <3>3. QED
      BY <3>1, <3>2
  <2>2. /\ work' \in [WorkKinds -> Works]
        /\ work'[k].phase = p /\ work'[k].left = left /\ work'[k].ids = work[k].ids
        /\ \A j \in WorkKinds \ {k} : work'[j] = work[j]
    BY <1>1, <2>1, WorkSteps
  <2>3. UNCHANGED gone /\ k \in {"delete", "batch"} /\ work[k].phase = "sent"
    BY <1>10, <2>1 DEF DeleteOne, Step
  <2>4. \A i \in work[k].ids : \/ node'[i] = "deleted"
                               \/ i \in left /\ p = "sent"
                               \/ p \notin {"sent", "done"}
    <3>1. n \in Nodes /\ node \in [Nodes -> {"unborn", "alive", "deleted"}]
      BY <1>1, <1>3 DEF NodeTablesTyped
    <3>2. \A i \in work[k].ids : node[i] = "deleted" \/ i \in work[k].left
      BY <1>2, <2>3 DEF DeletionsHold
    <3>3. CASE node' = [node EXCEPT ![n] = "deleted"] /\ left = work[k].left \ {n}
      <4>1. node'[n] = "deleted" /\ \A i \in Nodes \ {n} : node'[i] = node[i]
        BY <3>1, <3>3
      <4>2. QED
        BY <1>3, <2>1, <3>2, <3>3, <4>1
    <3>4. QED
      BY <2>1, <3>3
  <2>5. QED
    BY <1>4, <1>5, <1>7, <2>2, <2>3, <2>4
<1>11. CASE UpdateTags
  <2>1. PICK p \in {"refused", "done"} : Step("tags", p, {})
    BY <1>11 DEF UpdateTags
  <2>2. "tags" \in WorkKinds /\ "tags" \notin Tests /\ {} \in SUBSET Nodes /\ UNCHANGED gone
    BY <2>1 DEF WorkKinds, Tests, Step
  <2>3. QED
    BY <1>1, <1>5, <1>7, <2>1, <2>2, WorkSteps
<1>12. ASSUME NEW k \in WorkKinds, FindNodes(k) PROVE Good
  <2> DEFINE found == work[k].ids \intersect Living
             w == [phase |-> IF found = {} THEN "refused" ELSE "testing", ids |-> found,
                   left |-> found]
  <2>1. work' = [work EXCEPT ![k] = w] /\ UNCHANGED <<gone, node>> /\ k \in Tests
    BY <1>12 DEF FindNodes, nodeTables
  <2>2. w \in Works /\ w.left = w.ids /\ w.phase \in {"refused", "testing"}
        /\ \A n \in w.ids : node[n] = "alive"
    BY <1>3 DEF Works, Living
  <2> HIDE DEF w, found
  <2>3. WorkKept(k) /\ work'[k] = w
    BY <1>1, <2>1, <2>2, WorkSet DEF WorkKept
  <2>4. \A n \in w.ids : node'[n] # "unborn"
    BY <2>1, <2>2
  <2>5. QED
    BY <1>4, <1>5, <1>7, <2>1, <2>2, <2>3, <2>4 DEF WorkKept
<1>13. ASSUME NEW k \in WorkKinds, StoreOne(k) PROVE Good
  <2>1. k \in Tests /\ work[k].phase = "testing" /\ UNCHANGED <<node, gone>>
    BY <1>13 DEF StoreOne, Step
  <2>2. CASE Step(k, "refused", work[k].left)
    <3>1. work[k].left \in SUBSET Nodes
      BY <1>3
    <3>2. QED
      BY <1>1, <1>4, <1>5, <1>7, <2>1, <2>2, <3>1, WorkSteps
  <2>3. ASSUME NEW n \in work[k].left, tested' = IF n \in Living THEN tested \union {n} ELSE tested,
               Step(k, IF work[k].left = {n} THEN "done" ELSE "testing", work[k].left \ {n})
        PROVE  Good
    <3> DEFINE left == work[k].left \ {n}
               p == IF work[k].left = {n} THEN "done" ELSE "testing"
    <3>1. left \in SUBSET Nodes /\ p \in {"done", "testing"} /\ Step(k, p, left)
          /\ (p # "testing" => work[k].left = {n})
      BY <1>3, <2>3
    <3> HIDE DEF p
    <3>2. /\ work' \in [WorkKinds -> Works]
          /\ work'[k].phase = p /\ work'[k].left = left /\ work'[k].ids = work[k].ids
          /\ \A j \in WorkKinds \ {k} : work'[j] = work[j]
      BY <1>1, <3>1, WorkSteps
    <3>3. n \in Nodes /\ (node[n] # "unborn" => n \in tested' \/ node[n] = "deleted")
      BY <1>1, <1>3, <2>3 DEF NodeTablesTyped, Living
    <3>4. \A i \in work[k].ids : \/ i \in left /\ p = "testing" /\ node'[i] # "unborn"
                                 \/ i \in tested' \/ node'[i] = "deleted"
      <4> SUFFICES ASSUME NEW i \in work[k].ids, i \notin tested', node[i] # "deleted"
                   PROVE  i \in left /\ p = "testing" /\ node[i] # "unborn"
        BY <2>1
      <4>1. i \in work[k].left /\ node[i] # "unborn"
        BY <1>2, <2>1 DEF TestsHold, TablesGrow
      <4>2. i # n
        BY <3>3, <4>1
      <4>3. QED
        BY <3>1, <4>1, <4>2
    <3>5. QED
      BY <1>4, <1>5, <1>7, <2>1, <3>2, <3>4
  <2>4. QED
    BY <1>13, <2>2, <2>3 DEF StoreOne
<1>14. ASSUME NEW k \in WorkKinds, Success(k) PROVE Good
  <2>1. work' = [work EXCEPT ![k].phase = "refreshing"] /\ work[k].phase = "done"
        /\ UNCHANGED <<node, tested>>
    BY <1>14 DEF Success, nodeTables
  <2>2. /\ work' \in [WorkKinds -> Works] /\ work'[k].phase = "refreshing"
        /\ work'[k].ids = work[k].ids /\ work'[k].left = work[k].left
        /\ \A j \in WorkKinds \ {k} : work'[j] = work[j]
    BY <1>1, <2>1 DEF Works
  <2>3. gone' \subseteq Nodes /\ \A n \in gone' : node'[n] = "deleted"
    <3>1. \/ UNCHANGED gone
          \/ k \in {"delete", "batch"} /\ gone' = gone \union work[k].ids
      BY <1>14 DEF Success
    <3>2. k \in {"delete", "batch"} => \A n \in work[k].ids : node[n] = "deleted"
      BY <1>2, <2>1 DEF DeletionsHold
    <3>3. QED
      BY <1>1, <1>2, <1>3, <2>1, <3>1, <3>2 DEF NodeTablesTyped, DeletionsHold
  <2>4. k \in Tests => \A n \in work[k].ids : n \in tested' \/ node'[n] = "deleted"
    BY <1>2, <2>1 DEF TestsHold
  <2>5. QED
    BY <1>5, <2>2, <2>3, <2>4
<1>15. ASSUME NEW n \in Nodes, Toggle(n) \/ DeleteCard(n) \/ TestCard(n) PROVE Good
  <2>1. {n} \in SUBSET Nodes /\ "delete" \in WorkKinds /\ "test" \in WorkKinds
    BY DEF WorkKinds, Tests
  <2>2. QED
    BY <1>6, <1>8, <1>15, <2>1 DEF Toggle, DeleteCard, TestCard, Choose
<1>16. CASE BatchTest \/ BatchDelete \/ SaveTags \/ TestAll
  <2>1. \A k \in {"test", "batch", "tags", "testAll"} : k \in WorkKinds
    BY DEF WorkKinds, Tests
  <2>2. selected \in SUBSET Nodes /\ Enabled \in SUBSET Nodes /\ Nodes \in SUBSET Nodes
    BY <1>1 DEF NodeClicksTyped
  <2>3. CASE TestAll
    <3>1. \E ids \in SUBSET Nodes : StartWork("testAll", ids)
      BY <2>2, <2>3 DEF TestAll
    <3>2. QED
      BY <1>8, <2>1, <3>1
  <2>4. QED
    BY <1>8, <1>16, <2>1, <2>2, <2>3 DEF BatchTest, BatchDelete, SaveTags
<1>17. ASSUME NEW k \in WorkKinds, Refreshed(k) \/ Failure(k) PROVE Good
  BY <1>9, <1>17 DEF Refreshed, Failure
<1>18. \/ UNCHANGED work /\ UNCHANGED gone
       \/ \E n \in Nodes : Toggle(n) \/ DeleteCard(n) \/ TestCard(n)
       \/ BatchTest \/ BatchDelete \/ SaveTags \/ TestAll \/ UpdateTags
       \/ \E k \in WorkKinds : \/ DeleteOne(k) \/ FindNodes(k) \/ StoreOne(k)
                               \/ Success(k) \/ Refreshed(k) \/ Failure(k)
  BY Zenon
     DEF NodesNext, Timer, NodesRead, NodesAnswer, ListFails, Expire, ListsUnchanged, NextPage,
         PreviousPage, SetSort, Search, Reset, SetFilter, MoveTo, SelectAll, SelectNone, Choose,
         ToggleAutoRefresh, Imported
<1>19. QED
  BY <1>6, <1>10, <1>11, <1>12, <1>13, <1>14, <1>15, <1>16, <1>17, <1>18

LEMMA NextClicks ==
  ASSUME NodesPageAssumption, NodesInv, NodesNext PROVE NodeClicksTyped'
<1>1. NodeClicksTyped /\ Shown \subseteq Nodes
  BY ShownNodes DEF NodesInv, NodesTyped
<1>2. Counted => moves' \in 0 .. MaxNodeMoves
  BY <1>1 DEF Counted, NodeClicksTyped, NodesPageAssumption
<1>3. UNCHANGED moves \/ Counted
  BY Zenon
     DEF NodesNext, Timer, NodesRead, NodesAnswer, ListFails, Expire, NextPage, PreviousPage, SetSort,
         Search, Reset, SetFilter, MoveTo, Toggle, DeleteCard, TestCard, SelectAll, SelectNone, Choose,
         ToggleAutoRefresh, BatchTest, BatchDelete, SaveTags, TestAll, StartWork, UpdateTags, DeleteOne,
         FindNodes, StoreOne, Step, Success, Refreshed, Failure, Imported
<1>4. UNCHANGED nodeAuto \/ nodeAuto' = ~nodeAuto
  BY Zenon
     DEF NodesNext, Timer, NodesRead, NodesAnswer, ListFails, Expire, ListsUnchanged, NextPage,
         PreviousPage, SetSort, Search, Reset, SetFilter, MoveTo, Toggle, DeleteCard, TestCard,
         SelectAll, SelectNone, Choose, ToggleAutoRefresh, BatchTest, BatchDelete, SaveTags, TestAll,
         StartWork, UpdateTags, DeleteOne, FindNodes, StoreOne, Step, Success, Refreshed, Failure,
         Imported
<1>5. selected' \subseteq selected \union Shown
  <2>1. ASSUME NEW k, Success(k) PROVE selected' \subseteq selected
    BY <2>1 DEF Success
  <2>2. ASSUME NEW n, Toggle(n) PROVE selected' \subseteq selected \union Shown
    BY <2>2 DEF Toggle, Choose
  <2>3. CASE UNCHANGED selected \/ selected' = {} \/ selected' = Shown
    BY <2>3
  <2>4. \/ UNCHANGED selected \/ selected' = {} \/ selected' = Shown
        \/ (\E k : Success(k)) \/ (\E n : Toggle(n))
    BY Zenon
       DEF NodesNext, Timer, NodesRead, NodesAnswer, ListFails, Expire, ListsUnchanged, NextPage,
           PreviousPage, SetSort, Search, Reset, SetFilter, MoveTo, DeleteCard, TestCard, SelectAll,
           SelectNone, Choose, ToggleAutoRefresh, BatchTest, BatchDelete, SaveTags, TestAll, StartWork,
           UpdateTags, DeleteOne, FindNodes, StoreOne, Step, Refreshed, Failure, Imported, browser
  <2>5. QED
    BY <2>1, <2>2, <2>3, <2>4
<1>6. nodeAuto' \in BOOLEAN
  BY <1>1, <1>4 DEF NodeClicksTyped
<1>7. QED
  BY <1>1, <1>2, <1>3, <1>5, <1>6 DEF NodeClicksTyped

LEMMA NextNodesKeeps ==
  ASSUME NodesPageAssumption PROVE NodesInv /\ [NodesNext]_nodesVars => NodesInv'
<1> SUFFICES ASSUME NodesInv, [NodesNext]_nodesVars PROVE NodesInv'
  OBVIOUS
<1>1. CASE NodesNext
  <2>1. NodeTablesTyped'
    BY <1>1, TablesAlwaysGrow, NextWork DEF NodeTablesTyped, TablesGrow
  <2>2. QED
    BY <1>1, <2>1, NextLists, NextWork, NextClicks DEF NodesInv, NodesTyped
<1>2. CASE UNCHANGED nodesVars
  BY <1>2 DEF NodesInv, NodesTyped, NodeTablesTyped, NodeListsTyped, NodeClicksTyped, DeletionsHold,
              AnswersWithout, ListsWithout, Without, TestsHold, OnScreen, nodesVars
<1>3. QED
  BY <1>1, <1>2

LEMMA NodesAlways == ASSUME NodesPageAssumption PROVE NodesSpec => []NodesInv
BY InitNodes, NextNodesKeeps, PTL DEF NodesSpec

\* The types of the page (TypeOK).
THEOREM NodesTypeCorrect == ASSUME NodesPageAssumption PROVE NodesSpec => []NodesTypeOK
<1>1. NodesInv => NodesTypeOK
  BY DEF NodesInv, NodesTyped, NodeTablesTyped, NodeListsTyped, NodeClicksTyped, Works, NodesTypeOK
<1>2. QED
  BY NodesAlways, <1>1, PTL

\* No list at rest shows a node that the page deleted, for any nodes, filters and pages, except
\* one whose answer was read before the deletion and that the library does not drop
\* (nodes-page.tsx:129-163).
THEOREM DeletedAlwaysGone == ASSUME NodesPageAssumption PROVE NodesSpec => []DeletedGone
<1>1. NodesInv => DeletedGone
  <2> SUFFICES ASSUME NodesInv, ~Fetching(lists[OnScreen]), ~lists[OnScreen].failed,
                      OnScreen \notin overtaken
               PROVE  Shown \intersect gone = {}
    BY DEF DeletedGone
  <2>1. Without(lists[OnScreen].data, gone)
    BY DEF NodesInv, NodesTyped, NodeListsTyped, ListsWithout, Fetching
  <2>2. QED
    BY <2>1 DEF Without, Shown
<1>2. QED
  BY NodesAlways, <1>1, PTL

\* A test that reports success has stored a result for each of its nodes that still exists
\* (proxy_node.go:222-271).
THEOREM TestsAlwaysStored == ASSUME NodesPageAssumption PROVE NodesSpec => []TestsStored
<1>1. NodesInv => TestsStored
  BY DEF NodesInv, TestsHold, TestsStored, Living
<1>2. QED
  BY NodesAlways, <1>1, PTL

-----------------------------------------------------------------------------
(* The overview.  What a query asks for, has been answered or shows is what the server has, *)
(* unless an action on the server has yet to be answered for, or is known to be missed.     *)

\* What a query of the page is about.
Kept(f) ==
  CASE f = "inventory" -> Inventories [] f = "ports" -> Seq(BOOLEAN) [] OTHER -> BOOLEAN

QuickRow == [phase : {"idle", "sent", "storing", "done", "refused"}, answer : BOOLEAN,
             left : SUBSET NodeIds]

WorldTyped ==
  world \in [running : BOOLEAN, inventory : Inventories, ports : Seq(BOOLEAN), binary : BOOLEAN]

OverviewTyped ==
  /\ quick \in [Quick -> QuickRow]
  /\ notice \in {"none", "success", "info", "danger"} /\ behind \subseteq Facets
  /\ presses \in 0 .. MaxPresses /\ changes \in 0 .. MaxChanges

\* An answer that the server has read holds something.
QueriesTyped ==
  /\ DOMAIN queries = Facets
  /\ \A f \in Facets : /\ IsQueryOf(queries[f], Kept(f))
                       /\ queries[f].phase = "read" => queries[f].answer # <<>>
                       /\ queries[f].phase = "idle" /\ ~queries[f].failed => queries[f].data # <<>>

\* Only what a test of the nodes on the page waits for is stored or answered.
TestOfShown ==
  /\ quick["testAll"].phase # "idle" => queries["inventory"].data # <<>>
  /\ \A b \in Quick \ {"testAll"} : quick[b].phase # "storing"

\* What the page asks, asked, or shows is what the server has.
Shows(f) ==
  \/ queries[f].phase = "sent"
  \/ queries[f].phase = "read" /\ queries[f].answer = <<world[f]>>
  \/ queries[f].phase = "idle" /\ (queries[f].failed \/ queries[f].data = <<world[f]>>)

\* Or something else is to make it so, or is known to have prevented it.
Followed(f, owing) == f \in behind \/ owing \/ Shows(f)

DashboardInv ==
  /\ WorldTyped /\ OverviewTyped /\ QueriesTyped /\ TestOfShown
  /\ Followed("running", \E b \in Quick \ {"testAll"} : quick[b].phase = "done")
  /\ Followed("inventory", quick["testAll"].phase \in {"storing", "done", "refused"})

LEMMA QuickNames ==
  /\ {"start", "stop", "reload"} = Quick \ {"testAll"} /\ "testAll" \in Quick
  /\ "running" \in Facets /\ "inventory" \in Facets
BY DEF Quick, Facets

LEMMA RestingRow == Resting \in QuickRow /\ Resting.phase = "idle" /\ Resting.left = {}
BY DEF Resting, QuickRow

\* A facet of the world has the values its query is about.
LEMMA WorldKept ==
  ASSUME WorldTyped, NEW f \in Facets
  PROVE  world[f] \in Kept(f)
<1>1. /\ world["running"] \in BOOLEAN /\ world["inventory"] \in Inventories
      /\ world["ports"] \in Seq(BOOLEAN) /\ world["binary"] \in BOOLEAN
  BY DEF WorldTyped
<1>2. f \in {"running", "inventory", "ports", "binary"}
  BY DEF Facets
<1> QED
  BY <1>1, <1>2 DEF Kept

LEMMA InitDashboard == ASSUME DashboardAssumption PROVE DashboardInit => DashboardInv
<1> SUFFICES ASSUME DashboardInit PROVE DashboardInv
  OBVIOUS
<1>0. Unasked = [data |-> <<>>, phase |-> "idle", answer |-> <<>>, failed |-> FALSE]
  <2>1. Fresh = [data |-> <<>>, phase |-> "sent", answer |-> <<>>, failed |-> FALSE]
    BY DEF Fresh
  <2>2. Unasked = [Fresh EXCEPT !.phase = "idle"]
    BY DEF Unasked
  <2> QED
    BY <2>1, <2>2
<1>1. WorldTyped
  <2>1. [NodeIds -> {Untested}] \subseteq Inventories
    <3>1. Untested \in Results
      BY DEF Untested, Results
    <3>2. [NodeIds -> {Untested}] \subseteq [NodeIds -> Results]
      BY <3>1
    <3>3. [NodeIds -> Results] \subseteq Inventories
      BY DEF Inventories
    <3> QED
      BY <3>2, <3>3
  <2>2. <<TRUE, FALSE>> \in Seq(BOOLEAN)
    OBVIOUS
  <2>3. PICK two \in Seq(BOOLEAN) : two = <<TRUE, FALSE>>
    BY <2>2
  <2>4. world \in [running : BOOLEAN, inventory : [NodeIds -> {Untested}], ports : {two}, binary : {TRUE}]
    BY <2>3 DEF DashboardInit
  <2> QED
    BY <2>1, <2>4 DEF WorldTyped
<1>2. OverviewTyped
  <2>1. presses \in 0 .. MaxPresses /\ changes \in 0 .. MaxChanges
    BY DEF DashboardAssumption, DashboardInit
  <2> QED
    BY <2>1, RestingRow DEF DashboardInit, OverviewTyped
<1>3. ASSUME NEW f \in Facets
      PROVE  /\ IsQueryOf(queries[f], Kept(f))
             /\ queries[f].phase # "read"
             /\ queries[f].phase = "idle" => queries[f].data = <<world[f]>>
  <2>1. CASE f \in Cached
    <3> DEFINE d == <<world[f]>>
    <3>1. d \in Seq(Kept(f)) /\ Len(d) <= 1
      BY <1>1, WorldKept
    <3>2. <<>> \in Seq(Kept(f)) /\ Len(<<>>) <= 1
      BY EmptySeq
    <3>3. queries[f] = [data |-> d, phase |-> "idle", answer |-> <<>>, failed |-> FALSE]
      <4>1. queries[f] = [Unasked EXCEPT !.data = d]
        BY <2>1 DEF DashboardInit
      <4> HIDE DEF d
      <4> QED
        BY <1>0, <4>1
    <3>4. queries[f].data = d /\ queries[f].phase = "idle"
      <4> HIDE DEF d
      <4> QED
        BY <3>3
    <3>5. IsQueryOf(queries[f], Kept(f))
      <4> HIDE DEF d
      <4> QED
        BY <3>1, <3>2, <3>3, QueryMade DEF Phases
    <3> QED
      BY <3>4, <3>5
  <2>2. CASE f \notin Cached
    BY <2>2, QueryBegins DEF DashboardInit
  <2> QED
    BY <2>1, <2>2
<1>4. QueriesTyped
  <2>1. DOMAIN queries = Facets
    BY DEF DashboardInit
  <2>2. ASSUME NEW f \in Facets, queries[f].data = <<world[f]>> PROVE queries[f].data # <<>>
    BY <2>2
  <2> QED
    BY <1>3, <2>1, <2>2 DEF QueriesTyped
<1>5. TestOfShown
  BY RestingRow, QuickNames DEF DashboardInit, TestOfShown
<1>6. \A f \in Facets : Shows(f)
  BY <1>3, QueryBegins DEF DashboardInit, Shows, IsQueryOf, Phases
<1> QED
  BY <1>1, <1>2, <1>4, <1>5, <1>6, QuickNames DEF Followed, DashboardInv

-----------------------------------------------------------------------------
\* One query changes; the others show what they showed.
LEMMA QueryMoves ==
  ASSUME DashboardInv, NEW f \in Facets, NEW q, queries' = [queries EXCEPT ![f] = q],
         IsQueryOf(q, Kept(f)), q.phase = "read" => q.answer # <<>>,
         q.phase = "idle" /\ ~q.failed => q.data # <<>>
  PROVE  /\ QueriesTyped' /\ queries'[f] = q
         /\ \A g \in Facets \ {f} : queries'[g] = queries[g]
<1>1. DOMAIN queries = Facets
  BY DEF DashboardInv, QueriesTyped
<1>2. /\ DOMAIN queries' = Facets /\ queries'[f] = q
      /\ \A g \in Facets \ {f} : queries'[g] = queries[g]
  BY <1>1
<1>3. ASSUME NEW g \in Facets
      PROVE  /\ IsQueryOf(queries'[g], Kept(g))
             /\ queries'[g].phase = "read" => queries'[g].answer # <<>>
             /\ queries'[g].phase = "idle" /\ ~queries'[g].failed => queries'[g].data # <<>>
  <2>1. CASE g = f
    BY <1>2, <2>1
  <2>2. CASE g # f
    BY <1>2, <2>2 DEF DashboardInv, QueriesTyped
  <2> QED
    BY <2>1, <2>2
<1>4. QueriesTyped'
  BY <1>2, <1>3 DEF QueriesTyped, Kept
<1> QED
  BY <1>2, <1>4

\* A query that changes alone: what concerns it, and what concerns the others.
LEMMA QueryAlone ==
  ASSUME DashboardInv, NEW f \in Facets, NEW q, queries' = [queries EXCEPT ![f] = q],
         IsQueryOf(q, Kept(f)), q.phase = "read" => q.answer # <<>>,
         q.phase = "idle" /\ ~q.failed => q.data # <<>>,
         queries[f].data # <<>> => q.data # <<>>,
         UNCHANGED <<world, quick, notice, presses, changes>>, behind' \subseteq behind,
         \A g \in Facets \ {f} : g \in behind => g \in behind',
         f \in behind /\ f \notin behind' => Shows(f)',
         f \notin behind /\ Shows(f) => Shows(f)'
  PROVE  DashboardInv'
<1>1. /\ QueriesTyped' /\ queries'[f] = q
      /\ \A g \in Facets \ {f} : queries'[g] = queries[g]
  BY QueryMoves
<1>2. WorldTyped' /\ OverviewTyped'
  BY DEF DashboardInv, WorldTyped, OverviewTyped
<1>3. TestOfShown'
  BY <1>1, QuickNames DEF DashboardInv, TestOfShown
<1>4. ASSUME NEW g \in Facets, g \in behind \/ Shows(g)
      PROVE  g \in behind' \/ Shows(g)'
  <2>1. CASE g = f
    BY <1>4, <2>1
  <2>2. CASE g # f
    <3>1. Shows(g)' <=> Shows(g)
      BY <1>1, <2>2 DEF Shows
    <3> QED
      BY <1>4, <2>2, <3>1
  <2> QED
    BY <2>1, <2>2
<1>5. /\ Followed("running", \E b \in Quick \ {"testAll"} : quick[b].phase = "done")
      /\ Followed("inventory", quick["testAll"].phase \in {"storing", "done", "refused"})
  BY DEF DashboardInv
<1>6. /\ "running" \in behind' \/ (\E b \in Quick \ {"testAll"} : quick[b].phase = "done") \/ Shows("running")'
      /\ "inventory" \in behind' \/ quick["testAll"].phase \in {"storing", "done", "refused"} \/ Shows("inventory")'
  BY <1>4, <1>5, QuickNames DEF Followed
<1> QED
  BY <1>1, <1>2, <1>3, <1>6 DEF DashboardInv, Followed

\* A query of the page, and what becomes of it.
LEMMA QueryKept ==
  ASSUME DashboardInv, NEW f \in Facets
  PROVE  /\ IsQueryOf(queries[f], Kept(f)) /\ world[f] \in Kept(f)
         /\ queries[f].phase \in {"idle", "sent", "read"} /\ queries[f].failed \in BOOLEAN
         /\ queries[f].phase = "read" => queries[f].answer # <<>>
         /\ queries[f].phase = "idle" /\ ~queries[f].failed => queries[f].data # <<>>
<1>1. IsQueryOf(queries[f], Kept(f)) /\ WorldTyped
  BY DEF DashboardInv, QueriesTyped
<1> QED
  BY <1>1, QueryFields, WorldKept DEF DashboardInv, QueriesTyped

LEMMA StatusAsked ==
  ASSUME DashboardInv, StatusInterval
  PROVE  DashboardInv'
<1> DEFINE q == queries["running"]
<1>1. /\ q.phase = "idle" /\ queries' = [queries EXCEPT !["running"] = Fetch(q)]
      /\ UNCHANGED <<world, quick, notice, behind, presses, changes>>
  BY DEF StatusInterval, Fetching
<1>2. PICK new : new = Fetch(q)
  OBVIOUS
<1>3. /\ IsQueryOf(new, Kept("running")) /\ new.data = q.data /\ new.phase = "sent"
      /\ queries' = [queries EXCEPT !["running"] = new]
  <2>1. IsQueryOf(q, Kept("running"))
    BY QueryKept, QuickNames
  <2>2. IsQueryOf(Fetch(q), Kept("running")) /\ Fetch(q).data = q.data
    BY <2>1, QueryFetched
  <2>3. Fetch(q).phase = "sent"
    BY <1>1, <2>1 DEF Fetch, Fetching, IsQueryOf
  <2> QED
    BY <1>1, <1>2, <2>2, <2>3
<1>4. queries'["running"] = new
  BY <1>3, QueryMoves, QuickNames
<1>5. Shows("running")'
  BY <1>3, <1>4 DEF Shows
<1> QED
  BY <1>1, <1>3, <1>5, QueryAlone, QuickNames

LEMMA ReadStep ==
  ASSUME DashboardInv, NEW f \in Facets, QueryRead(f)
  PROVE  DashboardInv'
<1>1. /\ queries' = [queries EXCEPT ![f] = Read(queries[f], world[f])]
      /\ behind' = behind \ {f} /\ UNCHANGED <<world, quick, notice, presses, changes>>
  BY DEF QueryRead
<1>2. PICK new : new = Read(queries[f], world[f])
  OBVIOUS
<1>3. /\ IsQueryOf(new, Kept(f)) /\ new.data = queries[f].data /\ new.phase = "read"
      /\ new.answer = <<world[f]>> /\ new.answer # <<>>
      /\ queries' = [queries EXCEPT ![f] = new]
  <2>1. IsQueryOf(queries[f], Kept(f)) /\ world[f] \in Kept(f)
    BY QueryKept
  <2> QED
    BY <1>1, <1>2, <2>1, QueryReads
<1>4. queries'[f] = new
  BY <1>3, QueryMoves
<1>5. Shows(f)'
  BY <1>1, <1>3, <1>4 DEF Shows
<1> QED
  BY <1>1, <1>3, <1>5, QueryAlone

LEMMA AnswerStep ==
  ASSUME DashboardInv, NEW f \in Facets, QueryAnswer(f)
  PROVE  DashboardInv'
<1>1. /\ queries[f].phase = "read" /\ queries' = [queries EXCEPT ![f] = Answered(queries[f])]
      /\ UNCHANGED <<world, quick, notice, behind, presses, changes>>
  BY DEF QueryAnswer
<1>2. PICK new : new = Answered(queries[f])
  OBVIOUS
<1>3. /\ IsQueryOf(new, Kept(f)) /\ new.data = queries[f].answer /\ new.phase = "idle"
      /\ ~new.failed /\ new.data # <<>>
      /\ queries' = [queries EXCEPT ![f] = new]
  <2>1. IsQueryOf(queries[f], Kept(f)) /\ queries[f].answer # <<>>
    BY <1>1, QueryKept
  <2> QED
    BY <1>1, <1>2, <2>1, QueryAnswered
<1>4. queries'[f] = new
  BY <1>3, QueryMoves
<1>5. Shows(f) => Shows(f)'
  BY <1>1, <1>3, <1>4 DEF Shows
<1> QED
  BY <1>1, <1>3, <1>5, QueryAlone

LEMMA FailStep ==
  ASSUME DashboardInv, NEW f \in Facets, QueryFails(f)
  PROVE  DashboardInv'
<1>1. /\ queries' = [queries EXCEPT ![f] = Failed(queries[f])]
      /\ UNCHANGED <<world, quick, notice, behind, presses, changes>>
  BY DEF QueryFails
<1>2. PICK new : new = Failed(queries[f])
  OBVIOUS
<1>3. /\ IsQueryOf(new, Kept(f)) /\ new.data = queries[f].data /\ new.phase = "idle"
      /\ new.failed /\ queries' = [queries EXCEPT ![f] = new]
  <2>1. IsQueryOf(queries[f], Kept(f))
    BY QueryKept
  <2> QED
    BY <1>1, <1>2, <2>1, QueryFailed
<1>4. queries'[f] = new
  BY <1>3, QueryMoves
<1>5. Shows(f)'
  BY <1>3, <1>4 DEF Shows
<1> QED
  BY <1>1, <1>3, <1>5, QueryAlone

-----------------------------------------------------------------------------
\* A mutation that changes leaves the others as they are.
LEMMA QuickMoves ==
  ASSUME DashboardInv, NEW b \in Quick, NEW row \in QuickRow, quick' = [quick EXCEPT ![b] = row]
  PROVE  /\ quick' \in [Quick -> QuickRow] /\ quick'[b] = row
         /\ \A c \in Quick \ {b} : quick'[c] = quick[c]
BY DEF DashboardInv, OverviewTyped

\* What changes neither the world, nor a query, nor what is known to be behind.
LEMMA QuickAlone ==
  ASSUME DashboardInv, NEW b \in Quick, NEW row \in QuickRow, quick' = [quick EXCEPT ![b] = row],
         UNCHANGED <<world, queries, notice, behind, changes>>, presses' \in 0 .. MaxPresses,
         b = "testAll" => queries["inventory"].data # <<>>
                          /\ (quick[b].phase \in {"storing", "done", "refused"}
                                => row.phase \in {"storing", "done", "refused"}),
         b # "testAll" => quick[b].phase # "done" /\ row.phase # "storing"
  PROVE  DashboardInv'
<1>1. /\ quick' \in [Quick -> QuickRow] /\ quick'[b] = row
      /\ \A c \in Quick \ {b} : quick'[c] = quick[c]
  BY QuickMoves
<1>2. WorldTyped' /\ OverviewTyped' /\ QueriesTyped'
  BY <1>1 DEF DashboardInv, WorldTyped, OverviewTyped, QueriesTyped, Kept
<1>3. TestOfShown'
  BY <1>1, QuickNames DEF DashboardInv, TestOfShown
<1>4. \A f \in Facets : Shows(f)' <=> Shows(f)
  BY DEF Shows
<1>5. \/ "running" \in behind \/ Shows("running")
      \/ \E c \in Quick \ {"testAll"} : quick'[c].phase = "done"
  <2>1. ASSUME NEW c \in Quick \ {"testAll"}, quick[c].phase = "done"
        PROVE  \E d \in Quick \ {"testAll"} : quick'[d].phase = "done"
    BY <1>1, <2>1
  <2> QED
    BY <2>1 DEF DashboardInv, Followed
<1>6. \/ "inventory" \in behind \/ Shows("inventory")
      \/ quick'["testAll"].phase \in {"storing", "done", "refused"}
  <2>1. quick["testAll"].phase \in {"storing", "done", "refused"}
          => quick'["testAll"].phase \in {"storing", "done", "refused"}
    BY <1>1, QuickNames
  <2> QED
    BY <2>1 DEF DashboardInv, Followed
<1> QED
  BY <1>2, <1>3, <1>4, <1>5, <1>6, QuickNames DEF DashboardInv, Followed

LEMMA PressStep ==
  ASSUME DashboardAssumption, DashboardInv, NEW b \in Quick, Press(b)
  PROVE  DashboardInv'
<1>1. /\ presses < MaxPresses /\ presses' = presses + 1 /\ OfferedQuick(b)
      /\ UNCHANGED <<world, queries, notice, behind, changes>>
      /\ quick' = [quick EXCEPT ![b] = [Resting EXCEPT !.phase = "sent"]]
  BY DEF Press
<1> DEFINE row == [Resting EXCEPT !.phase = "sent"]
<1>2. row \in QuickRow /\ row.phase = "sent"
  BY DEF Resting, QuickRow
<1>3. presses' \in 0 .. MaxPresses
  BY <1>1 DEF DashboardAssumption, DashboardInv, OverviewTyped
<1>4. quick[b].phase = "idle"
  BY <1>1 DEF OfferedQuick
<1>5. ASSUME b = "testAll" PROVE queries["inventory"].data # <<>>
  <2>1. DOMAIN NodesShown # {}
    BY <1>1, <1>5 DEF OfferedQuick
  <2> QED
    BY <2>1 DEF NodesShown, Data
<1> HIDE DEF row
<1> QED
  BY <1>1, <1>2, <1>3, <1>4, <1>5, QuickAlone DEF row

LEMMA FoundStep ==
  ASSUME DashboardInv, FindAll
  PROVE  DashboardInv'
<1> DEFINE all == DOMAIN world.inventory
           row == [quick["testAll"] EXCEPT !.phase = "storing", !.left = all]
<1>1. /\ quick["testAll"].phase = "sent"
      /\ quick' = [quick EXCEPT !["testAll"].phase = "storing", !["testAll"].left = all]
      /\ UNCHANGED <<world, queries, notice, behind, presses, changes>>
  BY DEF FindAll
<1>2. all \subseteq NodeIds
  BY DEF DashboardInv, WorldTyped, Inventories
<1>3. quick \in [Quick -> QuickRow] /\ quick["testAll"] \in QuickRow /\ presses \in 0 .. MaxPresses
  BY QuickNames DEF DashboardInv, OverviewTyped
<1> HIDE DEF all
<1>4. row \in QuickRow /\ row.phase = "storing"
  BY <1>2, <1>3 DEF QuickRow
<1>5. quick' = [quick EXCEPT !["testAll"] = row]
  BY <1>1, <1>3
<1>6. queries["inventory"].data # <<>>
  BY <1>1 DEF DashboardInv, TestOfShown
<1> HIDE DEF row
<1> QED
  BY <1>1, <1>3, <1>4, <1>5, <1>6, QuickAlone, QuickNames

LEMMA EndsStep ==
  ASSUME DashboardInv, TestEnds
  PROVE  DashboardInv'
<1>1. PICK phase \in {"done", "refused"} :
             quick' = [quick EXCEPT !["testAll"].phase = phase, !["testAll"].left = {}]
  BY DEF TestEnds
<1>2. /\ quick["testAll"].phase = "storing"
      /\ UNCHANGED <<world, queries, notice, behind, presses, changes>>
  BY DEF TestEnds
<1> DEFINE row == [quick["testAll"] EXCEPT !.phase = phase, !.left = {}]
<1>3. quick \in [Quick -> QuickRow] /\ quick["testAll"] \in QuickRow /\ presses \in 0 .. MaxPresses
  BY QuickNames DEF DashboardInv, OverviewTyped
<1>4. row \in QuickRow /\ row.phase = phase
  BY <1>3 DEF QuickRow
<1>5. quick' = [quick EXCEPT !["testAll"] = row]
  BY <1>1, <1>3
<1>6. queries["inventory"].data # <<>>
  BY <1>2 DEF DashboardInv, TestOfShown
<1> HIDE DEF row
<1> QED
  BY <1>2, <1>3, <1>4, <1>5, <1>6, QuickAlone, QuickNames

LEMMA HandleStep ==
  ASSUME DashboardInv, NEW b \in Quick, Handle(b)
  PROVE  DashboardInv'
<1>1. /\ quick[b].phase = "sent" /\ b # "testAll"
      /\ UNCHANGED <<queries, notice, behind, presses, changes>>
  BY DEF Handle
<1>2. quick \in [Quick -> QuickRow] /\ quick[b] \in QuickRow /\ presses \in 0 .. MaxPresses
  BY DEF DashboardInv, OverviewTyped
<1>3. CASE quick' = [quick EXCEPT ![b].phase = "refused"] /\ UNCHANGED world
  <2> DEFINE row == [quick[b] EXCEPT !.phase = "refused"]
  <2>1. row \in QuickRow /\ row.phase = "refused"
    BY <1>2 DEF QuickRow
  <2>2. quick' = [quick EXCEPT ![b] = row]
    BY <1>2, <1>3
  <2> HIDE DEF row
  <2> QED
    BY <1>1, <1>2, <1>3, <2>1, <2>2, QuickAlone
<1>4. CASE /\ world' = [world EXCEPT !.running = (b # "stop")]
           /\ quick' = [quick EXCEPT ![b].phase = "done", ![b].answer = (b # "stop")]
  <2>1. PICK on \in BOOLEAN : on = (b # "stop")
    OBVIOUS
  <2>2. /\ world' = [world EXCEPT !.running = on]
        /\ quick' = [quick EXCEPT ![b].phase = "done", ![b].answer = on]
    BY <1>4, <2>1
  <2> DEFINE row == [quick[b] EXCEPT !.phase = "done", !.answer = on]
  <2>3. row \in QuickRow /\ row.phase = "done"
    BY <1>2 DEF QuickRow
  <2>4. quick' = [quick EXCEPT ![b] = row]
    BY <1>2, <2>2
  <2> HIDE DEF row
  <2>5. /\ quick' \in [Quick -> QuickRow] /\ quick'[b] = row
        /\ \A c \in Quick \ {b} : quick'[c] = quick[c]
    BY <2>3, <2>4, QuickMoves
  <2>6. WorldTyped' /\ world'["inventory"] = world["inventory"]
    BY <2>2 DEF DashboardInv, WorldTyped
  <2>7. OverviewTyped' /\ QueriesTyped'
    BY <1>1, <2>5 DEF DashboardInv, OverviewTyped, QueriesTyped, Kept
  <2>8. TestOfShown'
    BY <1>1, <2>3, <2>5, QuickNames DEF DashboardInv, TestOfShown
  <2>9. Shows("inventory")' <=> Shows("inventory")
    BY <1>1, <2>6 DEF Shows
  <2>10. \E c \in Quick \ {"testAll"} : quick'[c].phase = "done"
    BY <1>1, <2>3, <2>5
  <2>11. quick'["testAll"] = quick["testAll"]
    BY <1>1, <2>5, QuickNames
  <2> QED
    BY <1>1, <2>6, <2>7, <2>8, <2>9, <2>10, <2>11 DEF DashboardInv, Followed
<1> QED
  BY <1>3, <1>4 DEF Handle

\* While a test stores results, the list need not be what it was.
LEMMA StoreStep ==
  ASSUME DashboardInv, StoreResult
  PROVE  DashboardInv'
<1>1. /\ quick["testAll"].phase = "storing"
      /\ UNCHANGED <<queries, notice, behind, presses, changes>>
  BY DEF StoreResult
<1>2. PICK n \in quick["testAll"].left, r \in Results \ {Untested} :
        /\ quick' = [quick EXCEPT !["testAll"].left = @ \ {n}]
        /\ world' = [world EXCEPT !.inventory = IF n \in DOMAIN @ THEN [@ EXCEPT ![n] = r] ELSE @]
  BY DEF StoreResult
<1> DEFINE row == [quick["testAll"] EXCEPT !.left = @ \ {n}]
           old == world.inventory
           new == IF n \in DOMAIN old THEN [old EXCEPT ![n] = r] ELSE old
<1>3. quick \in [Quick -> QuickRow] /\ quick["testAll"] \in QuickRow
  BY QuickNames DEF DashboardInv, OverviewTyped
<1>4. row \in QuickRow /\ row.phase = "storing"
  BY <1>1, <1>3 DEF QuickRow
<1>5. quick' = [quick EXCEPT !["testAll"] = row]
  BY <1>2, <1>3
<1>6. new \in Inventories
  <2>1. PICK S \in SUBSET NodeIds : old \in [S -> Results]
    BY DEF DashboardInv, WorldTyped, Inventories
  <2>2. new \in [S -> Results]
    BY <2>1
  <2> QED
    BY <2>2 DEF Inventories
<1>7. world' = [world EXCEPT !.inventory = new]
  BY <1>2
<1> HIDE DEF row, new
<1>8. WorldTyped' /\ world'["running"] = world["running"]
  BY <1>6, <1>7 DEF DashboardInv, WorldTyped
<1>9. /\ quick' \in [Quick -> QuickRow] /\ quick'["testAll"] = row
      /\ \A c \in Quick \ {"testAll"} : quick'[c] = quick[c]
  BY <1>4, <1>5, QuickMoves, QuickNames
<1>10. OverviewTyped' /\ QueriesTyped'
  BY <1>1, <1>9 DEF DashboardInv, OverviewTyped, QueriesTyped, Kept
<1>11. TestOfShown'
  BY <1>1, <1>9 DEF DashboardInv, TestOfShown
<1>12. Shows("running")' <=> Shows("running")
  BY <1>1, <1>8 DEF Shows
<1> QED
  BY <1>1, <1>4, <1>8, <1>9, <1>10, <1>11, <1>12 DEF DashboardInv, Followed

-----------------------------------------------------------------------------
\* What an action may have changed is asked for again.
LEMMA SuccessStep ==
  ASSUME DashboardInv, NEW b \in Quick, PressSucceeds(b)
  PROVE  DashboardInv'
<1> DEFINE f == IF b = "testAll" THEN "inventory" ELSE "running"
           q == IF b = "testAll" THEN queries["inventory"]
                ELSE Stored(queries["running"], quick[b].answer)
<1>1. /\ quick[b].phase = "done" /\ quick' = [quick EXCEPT ![b] = Resting]
      /\ notice' = IF b = "stop" THEN "info" ELSE "success"
      /\ UNCHANGED <<world, behind, presses, changes>>
  BY DEF PressSucceeds
<1>2. f \in Facets /\ IsQueryOf(queries[f], Kept(f)) /\ quick[b] \in QuickRow
  BY QueryKept, QuickNames DEF DashboardInv, OverviewTyped
<1>3. queries' = [queries EXCEPT ![f] = Invalidated(q)]
  BY DEF PressSucceeds, Renewed
<1>4. IsQueryOf(q, Kept(f)) /\ q.data # <<>>
  <2>1. CASE b = "testAll"
    BY <1>1, <1>2, <2>1 DEF DashboardInv, TestOfShown
  <2>2. CASE b # "testAll"
    <3> DEFINE d == <<quick[b].answer>>
    <3>1. quick[b].answer \in BOOLEAN /\ Kept(f) = BOOLEAN
      BY <1>2, <2>2 DEF QuickRow, Kept
    <3>2. d \in Seq(Kept(f)) /\ Len(d) <= 1 /\ d # <<>>
      BY <3>1
    <3>3. q = [queries[f] EXCEPT !.data = d, !.failed = FALSE]
      BY <2>2 DEF Stored
    <3> HIDE DEF d
    <3>4. q = [data |-> d, phase |-> queries[f].phase, answer |-> queries[f].answer, failed |-> FALSE]
      BY <1>2, <3>3 DEF IsQueryOf
    <3>5. /\ queries[f].phase \in Phases /\ queries[f].answer \in Seq(Kept(f))
          /\ Len(queries[f].answer) <= 1
      BY <1>2 DEF IsQueryOf
    <3> HIDE DEF q, f
    <3>6. IsQueryOf(q, Kept(f))
      BY <3>2, <3>4, <3>5, QueryMade
    <3> QED
      BY <3>2, <3>4, <3>6
  <2> QED
    BY <2>1, <2>2
<1>5. PICK new : new = Invalidated(q)
  OBVIOUS
<1>6. /\ IsQueryOf(new, Kept(f)) /\ new.data = q.data /\ new.phase = "sent"
      /\ queries' = [queries EXCEPT ![f] = new]
  <2> HIDE DEF q, f
  <2>1. /\ IsQueryOf(Invalidated(q), Kept(f)) /\ Invalidated(q).data = q.data
        /\ Invalidated(q).phase # "idle" /\ Invalidated(q).phase # "read"
    BY <1>4, QueryInvalidated
  <2>2. Invalidated(q).phase \in {"idle", "sent", "read"}
    BY <2>1, QueryFields
  <2> QED
    BY <1>3, <1>5, <2>1, <2>2
<1> HIDE DEF q
<1>7. /\ QueriesTyped' /\ queries'[f] = new
      /\ \A g \in Facets \ {f} : queries'[g] = queries[g]
  <2> HIDE DEF f
  <2> QED
    BY <1>2, <1>6, QueryMoves
<1>8. /\ quick' \in [Quick -> QuickRow] /\ quick'[b] = Resting
      /\ \A c \in Quick \ {b} : quick'[c] = quick[c]
  BY <1>1, QuickMoves, RestingRow
<1>9. WorldTyped' /\ OverviewTyped'
  BY <1>1, <1>8 DEF DashboardInv, WorldTyped, OverviewTyped
<1>10. TestOfShown'
  <2>1. queries["inventory"].data # <<>> => queries'["inventory"].data # <<>>
    BY <1>4, <1>6, <1>7, QuickNames
  <2>2. ASSUME NEW c \in Quick PROVE quick'[c] = quick[c] \/ quick'[c].phase = "idle"
    BY <1>8, RestingRow
  <2> QED
    BY <2>1, <2>2, QuickNames DEF DashboardInv, TestOfShown
<1>11. Shows(f)'
  <2> HIDE DEF f
  <2> QED
    BY <1>2, <1>6, <1>7 DEF Shows
<1>12. \A g \in Facets \ {f} : Shows(g)' <=> Shows(g)
  BY <1>1, <1>7 DEF Shows
<1>13. CASE b = "testAll"
  <2>1. /\ Shows("inventory")' /\ Shows("running")' <=> Shows("running")
        /\ \A c \in Quick \ {"testAll"} : quick'[c] = quick[c]
    BY <1>8, <1>11, <1>12, <1>13, QuickNames
  <2> QED
    BY <1>1, <1>7, <1>9, <1>10, <1>11, <1>12, <1>13, <2>1, QuickNames DEF DashboardInv, Followed
<1>14. CASE b # "testAll"
  <2>1. /\ Shows("running")' /\ (Shows("inventory")' <=> Shows("inventory"))
        /\ quick'["testAll"] = quick["testAll"]
    BY <1>8, <1>11, <1>12, <1>14, QuickNames
  <2> QED
    BY <1>1, <1>7, <1>9, <1>10, <2>1 DEF DashboardInv, Followed
<1> QED
  BY <1>13, <1>14

\* An answer that is lost leaves the page behind what was done.
LEMMA FailureStep ==
  ASSUME DashboardInv, NEW b \in Quick, PressFails(b)
  PROVE  DashboardInv'
<1>1. /\ quick' = [quick EXCEPT ![b] = Resting] /\ notice' = "danger"
      /\ UNCHANGED <<world, queries, presses, changes>>
      /\ behind' = behind \union (CASE b = "testAll" -> {"inventory"}
                                    [] b # "testAll" /\ quick[b].phase = "done" -> {"running"}
                                    [] OTHER -> {})
  BY DEF PressFails
<1>2. /\ behind \subseteq behind' /\ behind' \subseteq behind \union {"inventory", "running"}
      /\ b = "testAll" => "inventory" \in behind'
      /\ b # "testAll" /\ quick[b].phase = "done" => "running" \in behind'
  <2>1. CASE b = "testAll"
    BY <1>1, <2>1
  <2>2. CASE b # "testAll" /\ quick[b].phase = "done"
    <3>1. behind' = behind \union {"running"}
      BY <1>1, <2>2
    <3> QED
      BY <2>2, <3>1
  <2>3. CASE b # "testAll" /\ quick[b].phase # "done"
    <3>1. behind' = behind
      BY <1>1, <2>3
    <3> QED
      BY <2>3, <3>1
  <2> QED
    BY <2>1, <2>2, <2>3
<1>3. /\ quick' \in [Quick -> QuickRow] /\ quick'[b] = Resting
      /\ \A c \in Quick \ {b} : quick'[c] = quick[c]
  BY <1>1, QuickMoves, RestingRow
<1>4. WorldTyped' /\ OverviewTyped' /\ QueriesTyped'
  BY <1>1, <1>2, <1>3, QuickNames DEF DashboardInv, WorldTyped, OverviewTyped, QueriesTyped, Kept
<1>5. TestOfShown'
  <2>1. ASSUME NEW c \in Quick PROVE quick'[c] = quick[c] \/ quick'[c].phase = "idle"
    BY <1>3, RestingRow
  <2> QED
    BY <1>1, <2>1, QuickNames DEF DashboardInv, TestOfShown
<1>6. \A f \in Facets : Shows(f)' <=> Shows(f)
  BY <1>1 DEF Shows
<1>7. \/ "running" \in behind' \/ Shows("running")
      \/ \E c \in Quick \ {"testAll"} : quick'[c].phase = "done"
  <2>1. ASSUME NEW c \in Quick \ {"testAll"}, quick[c].phase = "done"
        PROVE  "running" \in behind' \/ \E d \in Quick \ {"testAll"} : quick'[d].phase = "done"
    BY <1>2, <1>3, <2>1
  <2> QED
    BY <1>2, <2>1 DEF DashboardInv, Followed
<1>8. \/ "inventory" \in behind' \/ Shows("inventory")
      \/ quick'["testAll"].phase \in {"storing", "done", "refused"}
  <2>1. b = "testAll" \/ quick'["testAll"] = quick["testAll"]
    BY <1>3, QuickNames
  <2> QED
    BY <1>2, <2>1 DEF DashboardInv, Followed
<1> QED
  BY <1>4, <1>5, <1>6, <1>7, <1>8, QuickNames DEF DashboardInv, Followed

LEMMA ElsewhereStep ==
  ASSUME DashboardAssumption, DashboardInv, ChangedElsewhere
  PROVE  DashboardInv'
<1>1. changes' \in 0 .. MaxChanges
  BY DEF DashboardAssumption, DashboardInv, OverviewTyped, ChangedElsewhere
<1>2. PICK f \in Facets :
        /\ \E v \in CASE f = "inventory" -> {[n \in DOMAIN world.inventory \ {d} |->
                                                world.inventory[n]] : d \in NodeIds}
                      [] f = "ports" -> {Append(world.ports, TRUE)}
                      [] OTHER -> {~world[f]} :
             world' = [world EXCEPT ![f] = v]
        /\ behind' = behind \union {f}
  BY DEF ChangedElsewhere
<1>3. UNCHANGED <<queries, quick, notice, presses>>
  BY DEF ChangedElsewhere
<1>4. PICK v : world' = [world EXCEPT ![f] = v] /\ v \in Kept(f)
  <2>1. PICK v : /\ v \in CASE f = "inventory" -> {[n \in DOMAIN world.inventory \ {d} |->
                                                world.inventory[n]] : d \in NodeIds}
                            [] f = "ports" -> {Append(world.ports, TRUE)}
                            [] OTHER -> {~world[f]}
                 /\ world' = [world EXCEPT ![f] = v]
    BY <1>2
  <2>2. CASE f = "inventory"
    <3>1. PICK d \in NodeIds : v = [n \in DOMAIN world.inventory \ {d} |-> world.inventory[n]]
      BY <2>1, <2>2
    <3>2. PICK S \in SUBSET NodeIds : world.inventory \in [S -> Results]
      BY DEF DashboardInv, WorldTyped, Inventories
    <3>3. v \in [S \ {d} -> Results]
      BY <3>1, <3>2
    <3>4. v \in Inventories
      BY <3>3 DEF Inventories
    <3> QED
      BY <2>1, <2>2, <3>4 DEF Kept
  <2>3. CASE f = "ports"
    <3>1. world.ports \in Seq(BOOLEAN)
      BY DEF DashboardInv, WorldTyped
    <3>2. v = Append(world.ports, TRUE)
      BY <2>1, <2>3
    <3>3. TRUE \in BOOLEAN
      OBVIOUS
    <3>4. v \in Seq(BOOLEAN)
      BY <3>1, <3>2, <3>3, AppendProperties
    <3> QED
      BY <2>1, <2>3, <3>4 DEF Kept
  <2>4. CASE f \notin {"inventory", "ports"}
    <3>1. v = (~world[f])
      BY <2>1, <2>4
    <3>2. v \in BOOLEAN
      BY <3>1
    <3> QED
      BY <2>1, <2>4, <3>2 DEF Kept
  <2> QED
    BY <2>2, <2>3, <2>4
<1>5. WorldTyped' /\ \A g \in Facets \ {f} : world'[g] = world[g]
  <2>1. WorldTyped /\ f \in {"running", "inventory", "ports", "binary"}
    BY DEF DashboardInv, Facets
  <2>2. \A g \in Facets \ {f} : world'[g] = world[g]
    BY <1>4, <2>1 DEF WorldTyped, Facets
  <2>3. CASE f = "running"
    <3>1. v \in BOOLEAN /\ world' = [world EXCEPT !.running = v]
      BY <1>4, <2>3 DEF Kept
    <3> QED
      BY <2>1, <2>2, <3>1 DEF WorldTyped
  <2>4. CASE f = "inventory"
    <3>1. v \in Inventories /\ world' = [world EXCEPT !.inventory = v]
      BY <1>4, <2>4 DEF Kept
    <3> QED
      BY <2>1, <2>2, <3>1 DEF WorldTyped
  <2>5. CASE f = "ports"
    <3>1. v \in Seq(BOOLEAN) /\ world' = [world EXCEPT !.ports = v]
      BY <1>4, <2>5 DEF Kept
    <3> QED
      BY <2>1, <2>2, <3>1 DEF WorldTyped
  <2>6. CASE f = "binary"
    <3>1. v \in BOOLEAN /\ world' = [world EXCEPT !.binary = v]
      BY <1>4, <2>6 DEF Kept
    <3> QED
      BY <2>1, <2>2, <3>1 DEF WorldTyped
  <2> QED
    BY <2>1, <2>2, <2>3, <2>4, <2>5, <2>6
<1>6. OverviewTyped' /\ QueriesTyped' /\ TestOfShown'
  BY <1>1, <1>2, <1>3 DEF DashboardInv, OverviewTyped, QueriesTyped, TestOfShown, Kept
<1>7. ASSUME NEW g \in Facets, g \in behind \/ Shows(g)
      PROVE  g \in behind' \/ Shows(g)'
  <2>1. CASE g = f
    BY <1>2, <2>1
  <2>2. CASE g # f
    <3>1. Shows(g)' <=> Shows(g)
      BY <1>3, <1>5, <2>2 DEF Shows
    <3> QED
      BY <1>2, <1>7, <3>1
  <2> QED
    BY <2>1, <2>2
<1>8. /\ Followed("running", \E b \in Quick \ {"testAll"} : quick[b].phase = "done")
      /\ Followed("inventory", quick["testAll"].phase \in {"storing", "done", "refused"})
  BY DEF DashboardInv
<1>9. /\ "running" \in behind' \/ (\E b \in Quick \ {"testAll"} : quick[b].phase = "done") \/ Shows("running")'
      /\ "inventory" \in behind' \/ quick["testAll"].phase \in {"storing", "done", "refused"} \/ Shows("inventory")'
  BY <1>7, <1>8, QuickNames DEF Followed
<1> QED
  BY <1>3, <1>5, <1>6, <1>9 DEF DashboardInv, Followed

-----------------------------------------------------------------------------
LEMMA DashboardAlwaysInv == ASSUME DashboardAssumption PROVE DashboardSpec => []DashboardInv
<1>1. DashboardInit => DashboardInv
  BY InitDashboard
<1>2. DashboardInv /\ [DashboardNext]_dashboardVars => DashboardInv'
  <2> SUFFICES ASSUME DashboardInv, [DashboardNext]_dashboardVars PROVE DashboardInv'
    OBVIOUS
  <2>1. CASE StatusInterval \/ FindAll \/ StoreResult \/ TestEnds \/ ChangedElsewhere
    BY <2>1, StatusAsked, FoundStep, StoreStep, EndsStep, ElsewhereStep
  <2>2. ASSUME NEW f \in Facets, QueryRead(f) \/ QueryAnswer(f) \/ QueryFails(f)
        PROVE  DashboardInv'
    BY <2>2, ReadStep, AnswerStep, FailStep
  <2>3. ASSUME NEW b \in Quick, Press(b) \/ Handle(b) \/ PressSucceeds(b) \/ PressFails(b)
        PROVE  DashboardInv'
    BY <2>3, PressStep, HandleStep, SuccessStep, FailureStep
  <2>4. CASE UNCHANGED dashboardVars
    <3>1. UNCHANGED <<world, queries, quick, notice, behind, presses, changes>>
      BY <2>4 DEF dashboardVars
    <3>2. WorldTyped' /\ OverviewTyped' /\ QueriesTyped' /\ TestOfShown'
      BY <3>1 DEF DashboardInv, WorldTyped, OverviewTyped, QueriesTyped, TestOfShown, Kept
    <3> QED
      BY <3>1, <3>2 DEF DashboardInv, Followed, Shows
  <2> QED
    BY <2>1, <2>2, <2>3, <2>4 DEF DashboardNext
<1> QED
  BY <1>1, <1>2, PTL DEF DashboardSpec

\* What the overview and the server hold has its types, for any nodes, latencies and bounds.
THEOREM DashboardTypeCorrect ==
  ASSUME DashboardAssumption PROVE DashboardSpec => []DashboardTypeOK
<1>1. DashboardInv => DashboardTypeOK
  <2> SUFFICES ASSUME DashboardInv PROVE DashboardTypeOK
    OBVIOUS
  <2>1. /\ IsQueryOf(queries["running"], BOOLEAN) /\ IsQueryOf(queries["inventory"], Inventories)
        /\ IsQueryOf(queries["ports"], Seq(BOOLEAN)) /\ IsQueryOf(queries["binary"], BOOLEAN)
    BY DEF DashboardInv, QueriesTyped, Facets, Kept
  <2>2. /\ world.running \in BOOLEAN /\ world.inventory \in Inventories
        /\ world.ports \in Seq(BOOLEAN) /\ world.binary \in BOOLEAN
    BY DEF DashboardInv, WorldTyped
  <2> QED
    BY <2>1, <2>2 DEF DashboardInv, OverviewTyped, QuickRow, DashboardTypeOK
<1> QED
  BY <1>1, DashboardAlwaysInv, PTL

\* For any nodes and actions, with any other change on the server: once all of it has been
\* answered, the overview shows the kernel and the nodes as the server has them
\* (dashboard-overview.tsx:65-131, 133-216).
THEOREM OverviewAlwaysCurrent ==
  ASSUME DashboardAssumption PROVE DashboardSpec => []OverviewCurrent
<1>1. DashboardInv => OverviewCurrent
  <2> SUFFICES ASSUME DashboardInv PROVE OverviewCurrent
    OBVIOUS
  <2>1. ASSUME NEW f \in Facets, ~Fetching(queries[f]), ~queries[f].failed, Shows(f), NEW otherwise
        PROVE  Data(f, otherwise) = world[f]
    <3>1. queries[f].data = <<world[f]>>
      BY <2>1 DEF Fetching, Shows
    <3>2. queries[f].data # <<>> /\ queries[f].data[1] = world[f]
      BY <3>1
    <3> QED
      BY <3>2 DEF Data
  <2>2. ASSUME ~Fetching(queries["running"]), ~queries["running"].failed, "running" \notin behind,
               \A b \in Quick \ {"testAll"} : quick[b] = Resting
        PROVE  Page.running = world.running
    <3>1. Shows("running")
      BY <2>2, RestingRow DEF DashboardInv, Followed
    <3> QED
      BY <2>1, <2>2, <3>1, QuickNames DEF Page, isRunning
  <2>3. ASSUME ~Fetching(queries["inventory"]), ~queries["inventory"].failed,
               "inventory" \notin behind, quick["testAll"] = Resting
        PROVE  /\ Page.numbers = Numbers(world.inventory)
               /\ Page.pills = Distribution(world.inventory)
    <3>1. Shows("inventory")
      BY <2>3, RestingRow DEF DashboardInv, Followed
    <3>2. NodesShown = world.inventory
      BY <2>1, <2>3, <3>1, QuickNames DEF NodesShown
    <3> QED
      BY <3>2 DEF Page
  <2> QED
    BY <2>2, <2>3 DEF OverviewCurrent
<1> QED
  BY <1>1, DashboardAlwaysInv, PTL

-----------------------------------------------------------------------------
(* Signing in.  Whoever is owed a place is there, or at the form that leads there, or away to *)
(* GitHub, whose sign-in leads to Home.                                                      *)

Redirects == Places \union {None}
FormRow == [phase : {"idle"}, to : {None}] \union [phase : {"sent", "done", "refused"}, to : Places]
CodeRow == [given : BOOLEAN, used : BOOLEAN, asked : Nat, flying : Nat, granted : Nat, denied : Nat]

SessionTyped ==
  /\ session \in BOOLEAN /\ provider \in [user : BOOLEAN, loading : BOOLEAN]
  /\ self \in {"idle", "sent", "known", "nobody"}
  /\ informed \in BOOLEAN /\ token \in BOOLEAN
  /\ mailed \in [register : BOOLEAN, reset : BOOLEAN] /\ visits \in 0 .. MaxVisits

RouteTyped ==
  /\ route \in [page : Places \union PublicPages, redirect : Redirects]
  /\ wanted \in Places \union {Unset} /\ byGitHub \in BOOLEAN /\ sent \in [Forms -> FormRow]

\* Every exchange of the code is under way or has been answered for.
CodeTyped ==
  /\ code \in CodeRow /\ code.asked <= MaxExchanges
  /\ code.flying + code.granted + code.denied <= code.asked

\* Who is owed a place is there, or at the login form, which leads there, and so does a login
\* that is under way; or at the page to which GitHub returns; or Home from there.
Owed ==
  wanted # Unset =>
    \/ byGitHub /\ pageNow = Home
    \/ /\ ~byGitHub
       /\ \/ pageNow = wanted
          \/ pageNow = "oauth"
          \/ /\ pageNow = "login" /\ Target(route.redirect) = wanted
             /\ sent["login"].phase # "idle" => sent["login"].to = wanted

SignInInv == SessionTyped /\ RouteTyped /\ CodeTyped /\ Owed

LEMMA SignInConstants ==
  ASSUME SignInAssumption
  PROVE  /\ Home \in Places /\ Unset \notin Places /\ None \notin Places
         /\ Places \intersect PublicPages = {} /\ "login" \in Guarded /\ Guarded \subseteq PublicPages
         /\ "oauth" \notin Guarded /\ "oauth" \notin Places
         /\ "login" \in Forms /\ MaxVisits \in Nat /\ MaxExchanges \in Nat
         /\ \A redirect \in Redirects : Target(redirect) \in Places
BY DEF SignInAssumption, PublicPages, Guarded, Forms, Redirects, Target

LEMMA QuietForms == Quiet \in [Forms -> FormRow] /\ \A f \in Forms : Quiet[f].phase = "idle"
BY DEF Quiet, FormRow, Redirects

LEMMA NewCode ==
  ASSUME SignInAssumption, NEW exchange \in BOOLEAN,
         code' = [NoCode EXCEPT !.given = exchange]
  PROVE  CodeTyped'
<1>1. /\ code' = [given |-> exchange, used |-> FALSE, asked |-> 0, flying |-> 0, granted |-> 0,
                  denied |-> 0]
      /\ MaxExchanges \in Nat
  BY SignInConstants DEF NoCode
<1>2. code' \in CodeRow
  <2>1. PICK zero \in Nat : zero = 0
    OBVIOUS
  <2>2. [given |-> exchange, used |-> FALSE, asked |-> zero, flying |-> zero, granted |-> zero,
         denied |-> zero] \in CodeRow
    BY DEF CodeRow
  <2> QED
    BY <1>1, <2>1, <2>2
<1>3. code'.asked = 0 /\ code'.flying = 0 /\ code'.granted = 0 /\ code'.denied = 0
  BY <1>1
<1> QED
  BY <1>1, <1>2, <1>3 DEF CodeTyped

LEMMA InitSignIn == ASSUME SignInAssumption PROVE SignInInit => SignInInv
<1> SUFFICES ASSUME SignInInit PROVE SignInInv
  OBVIOUS
<1>1. SessionTyped
  <2>1. visits \in 0 .. MaxVisits
    BY SignInConstants DEF SignInInit
  <2>2. /\ session \in BOOLEAN /\ provider \in [user : BOOLEAN, loading : BOOLEAN]
        /\ mailed \in [register : BOOLEAN, reset : BOOLEAN] /\ informed = FALSE /\ token = FALSE
        /\ self = "sent"
    BY DEF SignInInit
  <2> QED
    BY <2>1, <2>2 DEF SessionTyped
<1>2. RouteTyped
  BY QuietForms DEF SignInInit, RouteTyped, Redirects
<1>3. CodeTyped
  BY SignInConstants DEF SignInInit, CodeTyped, CodeRow, NoCode
<1>4. Owed
  BY DEF SignInInit, Owed
<1> QED
  BY <1>1, <1>2, <1>3, <1>4 DEF SignInInv

LEMMA VisitSteps ==
  ASSUME SignInAssumption, SignInInv, Visit
  PROVE  visits' \in 0 .. MaxVisits
BY SignInConstants DEF SignInInv, SessionTyped, Visit

\* A page load begins with nothing under way, and with nothing owed but at GitHub's return.
LEMMA Loads ==
  ASSUME SignInAssumption, SignInInv, NEW p \in Places \union PublicPages,
         NEW exchange \in BOOLEAN, Load(p, exchange), Visit, UNCHANGED <<session, mailed>>,
         wanted' = Unset \/ (UNCHANGED wanted /\ p = "oauth")
  PROVE  SignInInv'
<1>1. SessionTyped'
  BY VisitSteps DEF Load, SignInInv, SessionTyped
<1>2. RouteTyped'
  BY QuietForms DEF Load, At, SignInInv, RouteTyped, Redirects
<1>3. CodeTyped'
  BY NewCode DEF Load
<1>4. Owed'
  BY DEF Load, At, Owed, pageNow
<1> QED
  BY <1>1, <1>2, <1>3, <1>4 DEF SignInInv

LEMMA LoadSteps ==
  ASSUME SignInAssumption, SignInInv, Open \/ handleGitHubLogin
  PROVE  SignInInv'
<1>1. "oauth" \in PublicPages
  BY DEF PublicPages
<1> QED
  BY <1>1, Loads DEF Open, handleGitHubLogin

\* What changes neither the route, nor a form, nor what is owed.
LEMMA Elsewhere ==
  ASSUME SignInInv, UNCHANGED <<route, sent, wanted, byGitHub>>, SessionTyped', CodeTyped'
  PROVE  SignInInv'
<1>1. RouteTyped' /\ Owed'
  BY DEF SignInInv, RouteTyped, Owed, pageNow
<1> QED
  BY <1>1 DEF SignInInv

LEMMA ProviderSteps ==
  ASSUME SignInAssumption, SignInInv,
         refreshUser \/ SelfRead \/ SelfAnswer \/ StatusAnswer \/ TurnstileWidget
  PROVE  SignInInv'
<1>1. UNCHANGED <<session, route, sent, code, mailed, wanted, byGitHub>>
  BY DEF refreshUser, SelfRead, SelfAnswer, StatusAnswer, TurnstileWidget
<1>2. visits' \in 0 .. MaxVisits
  <2>1. visits' = visits \/ Visit
    BY DEF refreshUser, SelfRead, SelfAnswer, StatusAnswer, TurnstileWidget
  <2> QED
    BY <2>1, VisitSteps DEF SignInInv, SessionTyped
<1>3. /\ provider' \in [user : BOOLEAN, loading : BOOLEAN]
      /\ self' \in {"idle", "sent", "known", "nobody"} /\ informed' \in BOOLEAN /\ token' \in BOOLEAN
  <2>1. /\ provider \in [user : BOOLEAN, loading : BOOLEAN] /\ token \in BOOLEAN
        /\ self \in {"idle", "sent", "known", "nobody"} /\ informed \in BOOLEAN
    BY DEF SignInInv, SessionTyped
  <2>2. provider' = provider \/ provider' = [user |-> self = "known", loading |-> FALSE]
    BY DEF refreshUser, SelfRead, SelfAnswer, StatusAnswer, TurnstileWidget
  <2>3. self' \in {self, "idle", "sent", "known", "nobody"}
    BY DEF refreshUser, SelfRead, SelfAnswer, StatusAnswer, TurnstileWidget
  <2>4. informed' = informed \/ informed' = TRUE
    BY DEF refreshUser, SelfRead, SelfAnswer, StatusAnswer, TurnstileWidget
  <2>5. token' = token \/ token' = ~token
    BY DEF refreshUser, SelfRead, SelfAnswer, StatusAnswer, TurnstileWidget
  <2>6. provider' \in [user : BOOLEAN, loading : BOOLEAN]
    <3>1. [user |-> self = "known", loading |-> FALSE] \in [user : BOOLEAN, loading : BOOLEAN]
      OBVIOUS
    <3> QED
      BY <2>1, <2>2, <3>1
  <2>7. token' \in BOOLEAN
    BY <2>1, <2>5
  <2> QED
    BY <2>1, <2>3, <2>4, <2>6, <2>7
<1>4. SessionTyped'
  BY <1>1, <1>2, <1>3 DEF SignInInv, SessionTyped
<1>5. CodeTyped'
  BY <1>1 DEF SignInInv, CodeTyped
<1> QED
  BY <1>1, <1>4, <1>5, Elsewhere

\* The guards: what sends the operator to the login form leads back from it.
LEMMA GuardSteps ==
  ASSUME SignInAssumption, SignInInv, DashboardAuthGuard \/ PublicAuthGuard
  PROVE  SignInInv'
<1>1. UNCHANGED <<session, provider, self, informed, token, sent, code, mailed, visits>>
  BY DEF DashboardAuthGuard, PublicAuthGuard
<1>2. SessionTyped' /\ CodeTyped'
  BY <1>1 DEF SignInInv, SessionTyped, CodeTyped
<1>3. /\ route \in [page : Places \union PublicPages, redirect : Redirects]
      /\ wanted \in Places \union {Unset} /\ byGitHub \in BOOLEAN
      /\ sent \in [Forms -> FormRow] /\ Owed
  BY DEF SignInInv, RouteTyped
<1>4. CASE DashboardAuthGuard
  <2>1. /\ pageNow \in Places /\ sent' = sent
        /\ route' = [page |-> "login", redirect |-> IF pageNow = Home THEN None ELSE pageNow]
        /\ wanted' = IF sent["login"].phase = "idle" THEN pageNow ELSE Unset
        /\ byGitHub' = FALSE
    BY <1>4 DEF DashboardAuthGuard, At
  <2>2. RouteTyped'
    BY <1>3, <2>1, SignInConstants DEF RouteTyped, Redirects
  <2>3. Owed'
    <3>1. Target(route'.redirect) = pageNow
      BY <2>1, SignInConstants DEF Target
    <3> QED
      BY <2>1, <3>1 DEF Owed, pageNow
  <2> QED
    BY <1>2, <2>2, <2>3 DEF SignInInv
<1>5. CASE PublicAuthGuard
  <2>1. /\ pageNow \in Guarded /\ sent' = sent /\ wanted' = wanted /\ byGitHub' = byGitHub
        /\ route' = [page |-> Target(route.redirect), redirect |-> None]
    BY <1>5 DEF PublicAuthGuard, At
  <2>2. Target(route.redirect) \in Places
    BY <1>3, SignInConstants
  <2>3. RouteTyped'
    BY <1>3, <2>1, <2>2 DEF RouteTyped, Redirects
  <2>4. ASSUME wanted # Unset PROVE pageNow # wanted /\ pageNow # Home /\ pageNow # "oauth"
    BY <1>3, <2>1, <2>4, SignInConstants
  <2>5. Owed'
    BY <1>3, <2>1, <2>4 DEF Owed, pageNow
  <2> QED
    BY <1>2, <2>3, <2>5 DEF SignInInv
<1> QED
  BY <1>4, <1>5

LEMMA FollowStep ==
  ASSUME SignInAssumption, SignInInv, Follow
  PROVE  SignInInv'
<1>1. PICK p \in Places \union {"login", "register", "reset"} :
             route' = [page |-> p, redirect |-> None] /\ wanted' = Unset /\ byGitHub' = FALSE
  BY DEF Follow, At
<1>2. Visit /\ UNCHANGED <<session, provider, self, informed, token, sent, code, mailed>>
  BY DEF Follow
<1>3. SessionTyped'
  BY <1>2, VisitSteps DEF SignInInv, SessionTyped
<1>4. RouteTyped' /\ CodeTyped' /\ Owed'
  BY <1>1, <1>2 DEF SignInInv, RouteTyped, CodeTyped, Owed, PublicPages, Guarded, Redirects
<1> QED
  BY <1>3, <1>4 DEF SignInInv

-----------------------------------------------------------------------------
\* A form that changes leaves the others as they are.
LEMMA FormMoves ==
  ASSUME SignInInv, NEW f \in Forms, NEW row \in FormRow, sent' = [sent EXCEPT ![f] = row]
  PROVE  sent' \in [Forms -> FormRow] /\ sent'[f] = row /\ \A g \in Forms \ {f} : sent'[g] = sent[g]
BY DEF SignInInv, RouteTyped

LEMMA SubmitStep ==
  ASSUME SignInAssumption, SignInInv, NEW f \in Forms, Submit(f), f = "login" => pageNow = "login"
  PROVE  SignInInv'
<1> DEFINE row == [phase |-> "sent", to |-> Target(route.redirect)]
<1>1. /\ sent' = [sent EXCEPT ![f] = row]
      /\ UNCHANGED <<session, provider, self, route, informed, token, code, mailed, wanted, byGitHub, visits>>
  BY DEF Submit
<1>2. Target(route.redirect) \in Places /\ wanted \in Places \union {Unset}
  BY SignInConstants DEF SignInInv, RouteTyped
<1>3. row \in FormRow /\ row.to = Target(route.redirect)
  BY <1>2 DEF FormRow
<1> HIDE DEF row
<1>4. sent' \in [Forms -> FormRow] /\ sent'[f] = row /\ \A g \in Forms \ {f} : sent'[g] = sent[g]
  BY <1>1, <1>3, FormMoves
<1>5. Owed'
  <2>1. Owed /\ "login" \in Forms /\ "login" \notin Places
    BY SignInConstants DEF SignInInv
  <2>2. CASE f = "login"
    BY <1>1, <1>2, <1>3, <1>4, <2>1, <2>2 DEF Owed, pageNow
  <2>3. CASE f # "login"
    BY <1>1, <1>4, <2>1, <2>3 DEF Owed, pageNow
  <2> QED
    BY <2>2, <2>3
<1>6. SessionTyped' /\ CodeTyped' /\ RouteTyped'
  BY <1>1, <1>4 DEF SignInInv, SessionTyped, CodeTyped, RouteTyped
<1> QED
  BY <1>5, <1>6 DEF SignInInv

LEMMA SubmitSteps ==
  ASSUME SignInAssumption, SignInInv,
         \/ handleLogin \/ handleRegister \/ handleMailCode \/ handleMailLink \/ handleConfirm
         \/ handleLogout
  PROVE  SignInInv'
<1>1. "login" \in Forms /\ "register" \in Forms /\ "mail" \in Forms /\ "link" \in Forms
      /\ "confirm" \in Forms /\ "logout" \in Forms
  BY DEF Forms
<1>2. CASE handleLogin
  BY <1>1, <1>2, SubmitStep DEF handleLogin, LoginForm
<1>3. CASE handleRegister \/ handleMailCode \/ handleMailLink \/ handleConfirm \/ handleLogout
  <2>1. PICK f \in Forms \ {"login"} : Submit(f)
    BY <1>1, <1>3
    DEF handleRegister, handleMailCode, handleMailLink, handleConfirm, handleLogout
  <2> QED
    BY <2>1, SubmitStep
<1> QED
  BY <1>2, <1>3

\* The login that is under way goes on, or is over.
LEMMA FormAnswered ==
  ASSUME SignInInv, NEW f \in Forms, NEW row \in FormRow, sent' = [sent EXCEPT ![f] = row],
         row.phase # "idle" => row.to = sent[f].to /\ sent[f].phase # "idle",
         UNCHANGED <<route, wanted, byGitHub>>, SignInAssumption
  PROVE  RouteTyped' /\ Owed'
<1>1. sent' \in [Forms -> FormRow] /\ sent'[f] = row /\ \A g \in Forms \ {f} : sent'[g] = sent[g]
  BY FormMoves
<1>2. RouteTyped'
  BY <1>1 DEF SignInInv, RouteTyped
<1>3. Owed'
  BY <1>1, SignInConstants DEF SignInInv, Owed, pageNow
<1> QED
  BY <1>2, <1>3

LEMMA ServedStep ==
  ASSUME SignInAssumption, SignInInv, NEW f \in Forms, FormServed(f)
  PROVE  SignInInv'
<1>1. /\ sent[f].phase = "sent"
      /\ UNCHANGED <<provider, self, route, informed, token, code, wanted, byGitHub, visits>>
  BY DEF FormServed
<1>2. PICK phase \in {"done", "refused"} : sent' = [sent EXCEPT ![f].phase = phase]
  BY DEF FormServed
<1> DEFINE row == [sent[f] EXCEPT !.phase = phase]
<1>3. sent \in [Forms -> FormRow] /\ sent[f] \in FormRow
  BY DEF SignInInv, RouteTyped
<1>4. row \in FormRow /\ row.to = sent[f].to
  <2>1. sent[f] \in [phase : {"sent", "done", "refused"}, to : Places]
    BY <1>1, <1>3 DEF FormRow
  <2>2. row \in [phase : {"sent", "done", "refused"}, to : Places] /\ row.to = sent[f].to
    BY <2>1
  <2> QED
    BY <2>2 DEF FormRow
<1>5. sent' = [sent EXCEPT ![f] = row]
  BY <1>2, <1>3
<1> HIDE DEF row
<1>6. RouteTyped' /\ Owed'
  BY <1>1, <1>4, <1>5, FormAnswered
<1>7. session' \in BOOLEAN /\ mailed' \in [register : BOOLEAN, reset : BOOLEAN]
  <2>1. CASE UNCHANGED <<session, mailed>>
    BY <2>1 DEF SignInInv, SessionTyped
  <2>2. CASE Effect(f)
    <3>1. session' \in BOOLEAN
      BY <2>2 DEF Effect, SignInInv, SessionTyped
    <3>2. mailed' \in [register : BOOLEAN, reset : BOOLEAN]
      <4>1. mailed \in [register : BOOLEAN, reset : BOOLEAN]
        BY DEF SignInInv, SessionTyped
      <4> QED
        BY <2>2, <4>1 DEF Effect
    <3> QED
      BY <3>1, <3>2
  <2> QED
    BY <2>1, <2>2 DEF FormServed
<1>8. SessionTyped' /\ CodeTyped'
  BY <1>1, <1>7 DEF SignInInv, SessionTyped, CodeTyped
<1> QED
  BY <1>6, <1>8 DEF SignInInv

LEMMA AnswerTyped ==
  ASSUME SignInInv, NEW f \in Forms, NEW phase, Answer(f, phase),
         provider' \in [user : BOOLEAN, loading : BOOLEAN]
  PROVE  /\ SessionTyped' /\ CodeTyped' /\ sent' \in [Forms -> FormRow] /\ sent'[f].phase = "idle"
         /\ Quiet[f] \in FormRow /\ Quiet[f].phase = "idle" /\ sent' = [sent EXCEPT ![f] = Quiet[f]]
<1>1. /\ sent' = [sent EXCEPT ![f] = Quiet[f]]
      /\ UNCHANGED <<session, self, informed, token, code, mailed, visits>>
  BY DEF Answer
<1>2. Quiet[f] \in FormRow /\ Quiet[f].phase = "idle"
  BY QuietForms
<1>3. sent' \in [Forms -> FormRow] /\ sent'[f].phase = "idle"
  BY <1>1, <1>2, FormMoves
<1>4. SessionTyped' /\ CodeTyped'
  BY <1>1 DEF SignInInv, SessionTyped, CodeTyped
<1> QED
  BY <1>1, <1>2, <1>3, <1>4

LEMMA KnownUser ==
  ASSUME NEW known \in BOOLEAN, setUser(known)
  PROVE  provider' \in [user : BOOLEAN, loading : BOOLEAN]
BY DEF setUser

LEMMA LoginAnswers ==
  ASSUME SignInAssumption, SignInInv, LoginAnswer
  PROVE  SignInInv'
<1>1. /\ Answer("login", "done") /\ setUser(TRUE)
      /\ route' = [page |-> sent["login"].to, redirect |-> None]
      /\ wanted' = IF pageNow = "login" THEN wanted ELSE Unset
      /\ byGitHub' = byGitHub
  BY DEF LoginAnswer, At
<1>2. "login" \in Forms
  BY DEF Forms
<1>3. SessionTyped' /\ CodeTyped' /\ sent' \in [Forms -> FormRow]
  BY <1>1, <1>2, KnownUser, AnswerTyped
<1>4. sent["login"].phase = "done"
  BY <1>1 DEF Answer
<1>5. sent["login"].to \in Places
  BY <1>2, <1>4 DEF SignInInv, RouteTyped, FormRow
<1>6. RouteTyped'
  BY <1>1, <1>3, <1>5 DEF SignInInv, RouteTyped, Redirects
<1>7. Owed'
  <2>1. /\ "login" \notin Places /\ Home \in Places /\ wanted \in Places \union {Unset}
        /\ Owed
    BY SignInConstants DEF SignInInv, RouteTyped, PublicPages
  <2> QED
    BY <1>1, <1>4, <2>1 DEF Owed, pageNow
<1> QED
  BY <1>3, <1>6, <1>7 DEF SignInInv

LEMMA RegisterAnswers ==
  ASSUME SignInAssumption, SignInInv, RegisterAnswer
  PROVE  SignInInv'
<1>1. /\ Answer("register", "done") /\ UNCHANGED provider /\ wanted' = Unset /\ byGitHub' = FALSE
      /\ route' = [page |-> "login", redirect |-> None]
  BY DEF RegisterAnswer, At
<1>2. provider' \in [user : BOOLEAN, loading : BOOLEAN] /\ "register" \in Forms
  BY <1>1 DEF SignInInv, SessionTyped, Forms
<1>3. SessionTyped' /\ CodeTyped' /\ sent' \in [Forms -> FormRow]
  BY <1>1, <1>2, AnswerTyped
<1>4. RouteTyped' /\ Owed'
  BY <1>1, <1>3 DEF RouteTyped, Redirects, PublicPages, Guarded, Owed
<1> QED
  BY <1>3, <1>4 DEF SignInInv

\* An answer that is only shown moves nobody.
LEMMA AnswerShown ==
  ASSUME SignInAssumption, SignInInv, NEW f \in Forms, NEW phase, Answer(f, phase),
         UNCHANGED <<route, wanted, byGitHub>>, provider' \in [user : BOOLEAN, loading : BOOLEAN]
  PROVE  SignInInv'
<1>1. /\ SessionTyped' /\ CodeTyped' /\ Quiet[f] \in FormRow /\ Quiet[f].phase = "idle"
      /\ sent' = [sent EXCEPT ![f] = Quiet[f]]
  BY AnswerTyped
<1>2. RouteTyped' /\ Owed'
  <2>1. PICK row : row = Quiet[f]
    OBVIOUS
  <2>2. row \in FormRow /\ row.phase = "idle" /\ sent' = [sent EXCEPT ![f] = row]
    BY <1>1, <2>1
  <2> QED
    BY <2>2, FormAnswered
<1> QED
  BY <1>1, <1>2 DEF SignInInv

LEMMA ShownAnswers ==
  ASSUME SignInAssumption, SignInInv, ShownAnswer
  PROVE  SignInInv'
<1>1. UNCHANGED <<provider, route, wanted, byGitHub>> /\ \E f \in Forms, phase \in {"done", "refused"} : Answer(f, phase)
  BY DEF ShownAnswer, Forms
<1>2. provider' \in [user : BOOLEAN, loading : BOOLEAN]
  BY <1>1 DEF SignInInv, SessionTyped
<1> QED
  BY <1>1, <1>2, AnswerShown

LEMMA LogoutAnswers ==
  ASSUME SignInAssumption, SignInInv, LogoutAnswer
  PROVE  SignInInv'
<1>1. "logout" \in Forms
  BY DEF Forms
<1>2. CASE Answer("logout", "refused") /\ setUser(FALSE) /\ UNCHANGED <<route, wanted, byGitHub>>
  BY <1>1, <1>2, KnownUser, AnswerShown
<1>3. CASE /\ Answer("logout", "done") /\ setUser(FALSE) /\ wanted' = Unset /\ byGitHub' = FALSE
           /\ route' \in {At("login", None)}
                \union {At("login", IF p = Home THEN None ELSE p) : p \in Places \intersect {pageNow}}
  <2>1. SessionTyped' /\ CodeTyped' /\ sent' \in [Forms -> FormRow]
    BY <1>1, <1>3, KnownUser, AnswerTyped
  <2>2. route' \in [page : Places \union PublicPages, redirect : Redirects]
    BY <1>3 DEF At, Redirects, PublicPages, Guarded
  <2>3. RouteTyped' /\ Owed'
    BY <1>3, <2>1, <2>2 DEF RouteTyped, Owed
  <2> QED
    BY <2>1, <2>3 DEF SignInInv
<1> QED
  BY <1>2, <1>3 DEF LogoutAnswer

-----------------------------------------------------------------------------
LEMMA CodeSteps ==
  ASSUME SignInAssumption, SignInInv,
         \/ code.asked < MaxExchanges /\ code' = [code EXCEPT !.asked = @ + 1, !.flying = @ + 1]
         \/ /\ code.flying > 0
            /\ code' = [code EXCEPT !.flying = @ - 1, !.used = TRUE, !.granted = @ + 1]
         \/ code.flying > 0 /\ code' = [code EXCEPT !.flying = @ - 1, !.denied = @ + 1]
         \/ code.granted > 0 /\ code' = [code EXCEPT !.granted = @ - 1]
         \/ code.denied > 0 /\ code' = [code EXCEPT !.denied = @ - 1]
  PROVE  CodeTyped'
<1>1. code \in CodeRow /\ MaxExchanges \in Nat /\ code.asked <= MaxExchanges
      /\ code.flying + code.granted + code.denied <= code.asked
  BY SignInConstants DEF SignInInv, CodeTyped
<1>2. /\ code = [given |-> code.given, used |-> code.used, asked |-> code.asked,
                 flying |-> code.flying, granted |-> code.granted, denied |-> code.denied]
      /\ code.given \in BOOLEAN /\ code.used \in BOOLEAN
  BY <1>1 DEF CodeRow
<1>3. /\ code.asked \in Nat /\ code.flying \in Nat /\ code.granted \in Nat
      /\ code.denied \in Nat
  BY <1>1 DEF CodeRow
<1>4. PICK used \in BOOLEAN, asked \in Nat, flying \in Nat, granted \in Nat, denied \in Nat :
        /\ code' = [given |-> code.given, used |-> used, asked |-> asked, flying |-> flying,
                    granted |-> granted, denied |-> denied]
        /\ asked <= MaxExchanges /\ flying + granted + denied <= asked
  <2>1. CASE code.asked < MaxExchanges /\ code' = [code EXCEPT !.asked = @ + 1, !.flying = @ + 1]
    <3>1. /\ code.asked + 1 \in Nat /\ code.flying + 1 \in Nat /\ code.asked + 1 <= MaxExchanges
          /\ (code.flying + 1) + code.granted + code.denied <= code.asked + 1
      BY <1>1, <1>3, <2>1
    <3>2. code' = [given |-> code.given, used |-> code.used, asked |-> code.asked + 1,
                   flying |-> code.flying + 1, granted |-> code.granted, denied |-> code.denied]
      BY <1>2, <2>1
    <3> QED
      BY <1>2, <1>3, <3>1, <3>2
  <2>2. CASE /\ code.flying > 0
             /\ code' = [code EXCEPT !.flying = @ - 1, !.used = TRUE, !.granted = @ + 1]
    <3>1. /\ code.flying - 1 \in Nat /\ code.granted + 1 \in Nat
          /\ (code.flying - 1) + (code.granted + 1) + code.denied <= code.asked
      BY <1>1, <1>3, <2>2
    <3>2. code' = [given |-> code.given, used |-> TRUE, asked |-> code.asked,
                   flying |-> code.flying - 1, granted |-> code.granted + 1, denied |-> code.denied]
      BY <1>2, <2>2
    <3> QED
      BY <1>1, <1>3, <3>1, <3>2
  <2>3. CASE code.flying > 0 /\ code' = [code EXCEPT !.flying = @ - 1, !.denied = @ + 1]
    <3>1. /\ code.flying - 1 \in Nat /\ code.denied + 1 \in Nat
          /\ (code.flying - 1) + code.granted + (code.denied + 1) <= code.asked
      BY <1>1, <1>3, <2>3
    <3>2. code' = [given |-> code.given, used |-> code.used, asked |-> code.asked,
                   flying |-> code.flying - 1, granted |-> code.granted, denied |-> code.denied + 1]
      BY <1>2, <2>3
    <3> QED
      BY <1>1, <1>2, <1>3, <3>1, <3>2
  <2>4. CASE code.granted > 0 /\ code' = [code EXCEPT !.granted = @ - 1]
    <3>1. /\ code.granted - 1 \in Nat
          /\ code.flying + (code.granted - 1) + code.denied <= code.asked
      BY <1>1, <1>3, <2>4
    <3>2. code' = [given |-> code.given, used |-> code.used, asked |-> code.asked,
                   flying |-> code.flying, granted |-> code.granted - 1, denied |-> code.denied]
      BY <1>2, <2>4
    <3> QED
      BY <1>1, <1>2, <1>3, <3>1, <3>2
  <2>5. CASE code.denied > 0 /\ code' = [code EXCEPT !.denied = @ - 1]
    <3>1. /\ code.denied - 1 \in Nat
          /\ code.flying + code.granted + (code.denied - 1) <= code.asked
      BY <1>1, <1>3, <2>5
    <3>2. code' = [given |-> code.given, used |-> code.used, asked |-> code.asked,
                   flying |-> code.flying, granted |-> code.granted, denied |-> code.denied - 1]
      BY <1>2, <2>5
    <3> QED
      BY <1>1, <1>2, <1>3, <3>1, <3>2
  <2> QED
    BY <2>1, <2>2, <2>3, <2>4, <2>5
<1>5. code' \in CodeRow
  BY <1>2, <1>4 DEF CodeRow
<1>6. code'.asked = asked /\ code'.flying = flying /\ code'.granted = granted /\ code'.denied = denied
  BY <1>4
<1> QED
  BY <1>4, <1>5, <1>6 DEF CodeTyped

LEMMA ExchangeSteps ==
  ASSUME SignInAssumption, SignInInv, Exchange \/ ExchangeServed
  PROVE  SignInInv'
<1>1. /\ UNCHANGED <<provider, self, route, informed, token, sent, mailed, wanted, byGitHub, visits>>
      /\ session' = session \/ session' = TRUE
  BY DEF Exchange, ExchangeServed
<1>2. SessionTyped'
  BY <1>1 DEF SignInInv, SessionTyped
<1>3. CodeTyped'
  <2>1. CASE Exchange
    BY <2>1, CodeSteps DEF Exchange
  <2>2. CASE ExchangeServed
    BY <2>2, CodeSteps DEF ExchangeServed
  <2> QED
    BY <2>1, <2>2
<1> QED
  BY <1>1, <1>2, <1>3, Elsewhere

LEMMA ExchangeAnswers ==
  ASSUME SignInAssumption, SignInInv, ExchangeAnswer
  PROVE  SignInInv'
<1>1. UNCHANGED <<session, self, informed, token, sent, mailed, visits>>
  BY DEF ExchangeAnswer
<1>2. CodeTyped'
  BY CodeSteps DEF ExchangeAnswer
<1>3. SessionTyped'
  <2>1. provider' \in [user : BOOLEAN, loading : BOOLEAN]
    BY KnownUser DEF ExchangeAnswer, SignInInv, SessionTyped
  <2> QED
    BY <1>1, <2>1 DEF SignInInv, SessionTyped
<1>4. RouteTyped' /\ Owed'
  <2>1. CASE route' = At(Home, None) /\ byGitHub' = TRUE /\ UNCHANGED wanted
    <3>1. route' = [page |-> Home, redirect |-> None] /\ Home \in Places
      BY <2>1, SignInConstants DEF At
    <3>2. RouteTyped'
      BY <1>1, <2>1, <3>1 DEF SignInInv, RouteTyped, Redirects
    <3>3. Owed'
      BY <2>1, <3>1 DEF Owed, pageNow
    <3> QED
      BY <3>2, <3>3
  <2>2. CASE UNCHANGED <<provider, route, wanted, byGitHub>>
    BY <1>1, <2>2 DEF SignInInv, RouteTyped, Owed, pageNow
  <2> QED
    BY <2>1, <2>2 DEF ExchangeAnswer
<1> QED
  BY <1>2, <1>3, <1>4 DEF SignInInv

LEMMA SignInAlwaysInv == ASSUME SignInAssumption PROVE SignInSpec => []SignInInv
<1>1. SignInInit => SignInInv
  BY InitSignIn
<1>2. SignInInv /\ [SignInNext]_signInVars => SignInInv'
  <2> SUFFICES ASSUME SignInInv, [SignInNext]_signInVars PROVE SignInInv'
    OBVIOUS
  <2>1. CASE Open \/ handleGitHubLogin
    BY <2>1, LoadSteps
  <2>2. CASE refreshUser \/ SelfRead \/ SelfAnswer \/ StatusAnswer \/ TurnstileWidget
    BY <2>2, ProviderSteps
  <2>3. CASE DashboardAuthGuard \/ PublicAuthGuard
    BY <2>3, GuardSteps
  <2>4. CASE Follow
    BY <2>4, FollowStep
  <2>5. CASE \/ handleLogin \/ handleRegister \/ handleMailCode \/ handleMailLink
             \/ handleConfirm \/ handleLogout
    BY <2>5, SubmitSteps
  <2>6. CASE \E f \in Forms : FormServed(f)
    BY <2>6, ServedStep
  <2>7. CASE LoginAnswer
    BY <2>7, LoginAnswers
  <2>8. CASE RegisterAnswer
    BY <2>8, RegisterAnswers
  <2>9. CASE ShownAnswer
    BY <2>9, ShownAnswers
  <2>10. CASE LogoutAnswer
    BY <2>10, LogoutAnswers
  <2>11. CASE Exchange \/ ExchangeServed
    BY <2>11, ExchangeSteps
  <2>12. CASE ExchangeAnswer
    BY <2>12, ExchangeAnswers
  <2>13. CASE UNCHANGED signInVars
    <3>1. UNCHANGED <<session, provider, self, route, informed, token, sent, code, mailed,
                      wanted, byGitHub, visits>>
      BY <2>13 DEF signInVars
    <3>2. SessionTyped' /\ CodeTyped'
      BY <3>1 DEF SignInInv, SessionTyped, CodeTyped
    <3> QED
      BY <3>1, <3>2, Elsewhere
  <2> QED
    BY <2>1, <2>2, <2>3, <2>4, <2>5, <2>6, <2>7, <2>8, <2>9, <2>10, <2>11, <2>12, <2>13
    DEF SignInNext
<1> QED
  BY <1>1, <1>2, PTL DEF SignInSpec

\* The session, the guards, the forms and the exchanges of GitHub's code have their types, for
\* any pages and bounds: no exchange is answered twice.
THEOREM SignInTypeCorrect == ASSUME SignInAssumption PROVE SignInSpec => []SignInTypeOK
<1>1. SignInInv => SignInTypeOK
  <2> SUFFICES ASSUME SignInInv PROVE SignInTypeOK
    OBVIOUS
  <2>1. ASSUME NEW f \in Forms
        PROVE  /\ sent[f].phase \in {"idle", "sent", "done", "refused"}
               /\ sent[f].to \in Places \union {None}
    BY DEF SignInInv, RouteTyped, FormRow
  <2>2. code.flying + code.granted + code.denied <= MaxExchanges
    BY SignInConstants DEF SignInInv, CodeTyped, CodeRow
  <2> QED
    BY <2>1, <2>2 DEF SignInInv, SessionTyped, RouteTyped, Redirects, SignInTypeOK
<1> QED
  BY <1>1, SignInAlwaysInv, PTL

\* For any pages and any order of guards, answers and clicks: whoever is turned away from a
\* page of the console and signs in by the login form arrives at that page, and whoever signs
\* in at GitHub arrives Home, whatever the page was (dashboard-auth-guard.tsx:19-23,
\* public-auth-guard.tsx:19-23, login-form.tsx:47-50, github-oauth-callback.tsx:22-26).
THEOREM AlwaysLandsWhereAsked ==
  ASSUME SignInAssumption PROVE SignInSpec => []LandsWhereAsked
<1>1. SignInInv => LandsWhereAsked
  BY SignInConstants DEF SignInInv, Owed, LandsWhereAsked, PublicPages
<1> QED
  BY <1>1, SignInAlwaysInv, PTL

-----------------------------------------------------------------------------
(* The page of the system log. *)

EntryIds == 1 .. MaxEntries
PollRow == [phase : {"idle", "sent", "read"}, class : Filters, after : 0 .. MaxEntries,
            answer : SUBSET EntryIds, late : BOOLEAN]

\* A piece of the ids of a filter: none between two of it is missing.
PieceOf(s, all) == s \subseteq all /\ \A a, b \in s, i \in all : a <= i /\ i <= b => i \in s

\* The piece that follows an id.
NextOf(s, all, n) ==
  /\ s \subseteq all /\ \A b \in s : n < b
  /\ \A b \in s, i \in all : n < i /\ i <= b => i \in s

Holds(q, all) ==
  /\ IsQueryOf(q, SUBSET EntryIds)
  /\ q.phase = "read" => q.answer # <<>>
  /\ q.data # <<>> => PieceOf(q.data[1], all)
  /\ q.answer # <<>> => PieceOf(q.answer[1], all)

LogsTyped ==
  /\ written \in Seq(Classes) /\ Len(written) <= MaxEntries
  /\ class \in Filters /\ paused \in BOOLEAN /\ mixed \in BOOLEAN
  /\ logs \subseteq DOMAIN written /\ turns \in 0 .. MaxTurns
  /\ DOMAIN recent = Filters /\ polls \in [Askers -> PollRow]

PiecesKept == \A f \in Filters : Holds(recent[f], Of(f))

\* What a poll has read is a piece: the newest, or what follows the entry it named.
PollsRead ==
  \A a \in Askers : polls[a].phase = "read" =>
    /\ polls[a].after = 0 => PieceOf(polls[a].answer, Of(polls[a].class))
    /\ polls[a].after # 0 => NextOf(polls[a].answer, Of(polls[a].class), polls[a].after)

\* The entry it named is still on display.
PollsContinue ==
  \A a \in Askers : polls[a].phase # "idle" /\ ~polls[a].late =>
    polls[a].class = class /\ (polls[a].after = 0 \/ polls[a].after \in logs)

LogsInv ==
  /\ LogsTyped /\ PiecesKept /\ PollsRead
  /\ ~mixed => PollsContinue
  /\ ~mixed => PieceOf(logs, Of(class))

LEMMA GrownPieces ==
  ASSUME NEW all \in SUBSET Nat, NEW n \in Nat, \A i \in all : i < n, NEW s
  PROVE  /\ PieceOf(s, all) => PieceOf(s, all \union {n})
         /\ \A m : NextOf(s, all, m) => NextOf(s, all \union {n}, m)
<1>1. ASSUME PieceOf(s, all) PROVE PieceOf(s, all \union {n})
  <2>1. ASSUME NEW a \in s, NEW b \in s, NEW i \in all \union {n}, a <= i, i <= b PROVE i \in s
    <3>1. b \in all /\ b < n
      BY <1>1 DEF PieceOf
    <3>2. i # n
      BY <2>1, <3>1
    <3>3. QED
      BY <1>1, <2>1, <3>2 DEF PieceOf
  <2>2. s \subseteq all \union {n}
    BY <1>1 DEF PieceOf
  <2>3. QED
    BY <2>1, <2>2 DEF PieceOf
<1>2. ASSUME NEW m, NextOf(s, all, m) PROVE NextOf(s, all \union {n}, m)
  <2>1. ASSUME NEW b \in s, NEW i \in all \union {n}, m < i, i <= b PROVE i \in s
    <3>1. b \in all /\ b < n
      BY <1>2 DEF NextOf
    <3>2. i # n
      BY <2>1, <3>1
    <3>3. QED
      BY <1>2, <2>1, <3>2 DEF NextOf
  <2>2. s \subseteq all \union {n} /\ \A b \in s : m < b
    BY <1>2 DEF NextOf
  <2>3. QED
    BY <2>1, <2>2 DEF NextOf
<1>3. QED
  BY <1>1, <1>2

\* A piece goes on with what follows one of its entries.
LEMMA JoinedPieces ==
  ASSUME NEW all \in SUBSET Nat, NEW s, NEW t, NEW n \in s, PieceOf(s, all), NextOf(t, all, n)
  PROVE  PieceOf(s \union t, all)
<1>1. s \subseteq all /\ t \subseteq all /\ n \in Nat
  BY DEF PieceOf, NextOf
<1>2. ASSUME NEW a \in s \union t, NEW b \in s \union t, NEW i \in all, a <= i, i <= b
      PROVE  i \in s \union t
  <2>1. CASE i > n
    <3>1. CASE b \in s
      BY <1>1, <1>2, <2>1, <3>1 DEF PieceOf
    <3>2. CASE b \in t
      BY <1>1, <1>2, <2>1, <3>2 DEF NextOf
    <3>3. QED
      BY <3>1, <3>2
  <2>2. CASE i <= n
    <3>1. a \in s
      BY <1>1, <1>2, <2>2 DEF NextOf
    <3>2. QED
      BY <1>1, <1>2, <2>2, <3>1 DEF PieceOf
  <2>3. QED
    BY <1>1, <2>1, <2>2
<1>3. QED
  BY <1>1, <1>2 DEF PieceOf

LEMMA IdsOf ==
  ASSUME LogsPageAssumption, LogsTyped, NEW c
  PROVE  Of(c) \subseteq DOMAIN written /\ Of(c) \in SUBSET EntryIds /\ IsFiniteSet(Of(c))
         /\ Of(c) \in SUBSET Nat
<1>1. Len(written) \in Nat /\ MaxEntries \in Nat /\ DOMAIN written = 1 .. Len(written)
  BY DEF LogsTyped, LogsPageAssumption
<1>2. Of(c) \in SUBSET DOMAIN written
  BY DEF Of
<1>3. IsFiniteSet(1 .. Len(written))
  BY <1>1, FS_Interval
<1>4. IsFiniteSet(Of(c))
  BY <1>1, <1>2, <1>3, FS_Subset
<1>5. 1 .. Len(written) \subseteq EntryIds /\ EntryIds \subseteq Nat
  BY <1>1 DEF LogsTyped, EntryIds
<1>6. QED
  BY <1>1, <1>2, <1>4, <1>5

\* What the server reads.
LEMMA ReadPieces ==
  ASSUME LogsPageAssumption, LogsTyped, NEW c, NEW n \in Nat
  PROVE  /\ PieceOf(Recent(c), Of(c)) /\ Recent(c) \in SUBSET EntryIds
         /\ NextOf(After(c, n), Of(c), n) /\ After(c, n) \in SUBSET EntryIds
<1>1. Of(c) \in SUBSET EntryIds /\ IsFiniteSet(Of(c)) /\ Of(c) \in SUBSET Nat /\ Limit \in Nat
  BY IdsOf DEF LogsPageAssumption
<1>2. Recent(c) \subseteq Of(c) /\ After(c, n) \subseteq Of(c) /\ \A b \in After(c, n) : n < b
  BY DEF Recent, After
<1>3. ASSUME NEW a \in Recent(c), NEW i \in Of(c), a <= i PROVE i \in Recent(c)
  <2> DEFINE later == {j \in Of(c) : i < j}
             all == {j \in Of(c) : a < j}
  <2>1. a \in Of(c) /\ Cardinality(all) < Limit
    BY DEF Recent
  <2>2. later \in SUBSET all /\ all \in SUBSET Of(c)
    BY <1>1, <1>3, <2>1
  <2>3. IsFiniteSet(all) /\ IsFiniteSet(later) /\ Cardinality(later) <= Cardinality(all)
    <3> HIDE DEF later, all
    <3>1. QED
      BY <1>1, <2>2, FS_Subset
  <2>4. Cardinality(later) \in Nat /\ Cardinality(all) \in Nat
    BY <2>3, FS_CardinalityType
  <2>5. Cardinality(later) < Limit
    <3> HIDE DEF later, all
    <3>1. QED
      BY <1>1, <2>1, <2>3, <2>4
  <2>6. QED
    BY <2>5 DEF Recent
<1>4. ASSUME NEW b \in After(c, n), NEW i \in Of(c), n < i, i <= b PROVE i \in After(c, n)
  <2> DEFINE before == {j \in Of(c) : n < j /\ j < i}
             all == {j \in Of(c) : n < j /\ j < b}
  <2>1. b \in Of(c) /\ Cardinality(all) < Limit
    BY DEF After
  <2>2. before \in SUBSET all /\ all \in SUBSET Of(c)
    BY <1>1, <1>4, <2>1
  <2>3. IsFiniteSet(all) /\ IsFiniteSet(before) /\ Cardinality(before) <= Cardinality(all)
    <3> HIDE DEF before, all
    <3>1. QED
      BY <1>1, <2>2, FS_Subset
  <2>4. Cardinality(before) \in Nat /\ Cardinality(all) \in Nat
    BY <2>3, FS_CardinalityType
  <2>5. Cardinality(before) < Limit
    <3> HIDE DEF before, all
    <3>1. QED
      BY <1>1, <2>1, <2>3, <2>4
  <2>6. QED
    BY <1>4, <2>5 DEF After
<1>5. PieceOf(Recent(c), Of(c))
  BY <1>2, <1>3 DEF PieceOf
<1>6. NextOf(After(c, n), Of(c), n)
  BY <1>2, <1>4 DEF NextOf
<1>7. QED
  BY <1>1, <1>2, <1>5, <1>6

\* Of the entries shown one is the last.
LEMMA LastShown ==
  ASSUME LogsPageAssumption, LogsTyped
  PROVE  LastLogId = 0 \/ LastLogId \in logs
<1> SUFFICES ASSUME logs # {} PROVE LastLogId \in logs
  BY DEF LastLogId
<1> DEFINE rest == {MaxEntries - i : i \in logs}
           below == OpToRel(<, Nat)
<1>1. MaxEntries \in Nat /\ \A i \in logs : i \in Nat /\ i <= MaxEntries
  BY DEF LogsTyped, LogsPageAssumption
<1>2. rest \subseteq Nat /\ rest # {}
  BY <1>1
<1>3. \A a, b \in Nat : a < b => <<a, b>> \in below
  BY DEF OpToRel
<1>4. IsWellFoundedOn(below, Nat)
  BY NatLessThanWellFounded
<1> HIDE DEF below
<1>5. PICK n \in rest : \A m \in rest : ~ (<<m, n>> \in below)
  <2> HIDE DEF rest
  <2>1. QED
    BY <1>2, <1>4, WFMin
<1>6. PICK x \in logs : MaxEntries - x = n
  BY <1>5
<1>7. ASSUME NEW y \in logs PROVE x >= y
  <2>1. MaxEntries - y \in rest /\ MaxEntries - y \in Nat /\ n \in Nat
    BY <1>1, <1>2
  <2>2. ~ (MaxEntries - y < n)
    BY <1>3, <1>5, <2>1
  <2>3. QED
    BY <1>1, <1>6, <2>2
<1>8. QED
  BY <1>7 DEF LastLogId, Max

\* The steps that leave the table alone leave the ids of every filter alone.
LEMMA OfKept == ASSUME written' = written PROVE \A c : Of(c)' = Of(c)
BY DEF Of

\* A query that moves on holds pieces still.
LEMMA QueryHolds ==
  ASSUME NEW all, NEW q, Holds(q, all), NEW d \in SUBSET EntryIds, PieceOf(d, all)
  PROVE  /\ Holds(Fetch(q), all) /\ Holds(Read(q, d), all) /\ Holds(Failed(q), all)
         /\ q.phase = "read" => Holds(Answered(q), all)
<1> DEFINE D == SUBSET EntryIds
<1>1. IsQueryOf(q, D)
  BY DEF Holds
<1> HIDE DEF D
<1>2. Holds(Fetch(q), all)
  <2>1. /\ IsQueryOf(Fetch(q), D) /\ Fetch(q).data = q.data /\ Fetch(q).answer = q.answer
        /\ Fetch(q).phase = "read" => q.phase = "read"
    BY <1>1, QueryFetched
  <2>2. QED
    BY <2>1 DEF Holds, D
<1>3. Holds(Read(q, d), all)
  <2>1. PICK r : r = Read(q, d)
    OBVIOUS
  <2>2. IsQueryOf(r, D) /\ r.data = q.data /\ r.answer = <<d>> /\ r.answer # <<>>
    BY <1>1, <2>1, QueryReads DEF D
  <2>3. r.answer[1] = d
    BY <2>2
  <2>4. Holds(r, all)
    BY <2>2, <2>3 DEF Holds, D
  <2>5. QED
    BY <2>1, <2>4
<1>4. Holds(Failed(q), all)
  <2>1. /\ IsQueryOf(Failed(q), D) /\ Failed(q).data = q.data /\ Failed(q).answer = <<>>
        /\ Failed(q).phase = "idle"
    BY <1>1, QueryFailed
  <2>2. QED
    BY <2>1 DEF Holds, D
<1>5. ASSUME q.phase = "read" PROVE Holds(Answered(q), all)
  <2>1. /\ IsQueryOf(Answered(q), D) /\ Answered(q).data = q.answer
        /\ Answered(q).answer = <<>> /\ Answered(q).phase = "idle"
    BY <1>1, QueryAnswered
  <2>2. QED
    BY <2>1 DEF Holds, D
<1>6. QED
  BY <1>2, <1>3, <1>4, <1>5

\* One query moves on.
LEMMA OneMoves ==
  ASSUME LogsInv, NEW f \in Filters, NEW q, Holds(q, Of(f)), written' = written,
         recent' = [recent EXCEPT ![f] = q]
  PROVE  PiecesKept' /\ DOMAIN recent' = Filters
<1>1. DOMAIN recent = Filters /\ \A c : Of(c)' = Of(c)
  BY OfKept DEF LogsInv, LogsTyped
<1>2. ASSUME NEW g \in Filters PROVE Holds(recent'[g], Of(g)')
  <2>1. recent'[g] = IF g = f THEN q ELSE recent[g]
    BY <1>1
  <2>2. Holds(recent'[g], Of(g))
    BY <2>1 DEF LogsInv, PiecesKept
  <2>3. QED
    BY <1>1, <2>2
<1>3. QED
  BY <1>1, <1>2 DEF PiecesKept, Holds

LEMMA InitLogs == ASSUME LogsPageAssumption PROVE LogsInit => LogsInv
<1> SUFFICES ASSUME LogsInit PROVE LogsInv
  OBVIOUS
<1>1. PICK n \in 0 .. Limit : written \in [1 .. n -> Classes]
  BY DEF LogsInit
<1>2. n \in Nat /\ n <= MaxEntries /\ MaxEntries \in Nat /\ MaxTurns \in Nat
  BY DEF LogsPageAssumption
<1>3. written \in Seq(Classes) /\ Len(written) = n
  BY <1>1, <1>2
<1>4. class \in Filters /\ AnyClass \in Filters
  BY DEF LogsInit, Filters
<1>5. NoPoll \in PollRow /\ NoPoll.phase = "idle"
  <2>1. 0 \in 0 .. MaxEntries
    BY <1>2
  <2>2. QED
    BY <1>4, <2>1 DEF NoPoll, PollRow
<1>6. LogsTyped
  <2>1. 0 \in 0 .. MaxTurns
    BY <1>2
  <2>2. QED
    BY <1>2, <1>3, <1>4, <1>5, <2>1 DEF LogsInit, LogsTyped
<1>7. PiecesKept
  <2>1. ASSUME NEW f \in Filters PROVE Holds(recent[f], Of(f))
    <3>1. recent[f] \in {Fresh, Unasked}
      BY DEF LogsInit
    <3>2. QED
      BY <3>1, QueryBegins DEF Holds
  <2>2. QED
    BY <2>1 DEF PiecesKept
<1>8. \A a \in Askers : polls[a].phase = "idle"
  BY <1>5 DEF LogsInit
<1>9. PollsRead /\ PollsContinue
  BY <1>8 DEF PollsRead, PollsContinue
<1>10. PieceOf(logs, Of(class))
  BY DEF LogsInit, PieceOf
<1>11. QED
  BY <1>6, <1>7, <1>9, <1>10 DEF LogsInv

\* The table grows at its end.
LEMMA PushStep ==
  ASSUME LogsPageAssumption, LogsInv, AppLogPush
  PROVE  LogsInv'
<1>1. UNCHANGED <<class, recent, logs, paused, polls, mixed, turns>>
  BY DEF AppLogPush
<1>2. PICK c \in Classes : written' = Append(written, c)
  BY DEF AppLogPush
<1>3. /\ written \in Seq(Classes) /\ Len(written) \in Nat /\ Len(written) < MaxEntries
      /\ MaxEntries \in Nat /\ DOMAIN written = 1 .. Len(written)
  BY DEF AppLogPush, LogsInv, LogsTyped, LogsPageAssumption
<1>4. PICK n : n = Len(written) + 1
  OBVIOUS
<1>5. /\ written' \in Seq(Classes) /\ Len(written') = n /\ n \in Nat /\ n <= MaxEntries
      /\ DOMAIN written' = DOMAIN written \union {n} /\ n \notin DOMAIN written
      /\ \A i \in DOMAIN written : written'[i] = written[i]
  <2>1. Len(written') = n /\ written' \in Seq(Classes)
    BY <1>2, <1>3, <1>4, AppendProperties
  <2>2. DOMAIN written' = 1 .. n
    BY <2>1, <1>3, <1>4
  <2>3. \A i \in 1 .. Len(written) : written'[i] = written[i]
    BY <1>2, <1>3, AppendProperties
  <2>4. QED
    BY <1>3, <1>4, <2>1, <2>2, <2>3
<1>6. \A f : Of(f)' = Of(f) \/ Of(f)' = Of(f) \union {n}
  BY <1>5 DEF Of
<1>7. \A f : Of(f) \in SUBSET Nat /\ \A i \in Of(f) : i < n
  <2>1. \A f : Of(f) \subseteq DOMAIN written /\ Of(f) \in SUBSET Nat
    BY IdsOf DEF LogsInv
  <2>2. QED
    BY <1>3, <1>4, <2>1
<1>8. \A f, s : /\ PieceOf(s, Of(f)) => PieceOf(s, Of(f)')
                /\ \A m : NextOf(s, Of(f), m) => NextOf(s, Of(f)', m)
  <2>1. TAKE f, s
  <2>2. CASE Of(f)' = Of(f)
    BY <2>2
  <2>3. CASE Of(f)' = Of(f) \union {n}
    <3>1. PICK all : all = Of(f)
      OBVIOUS
    <3>2. /\ PieceOf(s, all) => PieceOf(s, all \union {n})
          /\ \A m : NextOf(s, all, m) => NextOf(s, all \union {n}, m)
      BY <1>5, <1>7, <3>1, GrownPieces
    <3>3. QED
      BY <2>3, <3>1, <3>2
  <2>4. QED
    BY <1>6, <2>2, <2>3
<1>9. LogsTyped'
  BY <1>1, <1>5 DEF LogsInv, LogsTyped
<1>10. PiecesKept'
  <2>1. ASSUME NEW f \in Filters PROVE Holds(recent[f], Of(f)')
    <3>1. Holds(recent[f], Of(f))
      BY DEF LogsInv, PiecesKept
    <3>2. QED
      BY <1>8, <3>1 DEF Holds
  <2>2. QED
    BY <1>1, <2>1 DEF PiecesKept, Holds
<1>11. PollsRead'
  <2>1. ASSUME NEW a \in Askers, polls[a].phase = "read"
        PROVE  /\ polls[a].after = 0 => PieceOf(polls[a].answer, Of(polls[a].class)')
               /\ polls[a].after # 0 =>
                    NextOf(polls[a].answer, Of(polls[a].class)', polls[a].after)
    <3>1. /\ polls[a].after = 0 => PieceOf(polls[a].answer, Of(polls[a].class))
          /\ polls[a].after # 0 => NextOf(polls[a].answer, Of(polls[a].class), polls[a].after)
      BY <2>1 DEF LogsInv, PollsRead
    <3>2. PICK f : f = polls[a].class
      OBVIOUS
    <3>3. Of(polls[a].class)' = Of(f)'
      BY <1>1, <3>2
    <3>4. QED
      BY <1>8, <3>1, <3>2, <3>3
  <2>2. QED
    BY <1>1, <2>1 DEF PollsRead
<1>12. ~mixed => PollsContinue'
  BY <1>1 DEF LogsInv, PollsContinue
<1>13. ~mixed => PieceOf(logs, Of(class)')
  <2>1. PICK f : f = class
    OBVIOUS
  <2>2. Of(class)' = Of(f)'
    BY <1>1, <2>1
  <2>3. QED
    BY <1>8, <2>1, <2>2 DEF LogsInv
<1>14. QED
  BY <1>1, <1>9, <1>10, <1>11, <1>12, <1>13 DEF LogsInv

\* The query of the filter moves, and the list stays.
LEMMA QuerySteps ==
  ASSUME LogsPageAssumption, LogsInv, NEW f \in Filters, RecentRead(f) \/ RecentFails(f)
  PROVE  LogsInv'
<1>1. UNCHANGED <<written, class, logs, paused, polls, mixed, turns>>
  BY DEF RecentRead, RecentFails
<1>2. PICK q \in {Read(recent[f], Recent(f)), Failed(recent[f])} : recent' = [recent EXCEPT ![f] = q]
  BY DEF RecentRead, RecentFails, LogsInv, LogsTyped
<1>3. Holds(q, Of(f))
  <2>1. Holds(recent[f], Of(f)) /\ PieceOf(Recent(f), Of(f)) /\ Recent(f) \in SUBSET EntryIds
    BY ReadPieces DEF LogsInv, PiecesKept
  <2>2. QED
    BY <1>2, <2>1, QueryHolds
<1>4. PiecesKept' /\ DOMAIN recent' = Filters
  BY <1>1, <1>2, <1>3, OneMoves
<1>5. LogsTyped'
  BY <1>1, <1>4 DEF LogsInv, LogsTyped
<1>6. \A c : Of(c)' = Of(c)
  BY <1>1, OfKept
<1>7. PollsRead'
  BY <1>1, <1>6 DEF LogsInv, PollsRead
<1>8. ~mixed => PollsContinue'
  BY <1>1 DEF LogsInv, PollsContinue
<1>9. ~mixed => PieceOf(logs, Of(class)')
  <2>1. PICK g : g = class
    OBVIOUS
  <2>2. Of(class)' = Of(g)'
    BY <1>1, <2>1
  <2>3. QED
    BY <1>6, <2>1, <2>2 DEF LogsInv
<1>10. QED
  BY <1>1, <1>4, <1>5, <1>7, <1>8, <1>9 DEF LogsInv

\* A poll or the list changes and no query does.
LEMMA ListMoves ==
  ASSUME LogsInv, UNCHANGED <<written, class, recent>>, paused' \in BOOLEAN, mixed' \in BOOLEAN,
         turns' \in 0 .. MaxTurns, logs' \subseteq DOMAIN written, polls' \in [Askers -> PollRow],
         PollsRead', ~mixed' => PollsContinue', ~mixed' => PieceOf(logs', Of(class))
  PROVE  LogsInv'
<1>1. \A c : Of(c)' = Of(c)
  BY OfKept
<1>2. LogsTyped'
  BY DEF LogsInv, LogsTyped
<1>3. PiecesKept'
  BY <1>1 DEF LogsInv, PiecesKept, Holds
<1>4. ~mixed' => PieceOf(logs', Of(class)')
  BY <1>1
<1>5. QED
  BY <1>2, <1>3, <1>4 DEF LogsInv

LEMMA OneFilter ==
  ASSUME UNCHANGED <<written, class>>
  PROVE  Of(class)' = Of(class)
<1>1. PICK f : f = class
  OBVIOUS
<1>2. Of(class)' = Of(f)'
  BY <1>1
<1>3. QED
  BY <1>1, <1>2, OfKept

\* What every poll keeps when the list is replaced: all of them are late.
LEMMA PollsLate ==
  ASSUME LogsInv, written' = written,
         polls' = [a \in Askers |-> [polls[a] EXCEPT !.late = polls[a].phase # "idle"]]
  PROVE  polls' \in [Askers -> PollRow] /\ PollsRead' /\ PollsContinue'
<1>1. ASSUME NEW a \in Askers
      PROVE  /\ polls'[a] \in PollRow
             /\ polls'[a].phase = polls[a].phase /\ polls'[a].class = polls[a].class
             /\ polls'[a].after = polls[a].after /\ polls'[a].answer = polls[a].answer
             /\ polls'[a].late <=> polls[a].phase # "idle"
  <2>1. polls[a] \in PollRow
    BY DEF LogsInv, LogsTyped
  <2>2. polls'[a] = [polls[a] EXCEPT !.late = polls[a].phase # "idle"]
    OBVIOUS
  <2>3. PICK b \in BOOLEAN : b <=> polls[a].phase # "idle"
    OBVIOUS
  <2>4. polls'[a] = [polls[a] EXCEPT !.late = b]
    BY <2>2, <2>3
  <2>5. QED
    BY <2>1, <2>3, <2>4 DEF PollRow
<1>2. polls' \in [Askers -> PollRow]
  BY <1>1
<1>3. PollsRead'
  <2>1. ASSUME NEW a \in Askers, polls'[a].phase = "read"
        PROVE  /\ polls'[a].after = 0 => PieceOf(polls'[a].answer, Of(polls[a].class)')
               /\ polls'[a].after # 0 =>
                    NextOf(polls'[a].answer, Of(polls[a].class)', polls'[a].after)
    <3>1. PICK f : f = polls'[a].class
      OBVIOUS
    <3>2. Of(polls[a].class)' = Of(f)'
      BY <3>1
    <3>3. Of(f)' = Of(f) /\ f = polls[a].class
      BY <1>1, <3>1, OfKept
    <3>4. QED
      BY <1>1, <2>1, <3>2, <3>3 DEF LogsInv, PollsRead
  <2>2. QED
    BY <2>1 DEF PollsRead
<1>4. PollsContinue'
  BY <1>1 DEF PollsContinue
<1>5. QED
  BY <1>2, <1>3, <1>4

\* One poll changes.
LEMMA OnePoll ==
  ASSUME LogsInv, NEW a \in Askers, NEW p \in PollRow, polls' = [polls EXCEPT ![a] = p],
         written' = written,
         p.phase = "read" => /\ p.after = 0 => PieceOf(p.answer, Of(p.class))
                             /\ p.after # 0 => NextOf(p.answer, Of(p.class), p.after)
  PROVE  /\ polls' \in [Askers -> PollRow] /\ PollsRead'
         /\ \A b \in Askers : polls'[b] = IF b = a THEN p ELSE polls[b]
<1>1. polls \in [Askers -> PollRow]
  BY DEF LogsInv, LogsTyped
<1>2. \A b \in Askers : polls'[b] = IF b = a THEN p ELSE polls[b]
  BY <1>1
<1>3. polls' \in [Askers -> PollRow]
  BY <1>1
<1>4. ASSUME NEW b \in Askers, polls'[b].phase = "read"
      PROVE  /\ polls'[b].after = 0 => PieceOf(polls'[b].answer, Of(polls[b].class)')
             /\ polls'[b].after # 0 =>
                  NextOf(polls'[b].answer, Of(polls[b].class)', polls'[b].after)
  <2>1. PICK r : r = polls'[b]
    OBVIOUS
  <2>2. /\ r.after = 0 => PieceOf(r.answer, Of(r.class))
        /\ r.after # 0 => NextOf(r.answer, Of(r.class), r.after)
    <3>1. CASE b = a
      BY <1>2, <1>4, <2>1, <3>1
    <3>2. CASE b # a
      BY <1>2, <1>4, <2>1, <3>2 DEF LogsInv, PollsRead
    <3>3. QED
      BY <3>1, <3>2
  <2>3. Of(polls[b].class)' = Of(r.class)
    <3>1. PICK f : f = r.class
      OBVIOUS
    <3>2. Of(polls[b].class)' = Of(f)'
      BY <2>1, <3>1
    <3>3. QED
      BY <3>1, <3>2, OfKept
  <2>4. QED
    BY <2>1, <2>2, <2>3
<1>5. PollsRead'
  BY <1>4 DEF PollsRead
<1>6. QED
  BY <1>2, <1>3, <1>5

\* The answer of the query of the filter replaces the list, unless it is the same.
LEMMA RecentAnswerStep ==
  ASSUME LogsPageAssumption, LogsInv, NEW f \in Filters, RecentAnswer(f)
  PROVE  LogsInv'
<1>1. UNCHANGED <<written, class, paused, turns>> /\ recent[f].phase = "read"
  BY DEF RecentAnswer
<1>2. recent' = [recent EXCEPT ![f] = Answered(recent[f])]
  BY DEF RecentAnswer
<1>3. Holds(recent[f], Of(f)) /\ Holds(Answered(recent[f]), Of(f))
  <2>1. PieceOf(Recent(f), Of(f)) /\ Recent(f) \in SUBSET EntryIds
    BY ReadPieces DEF LogsInv
  <2>2. QED
    BY <1>1, <2>1, QueryHolds DEF LogsInv, PiecesKept
<1>4. PiecesKept' /\ DOMAIN recent' = Filters
  <2>1. PICK q : q = Answered(recent[f])
    OBVIOUS
  <2>2. QED
    BY <1>1, <1>2, <1>3, <2>1, OneMoves
<1>5. \A c : Of(c)' = Of(c)
  BY <1>1, OfKept
<1>6. CASE f = class /\ recent[f].answer # recent[f].data
  <2>1. Replaced(recent[f].answer[1])
    BY <1>6 DEF RecentAnswer
  <2>2. PICK d : d = recent[f].answer[1]
    OBVIOUS
  <2>3. PieceOf(d, Of(class)) /\ logs' = d /\ mixed' = FALSE
    BY <1>1, <1>3, <1>6, <2>1, <2>2 DEF Holds, Replaced
  <2>4. d \subseteq DOMAIN written
    BY <2>3, IdsOf DEF LogsInv, PieceOf
  <2>5. polls' \in [Askers -> PollRow] /\ PollsRead' /\ PollsContinue'
    BY <1>1, <2>1, PollsLate DEF Replaced
  <2>6. LogsTyped'
    BY <1>1, <1>4, <2>3, <2>4, <2>5 DEF LogsInv, LogsTyped
  <2>7. PieceOf(logs', Of(class)')
    BY <1>1, <1>5, <2>3, OneFilter
  <2>8. QED
    BY <1>4, <2>5, <2>6, <2>7 DEF LogsInv
<1>7. CASE ~(f = class /\ recent[f].answer # recent[f].data)
  <2>1. UNCHANGED <<logs, polls, mixed>>
    BY <1>7 DEF RecentAnswer
  <2>2. LogsTyped'
    BY <1>1, <1>4, <2>1 DEF LogsInv, LogsTyped
  <2>3. PollsRead'
    BY <1>5, <2>1 DEF LogsInv, PollsRead
  <2>4. ~mixed => PollsContinue'
    BY <1>1, <2>1 DEF LogsInv, PollsContinue
  <2>5. ~mixed => PieceOf(logs, Of(class)')
    BY <1>1, OneFilter DEF LogsInv
  <2>6. QED
    BY <1>4, <2>1, <2>2, <2>3, <2>4, <2>5 DEF LogsInv
<1>8. QED
  BY <1>6, <1>7

\* Another filter: its cached data replace the list, or the list is another filter's.
LEMMA FilterStep ==
  ASSUME LogsPageAssumption, LogsInv, setClassification
  PROVE  LogsInv'
<1>1. UNCHANGED <<written, paused>> /\ turns < MaxTurns /\ turns' = turns + 1
  BY DEF setClassification, Turn
<1>2. PICK f \in Filters :
        /\ class' = f
        /\ \E old \in BOOLEAN : recent' = IF recent[f].data = <<>> \/ old
                                 THEN [recent EXCEPT ![f] = Fetch(@)] ELSE recent
        /\ IF recent[f].data = <<>>
           THEN /\ mixed' = TRUE
                /\ polls' = [a \in Askers |-> [polls[a] EXCEPT !.late = polls[a].phase # "idle"]]
                /\ UNCHANGED logs
           ELSE Replaced(recent[f].data[1])
  BY DEF setClassification
<1>3. DOMAIN recent = Filters /\ turns \in 0 .. MaxTurns /\ MaxTurns \in Nat
  BY DEF LogsInv, LogsTyped, LogsPageAssumption
<1>4. Holds(recent[f], Of(f)) /\ Holds(Fetch(recent[f]), Of(f))
  <2>1. PieceOf(Recent(f), Of(f)) /\ Recent(f) \in SUBSET EntryIds
    BY ReadPieces DEF LogsInv
  <2>2. QED
    BY <2>1, QueryHolds DEF LogsInv, PiecesKept
<1>5. PiecesKept' /\ DOMAIN recent' = Filters
  <2>1. PICK q : q = Fetch(recent[f])
    OBVIOUS
  <2>2. CASE recent' = [recent EXCEPT ![f] = q]
    BY <1>1, <1>4, <2>1, <2>2, OneMoves
  <2>3. CASE recent' = recent
    BY <1>1, <1>3, <2>3, OfKept DEF LogsInv, PiecesKept, Holds
  <2>4. QED
    BY <1>2, <2>1, <2>2, <2>3
<1>6. polls' \in [Askers -> PollRow] /\ PollsRead' /\ PollsContinue'
  BY <1>1, <1>2, PollsLate DEF Replaced
<1>7. logs' \subseteq DOMAIN written /\ mixed' \in BOOLEAN /\ (~mixed' => PieceOf(logs', Of(f)))
  <2>1. CASE recent[f].data = <<>>
    BY <1>2, <2>1 DEF LogsInv, LogsTyped
  <2>2. CASE recent[f].data # <<>>
    <3>1. PICK d : d = recent[f].data[1]
      OBVIOUS
    <3>2. PieceOf(d, Of(f)) /\ logs' = d /\ mixed' = FALSE
      BY <1>2, <1>4, <2>2, <3>1 DEF Holds, Replaced
    <3>3. d \subseteq DOMAIN written
      BY <3>2, IdsOf DEF LogsInv, PieceOf
    <3>4. QED
      BY <3>2, <3>3
  <2>3. QED
    BY <2>1, <2>2
<1>8. Of(class)' = Of(f)
  <2>1. Of(class)' = Of(f)'
    BY <1>2
  <2>2. QED
    BY <1>1, <2>1, OfKept
<1>9. LogsTyped'
  <2>1. turns' \in 0 .. MaxTurns
    BY <1>1, <1>3
  <2>2. QED
    BY <1>1, <1>2, <1>5, <1>6, <1>7, <2>1 DEF LogsInv, LogsTyped
<1>10. QED
  BY <1>5, <1>6, <1>7, <1>8, <1>9 DEF LogsInv

\* A poll starts: it names the filter, and the last entry shown if there is one.
LEMMA PollStep ==
  ASSUME LogsPageAssumption, LogsInv, NEW a \in Askers, Poll(a), paused' = paused,
         turns' \in 0 .. MaxTurns
  PROVE  LogsInv'
<1>1. UNCHANGED <<written, class, recent, logs, mixed>> /\ polls[a].phase = "idle"
  BY DEF Poll
<1>2. PICK p : p = [NoPoll EXCEPT !.phase = "sent", !.class = class, !.after = LastLogId]
  OBVIOUS
<1>3. /\ p = [phase |-> "sent", class |-> class, after |-> LastLogId, answer |-> {}, late |-> FALSE]
      /\ polls' = [polls EXCEPT ![a] = p]
  BY <1>2 DEF NoPoll, Poll
<1>4. LastLogId \in 0 .. MaxEntries /\ (LastLogId = 0 \/ LastLogId \in logs)
  <2>1. LogsTyped
    BY DEF LogsInv
  <2>2. 0 \in 0 .. MaxEntries /\ DOMAIN written \subseteq 0 .. MaxEntries
    <3>1. Len(written) \in Nat /\ DOMAIN written = 1 .. Len(written) /\ Len(written) <= MaxEntries
      BY <2>1 DEF LogsTyped
    <3>2. MaxEntries \in Nat
      BY DEF LogsPageAssumption
    <3>3. QED
      BY <3>1, <3>2
  <2>3. LastLogId = 0 \/ LastLogId \in logs
    BY <2>1, LastShown
  <2>4. logs \subseteq 0 .. MaxEntries
    BY <2>1, <2>2 DEF LogsTyped
  <2>5. QED
    BY <2>2, <2>3, <2>4
<1>5. p \in PollRow
  BY <1>3, <1>4 DEF PollRow, LogsInv, LogsTyped
<1>6. p.phase = "sent" /\ p.class = class /\ p.after = LastLogId
  BY <1>3
<1>7. /\ polls' \in [Askers -> PollRow] /\ PollsRead'
      /\ \A b \in Askers : polls'[b] = IF b = a THEN p ELSE polls[b]
  BY <1>1, <1>3, <1>5, <1>6, OnePoll
<1>8. ~mixed => PollsContinue'
  <2>1. ASSUME ~mixed, NEW b \in Askers, polls'[b].phase # "idle", ~polls'[b].late
        PROVE  polls'[b].class = class /\ (polls'[b].after = 0 \/ polls'[b].after \in logs)
    <3>1. CASE b = a
      BY <1>4, <1>6, <1>7, <3>1
    <3>2. CASE b # a
      BY <1>7, <2>1, <3>2 DEF LogsInv, PollsContinue
    <3>3. QED
      BY <3>1, <3>2
  <2>2. QED
    BY <1>1, <2>1 DEF PollsContinue
<1>9. QED
  BY <1>1, <1>7, <1>8, ListMoves DEF LogsInv, LogsTyped

LEMMA PollBegins ==
  ASSUME LogsPageAssumption, LogsInv, TimerPoll \/ handleManualRefresh
  PROVE  LogsInv'
<1>1. turns \in 0 .. MaxTurns /\ MaxTurns \in Nat
  BY DEF LogsInv, LogsTyped, LogsPageAssumption
<1>2. CASE TimerPoll
  <2>1. Poll("timer") /\ paused' = paused /\ turns' \in 0 .. MaxTurns /\ "timer" \in Askers
    BY <1>1, <1>2 DEF TimerPoll, Poll, Askers
  <2>2. QED
    BY <2>1, PollStep
<1>3. CASE handleManualRefresh
  <2>1. Poll("button") /\ paused' = paused /\ turns' \in 0 .. MaxTurns /\ "button" \in Askers
    BY <1>1, <1>3 DEF handleManualRefresh, Turn, Poll, Askers
  <2>2. QED
    BY <2>1, PollStep
<1>4. QED
  BY <1>2, <1>3

\* The server answers a poll.
LEMMA GetStep ==
  ASSUME LogsPageAssumption, LogsInv, NEW a \in Askers, getLogs(a)
  PROVE  LogsInv'
<1>1. UNCHANGED <<written, class, recent, logs, paused, mixed, turns>> /\ polls[a].phase = "sent"
  BY DEF getLogs
<1>2. PICK old \in PollRow : old = polls[a]
  BY DEF LogsInv, LogsTyped
<1>3. PICK s : s = IF old.after > 0 THEN After(old.class, old.after) ELSE Recent(old.class)
  OBVIOUS
<1>4. PICK p : p = [old EXCEPT !.phase = "read", !.answer = s]
  OBVIOUS
<1>5. polls' = [polls EXCEPT ![a] = p]
  BY <1>2, <1>3, <1>4 DEF getLogs, LogsInv, LogsTyped
<1>6. old.after \in Nat
  <2>1. MaxEntries \in Nat /\ old.after \in 0 .. MaxEntries
    BY DEF LogsPageAssumption, PollRow
  <2>2. QED
    BY <2>1
<1>7. /\ s \in SUBSET EntryIds
      /\ old.after = 0 => PieceOf(s, Of(old.class))
      /\ old.after # 0 => NextOf(s, Of(old.class), old.after)
  <2>1. /\ PieceOf(Recent(old.class), Of(old.class)) /\ Recent(old.class) \in SUBSET EntryIds
        /\ NextOf(After(old.class, old.after), Of(old.class), old.after)
        /\ After(old.class, old.after) \in SUBSET EntryIds
    BY <1>6, ReadPieces DEF LogsInv
  <2>2. QED
    BY <1>3, <1>6, <2>1
<1>8. /\ p \in PollRow /\ p.phase = "read" /\ p.answer = s
      /\ p.class = old.class /\ p.after = old.after /\ p.late = old.late
  BY <1>4, <1>7 DEF PollRow
<1>9. /\ polls' \in [Askers -> PollRow] /\ PollsRead'
      /\ \A b \in Askers : polls'[b] = IF b = a THEN p ELSE polls[b]
  BY <1>1, <1>5, <1>7, <1>8, OnePoll
<1>10. ~mixed => PollsContinue'
  BY <1>1, <1>2, <1>8, <1>9 DEF LogsInv, PollsContinue
<1>11. QED
  BY <1>1, <1>9, <1>10, ListMoves DEF LogsInv, LogsTyped

LEMMA ResetPoll ==
  ASSUME LogsPageAssumption, LogsInv, NEW a \in Askers, written' = written,
         polls' = [polls EXCEPT ![a] = NoPoll]
  PROVE  /\ polls' \in [Askers -> PollRow] /\ PollsRead'
         /\ polls'[a].phase = "idle" /\ \A b \in Askers : b # a => polls'[b] = polls[b]
<1>1. PICK p : p = NoPoll
  OBVIOUS
<1>2. p = [phase |-> "idle", class |-> AnyClass, after |-> 0, answer |-> {}, late |-> FALSE]
  BY <1>1 DEF NoPoll
<1>3. 0 \in 0 .. MaxEntries /\ AnyClass \in Filters
  BY DEF LogsPageAssumption, Filters
<1>4. p \in PollRow /\ p.phase = "idle"
  BY <1>2, <1>3 DEF PollRow
<1>5. QED
  BY <1>1, <1>4, OnePoll

\* The answer of a poll is merged: it goes on from an entry that is still there, or it is the
\* first of the list, or the list is known to be mixed.
LEMMA MergeStep ==
  ASSUME LogsPageAssumption, LogsInv, NEW a \in Askers, PollAnswer(a)
  PROVE  LogsInv'
<1>1. UNCHANGED <<written, class, recent, paused, turns>> /\ polls[a].phase = "read"
  BY DEF PollAnswer
<1>2. PICK p \in PollRow : p = polls[a]
  BY DEF LogsInv, LogsTyped
<1>3. /\ logs' = logs \union p.answer
      /\ mixed' = (mixed \/ p.late \/ (p.after = 0 /\ logs # {}))
  BY <1>2 DEF PollAnswer, mergeLogs
<1>4. /\ polls' \in [Askers -> PollRow] /\ PollsRead' /\ polls'[a].phase = "idle"
      /\ \A b \in Askers : b # a => polls'[b] = polls[b]
  BY <1>1, ResetPoll DEF PollAnswer
<1>5. /\ p.after = 0 => PieceOf(p.answer, Of(p.class))
      /\ p.after # 0 => NextOf(p.answer, Of(p.class), p.after)
  BY <1>1, <1>2 DEF LogsInv, PollsRead
<1>6. logs' \subseteq DOMAIN written
  <2>1. p.answer \subseteq Of(p.class)
    BY <1>5 DEF PieceOf, NextOf
  <2>2. Of(p.class) \subseteq DOMAIN written
    BY IdsOf DEF LogsInv
  <2>3. QED
    BY <1>3, <2>1, <2>2 DEF LogsInv, LogsTyped
<1>7. mixed' \in BOOLEAN
  BY <1>3
<1>8. ~mixed' => PollsContinue'
  BY <1>1, <1>3, <1>4 DEF LogsInv, PollsContinue
<1>9. ASSUME ~mixed' PROVE PieceOf(logs', Of(class))
  <2>1. ~mixed /\ ~p.late /\ (p.after = 0 => logs = {})
    BY <1>3, <1>9
  <2>2. p.class = class /\ (p.after = 0 \/ p.after \in logs)
    BY <1>1, <1>2, <2>1 DEF LogsInv, PollsContinue
  <2>3. PICK all \in SUBSET Nat : all = Of(class)
    BY IdsOf DEF LogsInv
  <2>4. CASE p.after = 0
    BY <1>3, <1>5, <2>1, <2>2, <2>4
  <2>5. CASE p.after # 0
    <3>1. PieceOf(logs, all) /\ NextOf(p.answer, all, p.after) /\ p.after \in logs
      BY <1>5, <2>1, <2>2, <2>3, <2>5 DEF LogsInv
    <3>2. PieceOf(logs \union p.answer, all)
      BY <3>1, JoinedPieces
    <3>3. QED
      BY <1>3, <2>3, <3>2
  <2>6. QED
    BY <2>4, <2>5
<1>10. turns' \in 0 .. MaxTurns /\ paused' \in BOOLEAN
  BY <1>1 DEF LogsInv, LogsTyped
<1>11. QED
  BY <1>1, <1>4, <1>6, <1>7, <1>8, <1>9, <1>10, ListMoves

LEMMA PollFailsStep ==
  ASSUME LogsPageAssumption, LogsInv, NEW a \in Askers, PollFails(a)
  PROVE  LogsInv'
<1>1. UNCHANGED <<written, class, recent, logs, paused, mixed, turns>>
  BY DEF PollFails
<1>2. /\ polls' \in [Askers -> PollRow] /\ PollsRead' /\ polls'[a].phase = "idle"
      /\ \A b \in Askers : b # a => polls'[b] = polls[b]
  BY <1>1, ResetPoll DEF PollFails
<1>3. ~mixed => PollsContinue'
  BY <1>1, <1>2 DEF LogsInv, PollsContinue
<1>4. QED
  BY <1>1, <1>2, <1>3, ListMoves DEF LogsInv, LogsTyped

LEMMA PauseStep ==
  ASSUME LogsPageAssumption, LogsInv, setIsPaused
  PROVE  LogsInv'
<1>1. UNCHANGED <<written, class, recent, logs, polls, mixed>> /\ paused' = ~paused
  BY DEF setIsPaused
<1>2. turns' \in 0 .. MaxTurns
  BY DEF setIsPaused, Turn, LogsInv, LogsTyped, LogsPageAssumption
<1>3. \A c : Of(c)' = Of(c)
  BY <1>1, OfKept
<1>4. PollsRead'
  BY <1>1, <1>3 DEF LogsInv, PollsRead
<1>5. ~mixed => PollsContinue'
  BY <1>1 DEF LogsInv, PollsContinue
<1>6. paused' \in BOOLEAN
  BY <1>1
<1>7. mixed' \in BOOLEAN /\ logs' \subseteq DOMAIN written /\ polls' \in [Askers -> PollRow]
  BY <1>1 DEF LogsInv, LogsTyped
<1>8. ~mixed' => PieceOf(logs', Of(class))
  BY <1>1 DEF LogsInv
<1>9. QED
  BY <1>1, <1>2, <1>4, <1>5, <1>6, <1>7, <1>8, ListMoves

LEMMA LogsStutter == ASSUME LogsInv, UNCHANGED logsVars PROVE LogsInv'
<1>1. UNCHANGED <<written, class, recent, logs, paused, polls, mixed, turns>>
  BY DEF logsVars
<1>2. \A c : Of(c)' = Of(c)
  BY <1>1, OfKept
<1>3. PollsRead'
  BY <1>1, <1>2 DEF LogsInv, PollsRead
<1>4. ~mixed' => PollsContinue'
  BY <1>1 DEF LogsInv, PollsContinue
<1>5. /\ paused' \in BOOLEAN /\ mixed' \in BOOLEAN /\ logs' \subseteq DOMAIN written
      /\ turns' \in 0 .. MaxTurns /\ polls' \in [Askers -> PollRow]
  BY <1>1 DEF LogsInv, LogsTyped
<1>6. ~mixed' => PieceOf(logs', Of(class))
  BY <1>1 DEF LogsInv
<1>7. QED
  BY <1>1, <1>3, <1>4, <1>5, <1>6, ListMoves

LEMMA LogsAlwaysInv == ASSUME LogsPageAssumption PROVE LogsSpec => []LogsInv
<1>1. LogsInv /\ [LogsNext]_logsVars => LogsInv'
  <2> SUFFICES ASSUME LogsInv, [LogsNext]_logsVars PROVE LogsInv'
    OBVIOUS
  <2>1. CASE AppLogPush \/ setClassification \/ setIsPaused
    BY <2>1, PushStep, FilterStep, PauseStep
  <2>2. CASE TimerPoll \/ handleManualRefresh
    BY <2>2, PollBegins
  <2>3. CASE \E f \in Filters : RecentRead(f) \/ RecentAnswer(f) \/ RecentFails(f)
    BY <2>3, QuerySteps, RecentAnswerStep
  <2>4. CASE \E a \in Askers : getLogs(a) \/ PollAnswer(a) \/ PollFails(a)
    BY <2>4, GetStep, MergeStep, PollFailsStep
  <2>5. CASE UNCHANGED logsVars
    BY <2>5, LogsStutter
  <2>6. QED
    BY <2>1, <2>2, <2>3, <2>4, <2>5 DEF LogsNext
<1>2. QED
  BY <1>1, InitLogs, PTL DEF LogsSpec

\* The table, the list, the queries and the polls have their types, for any classes and limits.
THEOREM LogsTypeCorrect == ASSUME LogsPageAssumption PROVE LogsSpec => []LogsTypeOK
<1>1. LogsInv => LogsTypeOK
  <2> SUFFICES ASSUME LogsInv PROVE LogsTypeOK
    OBVIOUS
  <2>1. \A f \in Filters : IsQueryOf(recent[f], SUBSET EntryIds)
    BY DEF LogsInv, PiecesKept, Holds
  <2>2. ASSUME NEW a \in Askers
        PROVE  /\ polls[a].phase \in {"idle", "sent", "read"} /\ polls[a].class \in Filters
               /\ polls[a].after \in 0 .. MaxEntries /\ polls[a].answer \subseteq EntryIds
    BY DEF LogsInv, LogsTyped, PollRow
  <2>3. QED
    BY <2>1, <2>2 DEF LogsInv, LogsTyped, LogsTypeOK, EntryIds
<1>2. QED
  BY <1>1, LogsAlwaysInv, PTL

\* For any classes, limits and entries, however polls of the timer and of the button, answers
\* of the query and changes of the filter overlap: the list is the table from its first entry
\* to its last, with no entry of the filter missing (logs-page.tsx:34-48, 70-91, 102-119,
\* model/app_log.go:49-68).
THEOREM LogsNeverGap == ASSUME LogsPageAssumption PROVE LogsSpec => []NoGap
<1>1. LogsInv => NoGap
  BY DEF LogsInv, PieceOf, NoGap
<1>2. QED
  BY <1>1, LogsAlwaysInv, PTL
=============================================================================
