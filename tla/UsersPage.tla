----------------------------- MODULE UsersPage -----------------------------
(***************************************************************************)
(* The user page (web/features/users/components/users-page.tsx) against    *)
(* the accounts of the server (internal/service/user.go): the list by page *)
(* or by search, the editor of one user, and the buttons that disable,     *)
(* promote, demote or delete, while another administrator manages the same *)
(* accounts.                                                               *)
(*                                                                         *)
(* ManageUser finds the account by name, changes the copy it read and      *)
(* writes the copy back: two requests may overlap between the two.         *)
(***************************************************************************)
EXTENDS QueryCache, FiniteSets

CONSTANTS
  UserCount,  \* accounts that may ever exist; ids are given out in order
  UserNames, FirstNames,  \* user names; those of the accounts that exist at first
  MyRole,     \* the role of the operator at the page, whose account is 1
  PageSize,   \* users on a page of the list
  MaxMoves    \* bound: clicks that edit the page or start a request, of both operators

Common == 1
Admin == 10
Root == 100
Actions == {"disable", "enable", "promote", "demote", "delete"}
UserIds == 1 .. UserCount
Pages == 0 .. UserCount - 1
Row == [name : UserNames, role : {Common, Admin, Root}, on : BOOLEAN]

\* What the constants are: assumed where they get their values.
UsersPageAssumption ==
  /\ UserCount \in Nat \ {0} /\ PageSize \in Nat \ {0} /\ MaxMoves \in Nat
  /\ MyRole \in {Admin, Root} /\ "" \notin UserNames
  /\ FirstNames \in Seq(UserNames) /\ Len(FirstNames) \in 1 .. UserCount

VARIABLES
  users,    \* the table: for each id nothing, or its row
  lastId,   \* ids given out
  where,    \* the page of the list, and the keyword searched for
  userLists, userDetails,  \* the cached queries
  dated,    \* those of them that are not fresh any more
  editor,   \* open, and the user edited, 0 to create one
  userForm, \* the name and whether a password is typed; history: whose detail filled it
  save,     \* the save in flight
  manage,   \* the managing request in flight: the page's and the other operator's
  userMoves \* counter of the bound

usersVars ==
  <<users, lastId, where, userLists, userDetails, dated, editor, userForm, save, manage,
    userMoves>>
server == <<users, lastId>>
cached == <<userLists, userDetails, dated>>

Accounts == {i \in UserIds : users[i] # <<>>}
Key(page, word) == [page |-> IF word = "" THEN page ELSE 0, word |-> word]
ListKeys == {k \in [page : Pages, word : UserNames \union {""}] : k.word = "" \/ k.page = 0}
Here == Key(where.page, where.word)

\* GetAllUsers, newest first, and SearchUsers.
Listed(key) ==
  LET newer(i) == Cardinality({j \in Accounts : j > i})
  IN  {[id |-> i, row |-> users[i][1]] :
         i \in {i \in Accounts :
                  IF key.word = "" THEN newer(i) \div PageSize = key.page
                  ELSE users[i][1].name = key.word}}

Blank == [of |-> 0, name |-> "", secret |-> FALSE]
NoSave == [phase |-> "idle", id |-> 0, name |-> "", of |-> 0]
NoManage == [phase |-> "idle", name |-> "", action |-> "", role |-> 0, id |-> 0, held |-> <<>>]

UsersInit ==
  /\ lastId = Len(FirstNames)
  /\ users = [i \in UserIds |->
       IF i > lastId THEN <<>>
       ELSE <<[name |-> FirstNames[i], role |-> IF i = 1 THEN MyRole ELSE Common, on |-> TRUE]>>]
  /\ where = [page |-> 0, word |-> ""]
  /\ userLists = [k \in ListKeys |-> IF k = Here THEN Fresh ELSE Unasked]
  /\ userDetails = [i \in UserIds |-> Unasked] /\ dated = [lists |-> {}, details |-> {}]
  /\ editor = [open |-> FALSE, id |-> 0] /\ userForm = Blank
  /\ save = NoSave /\ manage = [w \in {"mine", "other"} |-> NoManage] /\ userMoves = 0

UserMove == userMoves < MaxMoves /\ userMoves' = userMoves + 1

-----------------------------------------------------------------------------
\* The list.
ListAsked(key) ==
  userLists' = IF userLists[key].data = <<>> \/ key \in dated.lists
               THEN [userLists EXCEPT ![key] = Fetch(@)] ELSE userLists

Go(page, word) ==
  /\ UserMove /\ where' = [page |-> page, word |-> word]
  /\ ListAsked(Key(page, word))
  /\ UNCHANGED <<server, userDetails, dated, editor, userForm, save, manage>>

handleSearchSubmit == \E w \in UserNames \union {""} : Go(0, w)
handleResetSearch == where # [page |-> 0, word |-> ""] /\ Go(0, "")

Paging == where.word = "" /\ ~Loading(userLists[Here])
PreviousUsers == Paging /\ where.page > 0 /\ Go(where.page - 1, "")
NextUsers ==
  /\ Paging /\ userLists[Here].data # <<>>
  /\ Cardinality(userLists[Here].data[1]) = PageSize
  /\ where.page + 1 \in Pages /\ Go(where.page + 1, "")

\* invalidateQueries: what the page observes is asked for again, the rest is stale.
ListsInvalidated ==
  /\ userLists' = [userLists EXCEPT ![Here] = Invalidated(@)]
  /\ dated' = [dated EXCEPT !.lists = ListKeys \ {Here}]

Refresh ==
  /\ UserMove /\ ListsInvalidated
  /\ UNCHANGED <<server, where, userDetails, editor, userForm, save, manage>>

UsersRead(key) ==
  /\ userLists[key].phase = "sent"
  /\ userLists' = [userLists EXCEPT ![key] = Answered(Read(@, Listed(key)))]
  /\ dated' = [dated EXCEPT !.lists = @ \ {key}]
  /\ UNCHANGED <<server, where, userDetails, editor, userForm, save, manage, userMoves>>

\* A row offers its buttons to an operator of a higher role only.
CanManage(item) == MyRole > item.row.role

-----------------------------------------------------------------------------
\* The editor.
Filled(i, row) == [of |-> i, name |-> row.name, secret |-> FALSE]

handleCreate ==
  /\ UserMove /\ ~editor.open
  /\ editor' = [open |-> TRUE, id |-> 0] /\ userForm' = Blank
  /\ UNCHANGED <<server, where, cached, save, manage>>

handleEdit ==
  /\ UserMove /\ ~editor.open /\ userLists[Here].data # <<>>
  /\ \E item \in userLists[Here].data[1] :
       /\ CanManage(item)
       /\ LET i == item.id
              q == userDetails[i]
          IN  /\ editor' = [open |-> TRUE, id |-> i]
              /\ userDetails' = IF q.data = <<>> \/ i \in dated.details
                                THEN [userDetails EXCEPT ![i] = Fetch(q)] ELSE userDetails
              /\ userForm' = IF q.data = <<>> THEN userForm ELSE Filled(i, q.data[1])
  /\ UNCHANGED <<server, where, userLists, dated, save, manage>>

\* Cancel is disabled during a save, the other ways to close the editor are not.
handleResetForm ==
  /\ editor.open /\ editor' = [open |-> FALSE, id |-> 0] /\ userForm' = Blank
  /\ UNCHANGED <<server, where, cached, save, manage, userMoves>>

FormShown ==
  /\ editor.open
  /\ editor.id # 0 => ~Loading(userDetails[editor.id]) /\ ~userDetails[editor.id].failed

TypeForm ==
  /\ UserMove /\ FormShown
  /\ \E n \in UserNames, s \in BOOLEAN :
       userForm' = [userForm EXCEPT !.name = n, !.secret = s] /\ userForm' # userForm
  /\ UNCHANGED <<server, where, cached, editor, save, manage>>

\* The resolver wants a name, and the mutation a password for a new user.
handleSubmit ==
  /\ UserMove /\ FormShown /\ save.phase = "idle" /\ userForm.name # ""
  /\ editor.id = 0 => userForm.secret
  /\ save' = [phase |-> "sent", id |-> editor.id, name |-> userForm.name, of |-> userForm.of]
  /\ UNCHANGED <<server, where, cached, editor, userForm, manage>>

\* GetUserForRole answers only about users of a lower role.
UserRead(i) ==
  /\ userDetails[i].phase = "sent"
  /\ userDetails' = [userDetails EXCEPT ![i] =
       IF i \in Accounts /\ MyRole > users[i][1].role THEN Read(@, users[i][1]) ELSE Failed(@)]
  /\ UNCHANGED <<server, where, userLists, dated, editor, userForm, save, manage, userMoves>>

UserAnswer(i) ==
  /\ userDetails[i].phase = "read"
  /\ userDetails' = [userDetails EXCEPT ![i] = Answered(@)]
  /\ dated' = [dated EXCEPT !.details = @ \ {i}]
  /\ userForm' = IF i = editor.id /\ userDetails[i].answer # userDetails[i].data
             THEN Filled(i, userDetails[i].answer[1]) ELSE userForm
  /\ UNCHANGED <<server, where, userLists, editor, save, manage, userMoves>>

\* Lists and details are invalidated; the detail of the edited user e is asked for again.
AllInvalidated(e) ==
  /\ userLists' = [userLists EXCEPT ![Here] = Invalidated(@)]
  /\ userDetails' = [i \in UserIds |->
       IF i = e THEN Invalidated(userDetails[i]) ELSE userDetails[i]]
  /\ dated' = [lists |-> ListKeys \ {Here}, details |-> UserIds \ {e}]

-----------------------------------------------------------------------------
\* The server: creating and updating.  The name is unique.
Taken(name, i) == \E j \in Accounts \ {i} : users[j][1].name = name

CreateUserAsAdmin ==
  /\ save.phase = "sent" /\ save.id = 0
  /\ IF Taken(save.name, 0)
     THEN save' = [save EXCEPT !.phase = "refused"] /\ UNCHANGED server
     ELSE /\ lastId < UserCount /\ lastId' = lastId + 1
          /\ users' = [users EXCEPT ![lastId + 1] =
                         <<[name |-> save.name, role |-> Common, on |-> TRUE]>>]
          /\ save' = [save EXCEPT !.phase = "done"]
  /\ UNCHANGED <<where, cached, editor, userForm, manage, userMoves>>

\* Updates writes the fields that are set: the name here, and no role or status.
UpdateUserAsAdmin ==
  /\ save.phase = "sent" /\ save.id # 0
  /\ LET i == save.id
     IN  IF i \in Accounts /\ MyRole > users[i][1].role /\ ~Taken(save.name, i)
         THEN /\ users' = [users EXCEPT ![i][1].name = save.name]
              /\ save' = [save EXCEPT !.phase = "done"]
         ELSE save' = [save EXCEPT !.phase = "refused"] /\ UNCHANGED users
  /\ UNCHANGED <<lastId, where, cached, editor, userForm, manage, userMoves>>

SaveAnswer ==
  /\ save.phase \in {"done", "refused"} /\ save' = NoSave
  /\ IF save.phase = "done"
     THEN editor' = [open |-> FALSE, id |-> 0] /\ userForm' = Blank /\ AllInvalidated(0)
     ELSE UNCHANGED <<editor, userForm, cached>>
  /\ UNCHANGED <<server, where, manage, userMoves>>

-----------------------------------------------------------------------------
\* Managing: the page's button, and the other operator, who is an administrator or root.
AskManage(who, name, action, role) ==
  /\ UserMove /\ manage[who].phase = "idle"
  /\ manage' = [manage EXCEPT ![who] =
       [NoManage EXCEPT !.phase = "sent", !.name = name, !.action = action, !.role = role]]
  /\ UNCHANGED <<server, where, cached, editor, userForm, save>>

\* The table's buttons.  They send the name, not the id.
Offered(item) ==
  {IF item.row.on THEN "disable" ELSE "enable", "delete"}
  \union IF item.row.role >= Admin THEN {"demote"}
         ELSE IF MyRole = Root THEN {"promote"} ELSE {}

handleManage ==
  /\ ~editor.open /\ userLists[Here].data # <<>>
  /\ \E item \in userLists[Here].data[1] : \E a \in Offered(item) :
       CanManage(item) /\ AskManage("mine", item.row.name, a, MyRole)

OtherOperator ==
  \E i \in Accounts, a \in Actions, r \in {Admin, Root} :
    AskManage("other", users[i][1].name, a, r)

\* What an action makes of a row, or nothing when it is refused.
Managed(row, action, role) ==
  CASE role <= row.role /\ role # Root -> <<>>
    [] action = "disable" /\ row.role # Root -> <<[row EXCEPT !.on = FALSE]>>
    [] action = "enable" -> <<[row EXCEPT !.on = TRUE]>>
    [] action = "delete" /\ row.role # Root -> <<row>>
    [] action = "promote" /\ role = Root /\ row.role < Admin -> <<[row EXCEPT !.role = Admin]>>
    [] action = "demote" /\ row.role = Admin -> <<[row EXCEPT !.role = Common]>>
    [] OTHER -> <<>>

ManageLookUp(who) ==
  /\ manage[who].phase = "sent"
  /\ LET m == manage[who]
         found == {i \in Accounts : users[i][1].name = m.name}
         changed(i) == Managed(users[i][1], m.action, m.role)
     IN  \/ \E i \in found :
              /\ changed(i) # <<>>
              /\ manage' = [manage EXCEPT ![who].phase = "held", ![who].id = i,
                                          ![who].held = changed(i)]
         \/ /\ \A i \in found : changed(i) = <<>>
            /\ manage' = [manage EXCEPT ![who].phase = "refused"]
  /\ UNCHANGED <<server, where, cached, editor, userForm, save, userMoves>>

\* Mutant: the copy is saved, which inserts a row that is gone, as other services do.
Written_Saves(i, row) == [users EXCEPT ![i] = row]

\* Updates with the whole copy: every column, of the row if it is still there.
Written(i, row) == IF i \in Accounts THEN [users EXCEPT ![i] = row] ELSE users

ManageWrite(who) ==
  /\ manage[who].phase = "held"
  /\ LET m == manage[who]
         fits == m.action = "delete" \/ m.id \notin Accounts \/ ~Taken(m.held[1].name, m.id)
     IN  /\ users' = CASE ~fits -> users
                       [] fits /\ m.action = "delete" -> [users EXCEPT ![m.id] = <<>>]
                       [] OTHER -> Written(m.id, m.held)
         /\ manage' = [manage EXCEPT ![who].phase = IF fits THEN "done" ELSE "refused",
                                     ![who].held = <<>>]
  /\ UNCHANGED <<lastId, where, cached, editor, userForm, save, userMoves>>

ManageAnswer ==
  /\ manage["mine"].phase \in {"done", "refused"}
  /\ manage' = [manage EXCEPT !["mine"] = NoManage]
  /\ IF manage["mine"].phase = "done" THEN AllInvalidated(editor.id) ELSE UNCHANGED cached
  /\ UNCHANGED <<server, where, editor, userForm, save, userMoves>>

OtherEnds ==
  /\ manage["other"].phase \in {"done", "refused"}
  /\ manage' = [manage EXCEPT !["other"] = NoManage]
  /\ UNCHANGED <<server, where, cached, editor, userForm, save, userMoves>>

UsersNext ==
  \/ handleSearchSubmit \/ handleResetSearch \/ PreviousUsers \/ NextUsers \/ Refresh
  \/ \E k \in ListKeys : UsersRead(k)
  \/ handleCreate \/ handleEdit \/ handleResetForm \/ TypeForm \/ handleSubmit
  \/ \E i \in UserIds : UserRead(i) \/ UserAnswer(i)
  \/ CreateUserAsAdmin \/ UpdateUserAsAdmin \/ SaveAnswer
  \/ handleManage \/ OtherOperator \/ ManageAnswer \/ OtherEnds
  \/ \E w \in {"mine", "other"} : ManageLookUp(w) \/ ManageWrite(w)

UsersSpec == UsersInit /\ [][UsersNext]_usersVars

-----------------------------------------------------------------------------
UsersTypeOK ==
  /\ users \in [UserIds -> Seq(Row)] /\ lastId \in 0 .. UserCount
  /\ where \in [page : Pages, word : UserNames \union {""}]
  /\ dated \in [lists : SUBSET ListKeys, details : SUBSET UserIds]
  /\ \A k \in ListKeys : IsQueryOf(userLists[k], SUBSET [id : UserIds, row : Row])
  /\ \A i \in UserIds : IsQueryOf(userDetails[i], Row)
  /\ editor \in [open : BOOLEAN, id : UserIds \union {0}]
  /\ userForm \in [of : UserIds \union {0}, name : UserNames \union {""}, secret : BOOLEAN]
  /\ save.phase \in {"idle", "sent", "done", "refused"} /\ save.id \in UserIds \union {0}
  /\ \A w \in {"mine", "other"} :
       /\ manage[w].phase \in {"idle", "sent", "held", "done", "refused"}
       /\ manage[w].held \in Seq(Row)
  /\ userMoves \in 0 .. MaxMoves

\* An account that was deleted does not come back, although requests that were under way
\* hold a copy of it and write all of the copy (user.go:215-263, model/user.go:76-86).
StaysGone == \A i \in 1 .. lastId : users[i] = <<>> => users'[i] = <<>>
GoneForGood == [][StaysGone]_usersVars

\* A save changes the user whose data filled the form that was saved, although the editor
\* is closed and opened for others, with and without their details in the cache, while
\* the save and the details are under way (users-page.tsx:126-140, 221-232).
SavesTheUserShown == save.phase # "idle" => save.of = save.id
=============================================================================
