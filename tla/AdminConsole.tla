---------------------------- MODULE AdminConsole ----------------------------
(***************************************************************************)
(* The web site as an administrator uses it: the component App with its    *)
(* dialogs (LoginForm, LogoutModal, DeleteModal) and the requests of       *)
(* restCalls, beside the table of NodeTable.                               *)
(*                                                                         *)
(* A click handler runs to its end before anything else does, and React    *)
(* renders its changes of state at once.  A request is answered later,     *)
(* whatever dialog is open by then: the answer to a login closes "the"     *)
(* dialog, the answer to a deletion forgets "the" selected node.           *)
(*                                                                         *)
(* The access token lives in sessionStorage, which outlives a reload.  The *)
(* service's tokens expire.  What it does with a request to delete, and its *)
(* refusal without a valid token, is NodeRegistry's.                       *)
(* The mouse is used, and the keyboard to fill in the login form; what the *)
(* form says of a wrong password is left out.                              *)
(***************************************************************************)
EXTENDS NodeTable

CONSTANTS
  NoNode,  \* null
  Logins,  \* requests to sign in that can be in flight
  Deletes  \* requests to delete that can be in flight

ASSUME ConsoleAssumption == NoNode \notin Nodes

VARIABLES
  token,        \* sessionStorage: "none", "fresh" or "expired"
  admin,        \* App's state, as the next three
  modal,        \* the dialog
  style,        \* the dialog has class "on": it takes the mouse's clicks
  selectedNode, \* the node of the row whose trash icon was clicked
  login,        \* requests to sign in: "idle", or what was typed in, "right" or "wrong"
  delete,       \* requests to delete: "idle" or "sent"
  blank,        \* rendering has failed: React has removed the whole page
  asked,        \* history: the node whose trash icon was clicked last
  leftover,     \* history: logins that were in flight when the user last signed out
  doubled,      \* history: a login was sent while another one was in flight
  offline       \* history: a login has failed without an answer since the last sign-out

appVars == <<admin, modal, style, selectedNode, blank>>
requestVars == <<login, delete>>
history == <<asked, leftover, doubled, offline>>
consoleVars == <<token, appVars, requestVars, history>>
webVars == <<consoleVars, tableVars>>

Dialogs == {"sign-in", "sign-out", "delete"}
InFlight == {i \in Logins : login[i] # "idle"}

\* What App's constructor makes of a token that is already there.
Mount(t) ==
  [admin |-> t # "none", modal |-> "", style |-> FALSE, selectedNode |-> NoNode,
   blank |-> FALSE]

ConsoleInit ==
  /\ token \in {"none", "fresh", "expired"}
  /\ admin = Mount(token).admin /\ modal = "" /\ style = FALSE
  /\ selectedNode = NoNode /\ blank = FALSE
  /\ login = [i \in Logins |-> "idle"]
  /\ delete = [d \in Deletes |-> "idle"]
  /\ asked = NoNode /\ leftover = {} /\ doubled = FALSE /\ offline = FALSE
  /\ PageInit

-----------------------------------------------------------------------------
(* toggleModal and what the mouse can reach.                               *)

ShowDialog(m) == modal' = m /\ style' = ~style

Close == ShowDialog("")

\* A dialog that is "on" covers the page; one that is not lets clicks through.
OnPage == ~blank /\ ~(modal \in Dialogs /\ style)
OnDialog(m) == ~blank /\ modal = m /\ style

\* Mutant: both icons are there, whether the user is signed in or not.
ClickIconBoth ==
  /\ OnPage
  /\ \E m \in {"sign-in", "sign-out"} : ShowDialog(m)
  /\ selectedNode' = NoNode
  /\ UNCHANGED <<token, admin, blank, login, delete, history, tableVars>>

ClickIcon ==
  /\ OnPage
  /\ ShowDialog(IF token = "none" THEN "sign-in" ELSE "sign-out")
  /\ selectedNode' = NoNode
  /\ UNCHANGED <<token, admin, blank, login, delete, history, tableVars>>

\* Mutant: the trash icon is shown to everybody.
ClickTrashAnybody(n) ==
  /\ OnPage /\ page = "home" /\ \E i \in DOMAIN rows : rows[i].node = n
  /\ ShowDialog("delete")
  /\ selectedNode' = n /\ asked' = n
  /\ UNCHANGED <<token, admin, blank, login, delete, leftover, doubled, offline, tableVars>>

\* Mutant: a node still selected from a dialog that was dismissed is kept.
ClickTrashKeep(n) ==
  /\ OnPage /\ page = "home" /\ admin /\ \E i \in DOMAIN rows : rows[i].node = n
  /\ ShowDialog("delete")
  /\ selectedNode' = IF selectedNode = NoNode THEN n ELSE selectedNode
  /\ asked' = n
  /\ UNCHANGED <<token, admin, blank, login, delete, leftover, doubled, offline, tableVars>>

\* Mutant: the party's key is handed over for the node.
ClickTrashParty(n) ==
  /\ OnPage /\ page = "home" /\ admin
  /\ \E i \in DOMAIN rows : rows[i].node = n /\ selectedNode' = rows[i].key
  /\ ShowDialog("delete")
  /\ asked' = n
  /\ UNCHANGED <<token, admin, blank, login, delete, leftover, doubled, offline, tableVars>>

ClickTrash(n) ==
  /\ OnPage /\ page = "home" /\ admin /\ \E i \in DOMAIN rows : rows[i].node = n
  /\ ShowDialog("delete")
  /\ selectedNode' = n /\ asked' = n
  /\ UNCHANGED <<token, admin, blank, login, delete, leftover, doubled, offline, tableVars>>

ClickOutside ==
  /\ \E m \in Dialogs : OnDialog(m)
  /\ ShowDialog("default")
  /\ selectedNode' = NoNode
  /\ UNCHANGED <<token, admin, blank, login, delete, history, tableVars>>

\* Cancel or No.
Dismiss ==
  /\ \E m \in Dialogs : OnDialog(m)
  /\ Close
  /\ UNCHANGED <<token, admin, selectedNode, blank, login, delete, history, tableVars>>

-----------------------------------------------------------------------------
(* Signing in and out.                                                     *)

\* handleClick of Log In, also by the enter key.
LogIn(i) ==
  /\ ~blank /\ modal = "sign-in" /\ login[i] = "idle"
  /\ \E typed \in {"right", "wrong"} : login' = [login EXCEPT ![i] = typed]
  /\ leftover' = leftover \ {i} /\ doubled' = (doubled \/ InFlight # {})
  /\ UNCHANGED <<token, appVars, delete, asked, offline, tableVars>>

\* The rest of handleClick, when the result is not "fail".
SignedIn == IF blank THEN UNCHANGED <<admin, modal, style>>
                     ELSE admin' = TRUE /\ Close

\* Mutant: the status of checkAuth is not looked at.
LoginAnswerUnchecked(i) ==
  /\ login[i] # "idle" /\ login' = [login EXCEPT ![i] = "idle"]
  /\ token' = IF login[i] = "right" THEN "fresh" ELSE token
  /\ SignedIn /\ leftover' = leftover \ {i}
  /\ UNCHANGED <<selectedNode, blank, delete, asked, doubled, offline, tableVars>>

\* The service has answered: 200 brings a token, any other status leaves the old
\* one, and checkAuth looks at whichever is there.
LoginAnswer(i) ==
  /\ login[i] # "idle" /\ login' = [login EXCEPT ![i] = "idle"]
  /\ token' = IF login[i] = "right" THEN "fresh" ELSE token
  /\ \/ token' = "fresh" /\ SignedIn
     \/ token' # "fresh" /\ UNCHANGED <<admin, modal, style>>
  /\ leftover' = leftover \ {i}
  /\ UNCHANGED <<selectedNode, blank, delete, asked, doubled, offline, tableVars>>

\* The request fails without an answer.  NMSLogin catches the exception and its
\* result is undefined, which is not "fail".
LoginFails(i) ==
  /\ login[i] # "idle" /\ login' = [login EXCEPT ![i] = "idle"]
  /\ SignedIn /\ leftover' = leftover \ {i} /\ offline' = TRUE
  /\ UNCHANGED <<token, selectedNode, blank, delete, asked, doubled, tableVars>>

\* Yes of the sign-out dialog.
LogOut ==
  /\ OnDialog("sign-out")
  /\ token' = "none" /\ admin' = FALSE /\ Close
  /\ leftover' = InFlight /\ offline' = FALSE
  /\ UNCHANGED <<selectedNode, blank, login, delete, asked, doubled, tableVars>>

-----------------------------------------------------------------------------
(* Deleting a node.                                                        *)

\* Yes of the delete dialog.
ConfirmDelete(d) ==
  /\ OnDialog("delete") /\ delete[d] = "idle"
  /\ delete' = [delete EXCEPT ![d] = "sent"]
  /\ Close
  /\ UNCHANGED <<token, admin, selectedNode, blank, login, history, tableVars>>

\* Any answer, whatever its status, forgets the selected node.  The delete dialog
\* cannot be rendered without one.
DeleteAnswer(d) ==
  /\ delete[d] = "sent" /\ delete' = [delete EXCEPT ![d] = "idle"]
  /\ selectedNode' = IF blank THEN selectedNode ELSE NoNode
  /\ blank' = (blank \/ modal = "delete")
  /\ UNCHANGED <<token, admin, modal, style, login, history, tableVars>>

\* The connection breaks: nothing catches the exception.
DeleteFails(d) ==
  /\ delete[d] = "sent" /\ delete' = [delete EXCEPT ![d] = "idle"]
  /\ UNCHANGED <<token, appVars, login, history, tableVars>>

-----------------------------------------------------------------------------
(* The rest of the page.                                                   *)

Expire ==
  /\ token = "fresh" /\ token' = "expired"
  /\ UNCHANGED <<appVars, requestVars, history, tableVars>>

\* The page is loaded anew; nothing waits for what the old one has sent.
Reload ==
  /\ admin' = Mount(token).admin /\ modal' = "" /\ style' = FALSE
  /\ selectedNode' = NoNode /\ blank' = FALSE
  /\ login' = [i \in Logins |-> "idle"]
  /\ delete' = [d \in Deletes |-> "idle"]
  /\ PageReset
  /\ leftover' = {} /\ doubled' = FALSE /\ offline' = FALSE
  /\ UNCHANGED <<token, asked>>

\* The page is loaded, the user sorts the table and an administrator uses the
\* menu.
Browse ==
  /\ \/ ~blank /\ (LoadStep \/ BraidAnswer)
     \/ OnPage /\ \E column \in Columns : SortTable(column)
     \/ OnPage /\ admin /\ (OpenDashboard \/ OpenBraid)
  /\ UNCHANGED consoleVars

Dialog ==
  \/ ClickIcon \/ ClickOutside \/ Dismiss \/ LogOut
  \/ \E n \in Nodes : ClickTrash(n)
  \/ \E i \in Logins : LogIn(i)
  \/ \E d \in Deletes : ConfirmDelete(d)

Request ==
  \/ \E i \in Logins : LoginAnswer(i) \/ LoginFails(i)
  \/ \E d \in Deletes : DeleteAnswer(d) \/ DeleteFails(d)

ConsoleNext == Browse \/ Dialog \/ Request \/ Expire \/ Reload

ConsoleSpec == ConsoleInit /\ [][ConsoleNext]_webVars

-----------------------------------------------------------------------------
(* Properties.                                                             *)

\* Every variable of the console has its type.
ConsoleTypeOK ==
  /\ token \in {"none", "fresh", "expired"}
  /\ admin \in BOOLEAN /\ modal \in Dialogs \cup {"", "default"} /\ style \in BOOLEAN
  /\ selectedNode \in Nodes \cup {NoNode} /\ blank \in BOOLEAN
  /\ login \in [Logins -> {"idle", "right", "wrong"}]
  /\ delete \in [Deletes -> {"idle", "sent"}]
  /\ asked \in Nodes \cup {NoNode} /\ leftover \subseteq Logins
  /\ doubled \in BOOLEAN /\ offline \in BOOLEAN

\* The dialog asks about, and its Yes deletes, the node whose trash icon was
\* clicked last, although the answer to an earlier deletion may arrive while it
\* is open and forget the selected node: then the dialog is gone with the page.
AsksAboutClicked ==
  modal = "delete" /\ ~blank => selectedNode = asked /\ asked \in Nodes

\* The dialog to delete a node is open only while the user is shown as an
\* administrator, whatever logins are answered and dialogs opened meanwhile.
DeleteOnlyByAdmin ==
  modal = "delete" => admin

\* The controls of an administrator are shown to a user with a token, valid or
\* expired; without one only where a login has failed without an answer since,
\* which NMSLogin takes for a success.
AdminHasToken ==
  admin => token # "none" \/ offline

\* A user who has signed out stays signed out: no login is in flight by then whose
\* answer would bring the token and the controls back, unless a login was sent
\* while another one was in flight (a double click), which nothing prevents.
SignedOutStays ==
  leftover # {} => doubled
=============================================================================
