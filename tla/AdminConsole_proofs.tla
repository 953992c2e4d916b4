------------------------ MODULE AdminConsole_proofs ------------------------
(***************************************************************************)
(* Proofs about AdminConsole and its NodeTable, for any nodes and tables   *)
(* and any numbers of requests in flight.                                  *)
(***************************************************************************)
EXTENDS AdminConsole, FiniteSetTheorems, WellFoundedInduction, TLAPS

USE ConsoleAssumption

\* What the dialogs and requests know of the token while no login is sent twice:
\* at most one is in flight, and only of a user without a token; the dialog that
\* is open fits the token; and no login survives a sign-out.
TokenKnown ==
  ~doubled =>
    /\ \A i, k \in InFlight : i = k
    /\ InFlight # {} => token = "none"
    /\ modal = "sign-in" /\ ~blank => token = "none"
    /\ modal = "sign-out" /\ ~blank => token # "none"
    /\ leftover = {}

ConsoleInv == AsksAboutClicked /\ DeleteOnlyByAdmin /\ AdminHasToken /\ TokenKnown

-----------------------------------------------------------------------------
(* Lemmas.                                                                 *)

\* The initial states are well typed and satisfy the invariant.
LEMMA ConsoleInitInvariant == ConsoleInit => ConsoleTypeOK /\ ConsoleInv
  BY DEF ConsoleInit, Mount, ConsoleTypeOK, ConsoleInv, AsksAboutClicked, DeleteOnlyByAdmin,
         AdminHasToken, TokenKnown, InFlight

\* Dialogs keep the types.
LEMMA DialogType ==
  ASSUME ConsoleTypeOK, Dialog
  PROVE  ConsoleTypeOK'
<1> USE DEF ConsoleTypeOK, ShowDialog, Close, Dialogs, history, appVars, requestVars
<1>1. CASE ClickIcon
  BY <1>1 DEF ClickIcon
<1>2. CASE ClickOutside
  BY <1>2 DEF ClickOutside
<1>3. CASE Dismiss
  BY <1>3 DEF Dismiss
<1>4. CASE LogOut
  BY <1>4 DEF LogOut, InFlight
<1>5. ASSUME NEW n \in Nodes, ClickTrash(n)
      PROVE  ConsoleTypeOK'
  BY <1>5 DEF ClickTrash
<1>6. ASSUME NEW i \in Logins, LogIn(i)
      PROVE  ConsoleTypeOK'
  BY <1>6 DEF LogIn
<1>7. ASSUME NEW d \in Deletes, ConfirmDelete(d)
      PROVE  ConsoleTypeOK'
  BY <1>7 DEF ConfirmDelete
<1>8. QED
  BY <1>1, <1>2, <1>3, <1>4, <1>5, <1>6, <1>7 DEF Dialog

\* So do the answers to requests.
LEMMA RequestType ==
  ASSUME ConsoleTypeOK, Request
  PROVE  ConsoleTypeOK'
<1> USE DEF ConsoleTypeOK, SignedIn, ShowDialog, Close, Dialogs, history, appVars, requestVars
<1>1. ASSUME NEW i \in Logins, LoginAnswer(i)
      PROVE  ConsoleTypeOK'
  BY <1>1 DEF LoginAnswer
<1>2. ASSUME NEW i \in Logins, LoginFails(i)
      PROVE  ConsoleTypeOK'
  BY <1>2 DEF LoginFails
<1>3. ASSUME NEW d \in Deletes, DeleteAnswer(d) \/ DeleteFails(d)
      PROVE  ConsoleTypeOK'
  BY <1>3 DEF DeleteAnswer, DeleteFails
<1>4. QED
  BY <1>1, <1>2, <1>3 DEF Request

\* Every step keeps the types.
LEMMA ConsoleNextType == ConsoleTypeOK /\ [ConsoleNext]_webVars => ConsoleTypeOK'
<1> SUFFICES ASSUME ConsoleTypeOK, [ConsoleNext]_webVars
             PROVE  ConsoleTypeOK'
  OBVIOUS
<1>1. CASE Browse \/ UNCHANGED webVars
  BY <1>1 DEF Browse, webVars, consoleVars, history, appVars, requestVars, ConsoleTypeOK
<1>2. CASE Expire
  BY <1>2 DEF Expire, history, appVars, requestVars, ConsoleTypeOK
<1>3. CASE Reload
  BY <1>3 DEF Reload, Mount, ConsoleTypeOK
<1>4. QED
  BY <1>1, <1>2, <1>3, DialogType, RequestType DEF ConsoleNext

-----------------------------------------------------------------------------
(* The invariant.                                                          *)

\* The user's clicks keep it.
LEMMA DialogInvariant ==
  ASSUME ConsoleTypeOK, ConsoleInv, Dialog
  PROVE  ConsoleInv'
<1> USE DEF ConsoleInv, AsksAboutClicked, DeleteOnlyByAdmin, AdminHasToken, TokenKnown, InFlight,
            ShowDialog, Close, OnDialog, Dialogs, history, appVars, requestVars
<1>1. CASE ClickIcon
  BY <1>1 DEF ClickIcon
<1>2. CASE ClickOutside
  BY <1>2 DEF ClickOutside
<1>3. CASE Dismiss
  BY <1>3 DEF Dismiss
<1>4. CASE LogOut
  BY <1>4 DEF LogOut
<1>5. ASSUME NEW n \in Nodes, ClickTrash(n)
      PROVE  ConsoleInv'
  BY <1>5 DEF ClickTrash
<1>6. ASSUME NEW i \in Logins, LogIn(i)
      PROVE  ConsoleInv'
  <2>1. UNCHANGED <<token, admin, modal, selectedNode, blank, asked, offline>>
    BY <1>6 DEF LogIn
  <2>2. TokenKnown'
    <3>1. CASE doubled'
      BY <3>1
    <3>2. CASE ~doubled'
      <4>1. ~doubled /\ InFlight = {} /\ InFlight' \subseteq {i} /\ leftover' = leftover \ {i}
        BY <1>6, <3>2 DEF LogIn, ConsoleTypeOK
      <4>2. token = "none"
        BY <1>6, <4>1 DEF LogIn
      <4>3. QED
        BY <2>1, <4>1, <4>2
    <3>3. QED
      BY <3>1, <3>2
  <2>3. QED
    BY <2>1, <2>2
<1>7. ASSUME NEW d \in Deletes, ConfirmDelete(d)
      PROVE  ConsoleInv'
  BY <1>7 DEF ConfirmDelete
<1>8. QED
  BY <1>1, <1>2, <1>3, <1>4, <1>5, <1>6, <1>7 DEF Dialog

\* A request that is answered is no longer in flight, the others still are.
LEMMA AnsweredOnce ==
  ASSUME ConsoleTypeOK, NEW i \in Logins, login' = [login EXCEPT ![i] = "idle"]
  PROVE  InFlight' = InFlight \ {i}
  BY DEF ConsoleTypeOK, InFlight

\* Answers keep the invariant.
LEMMA RequestInvariant ==
  ASSUME ConsoleTypeOK, ConsoleInv, Request
  PROVE  ConsoleInv'
<1> USE DEF ConsoleInv, AsksAboutClicked, DeleteOnlyByAdmin, AdminHasToken, TokenKnown,
            SignedIn, ShowDialog, Close, history, appVars, requestVars
<1>1. ASSUME NEW i \in Logins, LoginAnswer(i)
      PROVE  ConsoleInv'
  <2>1. i \in InFlight /\ InFlight' = InFlight \ {i}
    BY <1>1, AnsweredOnce DEF LoginAnswer, InFlight
  <2>2. UNCHANGED <<selectedNode, blank, asked, doubled, offline>> /\ leftover' = leftover \ {i}
    BY <1>1 DEF LoginAnswer
  <2>3. CASE token' = "fresh" /\ SignedIn
    BY <2>1, <2>2, <2>3
  <2>4. CASE token' # "fresh" /\ UNCHANGED <<admin, modal, style>>
    <3>1. token' = token
      BY <1>1, <2>4 DEF LoginAnswer
    <3>2. QED
      BY <2>1, <2>2, <2>4, <3>1
  <2>5. QED
    BY <1>1, <2>3, <2>4 DEF LoginAnswer
<1>2. ASSUME NEW i \in Logins, LoginFails(i)
      PROVE  ConsoleInv'
  <2>1. i \in InFlight /\ InFlight' = InFlight \ {i}
    BY <1>2, AnsweredOnce DEF LoginFails, InFlight
  <2>2. QED
    BY <1>2, <2>1 DEF LoginFails
<1>3. ASSUME NEW d \in Deletes, DeleteAnswer(d) \/ DeleteFails(d)
      PROVE  ConsoleInv'
  <2>1. UNCHANGED <<token, admin, modal, login, asked, leftover, doubled, offline>>
    BY <1>3 DEF DeleteAnswer, DeleteFails
  <2>2. \/ UNCHANGED <<selectedNode, blank>>
        \/ blank' = (blank \/ modal = "delete")
    BY <1>3 DEF DeleteAnswer, DeleteFails
  <2>3. InFlight' = InFlight
    BY <2>1 DEF InFlight
  <2>4. CASE UNCHANGED <<selectedNode, blank>>
    BY <2>1, <2>3, <2>4
  <2>5. CASE blank' = (blank \/ modal = "delete")
    BY <2>1, <2>3, <2>5 DEF ConsoleTypeOK
  <2>6. QED
    BY <2>2, <2>4, <2>5
<1>4. QED
  BY <1>1, <1>2, <1>3 DEF Request

\* Every step keeps it.
LEMMA ConsoleNextInvariant ==
  ConsoleTypeOK /\ ConsoleInv /\ [ConsoleNext]_webVars => ConsoleInv'
<1> SUFFICES ASSUME ConsoleTypeOK, ConsoleInv, [ConsoleNext]_webVars
             PROVE  ConsoleInv'
  OBVIOUS
<1> USE DEF ConsoleInv, AsksAboutClicked, DeleteOnlyByAdmin, AdminHasToken, TokenKnown, InFlight,
            history, appVars, requestVars
<1>1. CASE Browse \/ UNCHANGED webVars
  BY <1>1 DEF Browse, webVars, consoleVars
<1>2. CASE Expire
  BY <1>2 DEF Expire
<1>3. CASE Reload
  BY <1>3 DEF Reload, Mount
<1>4. QED
  BY <1>1, <1>2, <1>3, DialogInvariant, RequestInvariant DEF ConsoleNext

\* It holds in every reachable state.
LEMMA ConsoleInvariant == ConsoleSpec => [](ConsoleTypeOK /\ ConsoleInv)
<1>1. QED
  BY ConsoleInitInvariant, ConsoleNextType, ConsoleNextInvariant, PTL DEF ConsoleSpec

-----------------------------------------------------------------------------
(* Theorems.                                                               *)

\* Every reachable state of the console is well typed.
THEOREM ConsoleTypeCorrect == ConsoleSpec => []ConsoleTypeOK
<1>1. QED
  BY ConsoleInvariant, PTL

\* The dialog asks about the node that was clicked, or is gone with the page.
THEOREM AlwaysAsksAboutClicked == ConsoleSpec => []AsksAboutClicked
<1>1. ConsoleInv => AsksAboutClicked
  BY DEF ConsoleInv
<1>2. QED
  BY <1>1, ConsoleInvariant, PTL

\* Only to an administrator is the deletion dialog shown.
THEOREM OnlyAdminDeletes == ConsoleSpec => []DeleteOnlyByAdmin
<1>1. ConsoleInv => DeleteOnlyByAdmin
  BY DEF ConsoleInv
<1>2. QED
  BY <1>1, ConsoleInvariant, PTL

\* An administrator has a token, or a login has failed without an answer.
THEOREM AdminAlwaysHasToken == ConsoleSpec => []AdminHasToken
<1>1. ConsoleInv => AdminHasToken
  BY DEF ConsoleInv
<1>2. QED
  BY <1>1, ConsoleInvariant, PTL

\* Unless logins overlap, none is in flight after the user has signed out.
THEOREM SigningOutIsFinal == ConsoleSpec => []SignedOutStays
<1>1. ConsoleInv => SignedOutStays
  BY DEF ConsoleInv, TokenKnown, SignedOutStays
<1>2. QED
  BY <1>1, ConsoleInvariant, PTL

-----------------------------------------------------------------------------
(* Numbers, ascending lists, and the join of a sequence of sequences.      *)

\* A nonempty set of numbers has a least member.
LEMMA Least ==
  ASSUME NEW T \in SUBSET Nat, T # {}
  PROVE  \E x \in T : \A y \in T : x <= y
<1>1. IsWellFoundedOn(OpToRel(<, Nat), Nat)
  BY NatLessThanWellFounded
<1>2. PICK x \in T : \A y \in T : <<y, x>> \notin OpToRel(<, Nat)
  BY <1>1, WFMin, Zenon
<1>3. \A y \in T : ~(y < x)
  BY <1>2 DEF OpToRel
<1> QED
  BY <1>3

\* A set of numbers with 0, and with the successor of each of its members below
\* n, has all up to n.
LEMMA Climb ==
  ASSUME NEW n \in Nat, NEW T, 0 \in T, \A k \in 0 .. n : k \in T /\ k < n => k + 1 \in T
  PROVE  \A k \in 0 .. n : k \in T
<1> DEFINE U == (0 .. n) \ T
<1>1. SUFFICES ASSUME U # {}
               PROVE  FALSE
  OBVIOUS
<1>2. PICK x \in U : \A y \in U : x <= y
  <2>1. U \in SUBSET Nat
    OBVIOUS
  <2> HIDE DEF U
  <2> QED
    BY <1>1, <2>1, Least
<1>3. x # 0 /\ x - 1 \in 0 .. n /\ x - 1 < n
  BY <1>2
<1>4. x - 1 \in T
  BY <1>2, <1>3
<1> QED
  BY <1>2, <1>3, <1>4

\* A set of numbers up to m is finite.
LEMMA FiniteUpTo ==
  ASSUME NEW m \in Nat, NEW S \in SUBSET (1 .. m)
  PROVE  IsFiniteSet(S) /\ Cardinality(S) \in Nat
<1>1. IsFiniteSet(1 .. m)
  BY FS_Interval
<1> QED
  BY <1>1, FS_Subset, FS_CardinalityType

\* Later items are greater.
Increasing(s) == \A i, j \in DOMAIN s : i < j => s[i] < s[j]

\* Every set of numbers up to m can be put into ascending order.
LEMMA Sortable ==
  ASSUME NEW m \in Nat
  PROVE  \A S \in SUBSET (1 .. m) : \E s \in [1 .. Cardinality(S) -> S] : Increasing(s)
<1> DEFINE T == {k \in 0 .. m :
                  \A S \in SUBSET (1 .. k) : \E s \in [1 .. Cardinality(S) -> S] : Increasing(s)}
<1>1. 0 \in T
  <2>1. ASSUME NEW S \in SUBSET (1 .. 0)
        PROVE  \E s \in [1 .. Cardinality(S) -> S] : Increasing(s)
    <3>1. S = {} /\ Cardinality({}) = 0
      BY FS_EmptySet
    <3>2. [i \in {} |-> 0] \in [1 .. 0 -> {}] /\ Increasing([i \in {} |-> 0])
      BY DEF Increasing
    <3> QED
      BY <3>1, <3>2
  <2> QED
    BY <2>1
<1>2. ASSUME NEW k \in 0 .. m, k \in T, k < m
      PROVE  k + 1 \in T
  <2>1. ASSUME NEW S \in SUBSET (1 .. (k + 1))
        PROVE  \E s \in [1 .. Cardinality(S) -> S] : Increasing(s)
    <3>1. CASE k + 1 \notin S
      <4>1. S \in SUBSET (1 .. k)
        BY <3>1
      <4> QED
        BY <4>1, <1>2
    <3>2. CASE k + 1 \in S
      <4> DEFINE R == S \ {k + 1}
      <4>1. R \in SUBSET (1 .. k)
        OBVIOUS
      <4>2. PICK r \in [1 .. Cardinality(R) -> R] : Increasing(r)
        BY <4>1, <1>2
      <4>3. IsFiniteSet(S) /\ Cardinality(S) \in Nat
        <5>1. k + 1 \in Nat
          OBVIOUS
        <5> QED
          BY <5>1, FiniteUpTo
      <4>4. Cardinality(R) = Cardinality(S) - 1 /\ Cardinality(R) \in Nat
        BY <3>2, <4>3, FS_RemoveElement, FS_CardinalityType
      <4> DEFINE c == Cardinality(R)
                 s == [i \in 1 .. (c + 1) |-> IF i = c + 1 THEN k + 1 ELSE r[i]]
      <4> HIDE DEF c, R
      <4>5. c \in Nat /\ Cardinality(S) = c + 1
        BY <4>3, <4>4 DEF c
      <4>6. \A i \in 1 .. c : r[i] \in R /\ r[i] \in 1 .. k /\ r[i] \in S
        BY <4>1, <4>2 DEF c, R
      <4>7. s \in [1 .. (c + 1) -> S]
        BY <3>2, <4>5, <4>6
      <4>8. \A i, j \in 1 .. c : i < j => r[i] < r[j]
        BY <4>2 DEF Increasing, c
      <4>9. Increasing(s)
        BY <4>5, <4>6, <4>8 DEF Increasing
      <4> QED
        BY <4>5, <4>7, <4>9
    <3> QED
      BY <3>1, <3>2
  <2>2. k + 1 \in 0 .. m
    BY <1>2
  <2> QED
    BY <2>1, <2>2
<1> HIDE DEF T
<1>3. m \in T
  BY <1>1, <1>2, Climb
<1> QED
  BY <1>3 DEF T

\* So Ascending lists all of them, each once, in ascending order.
LEMMA AscendingLists ==
  ASSUME NEW m \in Nat, NEW S \in SUBSET (1 .. m)
  PROVE  /\ Cardinality(S) \in Nat
         /\ Ascending(S) \in [1 .. Cardinality(S) -> S]
         /\ Increasing(Ascending(S))
         /\ \A x \in S : \E i \in 1 .. Cardinality(S) : Ascending(S)[i] = x
<1> DEFINE s == Ascending(S)
           c == Cardinality(S)
<1>1. IsFiniteSet(S) /\ c \in Nat
  BY FiniteUpTo
<1>2. s \in [1 .. c -> S] /\ Increasing(s)
  BY Sortable DEF Ascending, Increasing
<1> HIDE DEF s, c
<1>3. \A i, j \in 1 .. c : s[i] = s[j] => i = j
  <2>1. \A i \in 1 .. c : s[i] \in Nat
    <3>1. \A x \in S : x \in Nat
      OBVIOUS
    <3> QED
      BY <1>2, <3>1
  <2>2. \A i, j \in 1 .. c : i < j => s[i] < s[j]
    BY <1>2 DEF Increasing
  <2> QED
    BY <1>1, <2>1, <2>2
<1>4. s \in Injection(1 .. c, S)
  BY <1>2, <1>3 DEF Injection, IsInjective
<1>5. Cardinality(1 .. c) = c
  BY <1>1, FS_Interval
<1>6. s \in Surjection(1 .. c, S)
  BY <1>1, <1>4, <1>5, FS_Injection DEF c
<1>7. \A x \in S : \E i \in 1 .. c : s[i] = x
  BY <1>6 DEF Surjection
<1> QED
  BY <1>1, <1>2, <1>7 DEF s, c

\* f joins the sequences of s, one after the other.
Joins(f, s) == f = [i \in 1 .. Len(s) |-> IF i = 1 THEN s[i] ELSE f[i - 1] \o s[i]]

\* There is such a function, for every s.
LEMMA Joinable ==
  ASSUME NEW A, NEW s \in Seq(Seq(A))
  PROVE  \E f : Joins(f, s)
<1> DEFINE n == Len(s)
           Upto(f, k) == \A i \in 1 .. k : f[i] = IF i = 1 THEN s[i] ELSE f[i - 1] \o s[i]
           T == {k \in 0 .. n : \E f \in [1 .. k -> Seq(A)] : Upto(f, k)}
<1>0. n \in Nat
  OBVIOUS
<1>1. 0 \in T
  <2> DEFINE e == [i \in 1 .. 0 |-> <<>>]
  <2>1. e \in [1 .. 0 -> Seq(A)]
    OBVIOUS
  <2>2. \A i \in 1 .. 0 : FALSE
    OBVIOUS
  <2> HIDE DEF e, n
  <2>3. Upto(e, 0)
    BY <2>2
  <2>4. 0 \in 0 .. n
    BY <1>0
  <2> HIDE DEF Upto
  <2> QED
    BY <2>1, <2>3, <2>4
<1>2. ASSUME NEW k \in 0 .. n, k \in T, k < n
      PROVE  k + 1 \in T
  <2>1. PICK f \in [1 .. k -> Seq(A)] : Upto(f, k)
    BY <1>2
  <2> DEFINE next == IF k = 0 THEN s[k + 1] ELSE f[k] \o s[k + 1]
             g == [i \in 1 .. (k + 1) |-> IF i = k + 1 THEN next ELSE f[i]]
  <2>2. next \in Seq(A)
    <3>1. s[k + 1] \in Seq(A)
      BY <1>2
    <3>2. k # 0 => f[k] \in Seq(A)
      OBVIOUS
    <3> QED
      BY <3>1, <3>2
  <2>3. g \in [1 .. (k + 1) -> Seq(A)]
    BY <2>2
  <2>4. Upto(g, k + 1)
    <3> SUFFICES ASSUME NEW i \in 1 .. (k + 1)
                 PROVE  g[i] = IF i = 1 THEN s[i] ELSE g[i - 1] \o s[i]
      OBVIOUS
    <3>1. CASE i = k + 1
      BY <3>1
    <3>2. CASE i # k + 1
      <4>1. i \in 1 .. k /\ g[i] = f[i]
        BY <3>2
      <4>2. i # 1 => i - 1 \in 1 .. k /\ g[i - 1] = f[i - 1]
        BY <4>1
      <4>3. f[i] = IF i = 1 THEN s[i] ELSE f[i - 1] \o s[i]
        BY <2>1, <4>1
      <4> HIDE DEF g
      <4> QED
        BY <4>1, <4>2, <4>3
    <3> QED
      BY <3>1, <3>2
  <2>5. k + 1 \in 0 .. n
    BY <1>2
  <2> HIDE DEF Upto, g
  <2> QED
    BY <2>3, <2>4, <2>5
<1> HIDE DEF T
<1>3. n \in T
  <2> HIDE DEF n
  <2>1. \A k \in 0 .. n : k \in T /\ k < n => k + 1 \in T
    BY <1>2
  <2>2. n \in 0 .. n
    BY <1>0
  <2> QED
    BY <1>0, <1>1, <2>1, <2>2, Climb
<1>4. PICK f \in [1 .. n -> Seq(A)] : Upto(f, n)
  BY <1>3 DEF T
<1>5. f = [i \in 1 .. n |-> IF i = 1 THEN s[i] ELSE f[i - 1] \o s[i]]
  BY <1>4
<1> QED
  BY <1>5 DEF Joins

\* No item occurs twice in s, neither in one of its sequences nor in two.
Disjoint(s) ==
  \A i, k \in DOMAIN s : \A j \in DOMAIN s[i], l \in DOMAIN s[k] :
    s[i][j] = s[k][l] => i = k /\ j = l

\* FlattenSeq has exactly the items of the sequences; each once if they are
\* disjoint.
LEMMA Flattened ==
  ASSUME NEW A, NEW s \in Seq(Seq(A))
  PROVE  /\ FlattenSeq(s) \in Seq(A)
         /\ \A i \in DOMAIN s : \A j \in DOMAIN s[i] :
              \E x \in DOMAIN FlattenSeq(s) : FlattenSeq(s)[x] = s[i][j]
         /\ \A x \in DOMAIN FlattenSeq(s) :
              \E i \in DOMAIN s : \E j \in DOMAIN s[i] : FlattenSeq(s)[x] = s[i][j]
         /\ Disjoint(s) =>
              \A x, y \in DOMAIN FlattenSeq(s) : FlattenSeq(s)[x] = FlattenSeq(s)[y] => x = y
<1> DEFINE n == Len(s)
           f == CHOOSE g : Joins(g, s)
           Type(k) == f[k] \in Seq(A)
           All(k) == \A i \in 1 .. k : \A j \in DOMAIN s[i] :
                       \E x \in DOMAIN f[k] : f[k][x] = s[i][j]
           Only(k) == \A x \in DOMAIN f[k] :
                        \E i \in 1 .. k : \E j \in DOMAIN s[i] : f[k][x] = s[i][j]
           Once(k) == Disjoint(s) => \A x, y \in DOMAIN f[k] : f[k][x] = f[k][y] => x = y
           T == {k \in 0 .. n : k = 0 \/ (Type(k) /\ All(k) /\ Only(k) /\ Once(k))}
<1>0. n \in Nat /\ DOMAIN s = 1 .. n /\ \A i \in 1 .. n : s[i] \in Seq(A)
  OBVIOUS
<1>1. CASE n = 0
  <2>1. FlattenSeq(s) = <<>>
    BY <1>1 DEF FlattenSeq
  <2> QED
    BY <1>1, <2>1
<1>2. CASE n # 0
  <2>1. FlattenSeq(s) = f[n]
    BY <1>2 DEF FlattenSeq, Joins
  <2>2. Joins(f, s)
    BY Joinable
  <2> HIDE DEF f
  <2>3. \A i \in 1 .. n : f[i] = IF i = 1 THEN s[i] ELSE f[i - 1] \o s[i]
    BY <2>2 DEF Joins
  <2>4. ASSUME NEW k \in 0 .. n, k \in T, k < n
        PROVE  k + 1 \in T
    <3>1. k + 1 \in 1 .. n /\ k + 1 \in 0 .. n /\ s[k + 1] \in Seq(A)
      BY <2>4, <1>0
    <3>2. CASE k = 0
      <4>1. f[1] = s[1]
        BY <2>3, <3>1, <3>2
      <4>2. Type(1) /\ All(1) /\ Only(1)
        BY <3>1, <3>2, <4>1
      <4>3. Once(1)
        BY <1>0, <3>1, <3>2, <4>1 DEF Disjoint
      <4> HIDE DEF Type, All, Only, Once
      <4> QED
        BY <3>1, <3>2, <4>2, <4>3
    <3>3. CASE k # 0
      <4> DEFINE p == f[k]
                 q == s[k + 1]
                 r == f[k + 1]
      <4>1. r = p \o q
        <5>1. k + 1 # 1 /\ (k + 1) - 1 = k
          BY <3>3
        <5> QED
          BY <2>3, <3>1, <5>1
      <4>2. Type(k) /\ All(k) /\ Only(k) /\ Once(k)
        BY <2>4, <3>3
      <4>3. p \in Seq(A) /\ q \in Seq(A)
        BY <3>1, <4>2
      <4> HIDE DEF p, q, r
      <4>4. /\ r \in Seq(A) /\ Len(r) = Len(p) + Len(q)
            /\ \A x \in 1 .. Len(p) : r[x] = p[x]
            /\ \A x \in 1 .. Len(q) : r[Len(p) + x] = q[x]
            /\ DOMAIN p = 1 .. Len(p) /\ DOMAIN q = 1 .. Len(q) /\ DOMAIN r = 1 .. Len(r)
            /\ Len(p) \in Nat /\ Len(q) \in Nat
        BY <4>1, <4>3
      <4>5. \A x \in 1 .. Len(r) : x \in 1 .. Len(p) \/ \E y \in 1 .. Len(q) : x = Len(p) + y
        <5>1. ASSUME NEW x \in 1 .. Len(r), x \notin 1 .. Len(p)
              PROVE  x - Len(p) \in 1 .. Len(q) /\ x = Len(p) + (x - Len(p))
          BY <4>4, <5>1
        <5> QED
          BY <5>1
      <4>6. All(k + 1)
        <5>1. SUFFICES ASSUME NEW i \in 1 .. (k + 1), NEW j \in DOMAIN s[i]
                       PROVE  \E x \in DOMAIN r : r[x] = s[i][j]
          BY DEF r
        <5>2. CASE i = k + 1
          <6>1. j \in 1 .. Len(q) /\ s[i][j] = q[j]
            BY <4>4, <5>2 DEF q
          <6>2. Len(p) + j \in 1 .. Len(r) /\ r[Len(p) + j] = q[j]
            BY <4>4, <6>1
          <6> QED
            BY <4>4, <6>1, <6>2
        <5>3. CASE i # k + 1
          <6>1. i \in 1 .. k
            BY <5>3
          <6>2. PICK x \in 1 .. Len(p) : p[x] = s[i][j]
            <7>1. \E x \in DOMAIN p : p[x] = s[i][j]
              BY <4>2, <6>1 DEF p
            <7> QED
              BY <4>4, <7>1
          <6>3. x \in 1 .. Len(r) /\ r[x] = p[x]
            BY <4>4
          <6> QED
            BY <4>4, <6>2, <6>3
        <5> QED
          BY <5>2, <5>3
      <4>7. Only(k + 1)
        <5>1. SUFFICES ASSUME NEW x \in 1 .. Len(r)
                       PROVE  \E i \in 1 .. (k + 1) : \E j \in DOMAIN s[i] : r[x] = s[i][j]
          BY <4>4 DEF r
        <5>2. CASE x \in 1 .. Len(p)
          <6>1. PICK i \in 1 .. k : \E j \in DOMAIN s[i] : p[x] = s[i][j]
            BY <4>2, <4>4, <5>2 DEF p
          <6>2. i \in 1 .. (k + 1) /\ r[x] = p[x]
            BY <4>4, <5>2
          <6> QED
            BY <6>1, <6>2
        <5>3. ASSUME NEW y \in 1 .. Len(q), x = Len(p) + y
              PROVE  \E i \in 1 .. (k + 1) : \E j \in DOMAIN s[i] : r[x] = s[i][j]
          <6>1. k + 1 \in 1 .. (k + 1) /\ y \in DOMAIN s[k + 1] /\ r[x] = s[k + 1][y]
            BY <3>1, <4>4, <5>3 DEF q
          <6> QED
            BY <6>1
        <5> QED
          BY <4>5, <5>2, <5>3
      <4>8. Once(k + 1)
        <5>1. SUFFICES ASSUME Disjoint(s), NEW x \in 1 .. Len(r), NEW y \in 1 .. Len(r), r[x] = r[y]
                       PROVE  x = y
          BY <4>4 DEF r
        <5>2. \A a \in 1 .. Len(p), b \in 1 .. Len(q) : p[a] # q[b]
          <6>1. ASSUME NEW a \in 1 .. Len(p), NEW b \in 1 .. Len(q), p[a] = q[b]
                PROVE  FALSE
            <7>1. PICK i \in 1 .. k : \E j \in DOMAIN s[i] : p[a] = s[i][j]
              BY <4>2, <4>4 DEF p
            <7>2. PICK j \in DOMAIN s[i] : p[a] = s[i][j]
              BY <7>1
            <7>3. /\ i \in DOMAIN s /\ k + 1 \in DOMAIN s
                  /\ b \in DOMAIN s[k + 1] /\ q[b] = s[k + 1][b]
              BY <1>0, <3>1, <4>4 DEF q
            <7>4. s[i][j] = s[k + 1][b]
              BY <6>1, <7>2, <7>3
            <7>5. i = k + 1
              BY <5>1, <7>3, <7>4 DEF Disjoint
            <7> QED
              BY <7>5
          <6> QED
            BY <6>1
        <5>3. \A a, b \in 1 .. Len(p) : p[a] = p[b] => a = b
          BY <4>2, <4>4, <5>1 DEF p
        <5>4. \A a, b \in 1 .. Len(q) : q[a] = q[b] => a = b
          <6>1. ASSUME NEW a \in 1 .. Len(q), NEW b \in 1 .. Len(q), q[a] = q[b]
                PROVE  a = b
            <7>1. /\ k + 1 \in DOMAIN s /\ s[k + 1][a] = s[k + 1][b]
                  /\ a \in DOMAIN s[k + 1] /\ b \in DOMAIN s[k + 1]
              BY <1>0, <3>1, <4>4, <6>1 DEF q
            <7> QED
              BY <5>1, <7>1 DEF Disjoint
          <6> QED
            BY <6>1
        <5>5. CASE x \in 1 .. Len(p)
          <6>1. y \in 1 .. Len(p)
            BY <4>4, <4>5, <5>1, <5>2, <5>5
          <6> QED
            BY <4>4, <5>1, <5>3, <5>5, <6>1
        <5>6. CASE x \notin 1 .. Len(p)
          <6>1. PICK a \in 1 .. Len(q) : x = Len(p) + a
            BY <4>5, <5>6
          <6>2. y \notin 1 .. Len(p)
            BY <4>4, <5>1, <5>2, <6>1
          <6>3. PICK b \in 1 .. Len(q) : y = Len(p) + b
            BY <4>5, <6>2
          <6> QED
            BY <4>4, <5>1, <5>4, <6>1, <6>3
        <5> QED
          BY <5>5, <5>6
      <4>9. Type(k + 1)
        BY <4>4 DEF r
      <4> HIDE DEF Type, All, Only, Once
      <4> QED
        BY <3>1, <4>6, <4>7, <4>8, <4>9
    <3> QED
      BY <3>2, <3>3
  <2>5. 0 \in T
    BY <1>0
  <2>6. n \in T
    <3> HIDE DEF T, n
    <3>1. \A k \in 0 .. n : k \in T /\ k < n => k + 1 \in T
      BY <2>4
    <3>2. n \in 0 .. n
      BY <1>0
    <3> QED
      BY <1>0, <2>5, <3>1, <3>2, Climb
  <2>7. Type(n) /\ All(n) /\ Only(n) /\ Once(n)
    BY <1>2, <2>6
  <2> DEFINE h == f[n]
  <2>8. /\ h \in Seq(A)
        /\ \A i \in DOMAIN s : \A j \in DOMAIN s[i] : \E x \in DOMAIN h : h[x] = s[i][j]
        /\ \A x \in DOMAIN h : \E i \in DOMAIN s : \E j \in DOMAIN s[i] : h[x] = s[i][j]
        /\ Disjoint(s) => \A x, y \in DOMAIN h : h[x] = h[y] => x = y
    BY <1>0, <2>7
  <2> HIDE DEF h
  <2> QED
    BY <2>1, <2>8 DEF h
<1> QED
  BY <1>1, <1>2
-----------------------------------------------------------------------------
(* The functions of processData.                                           *)

\* What a row is made of.
Keys == {p.key : p \in Party}
Places == {p.at : p \in Party}
PartySet == [key : Keys, at : Places]
ParsedRow == [node : Nodes, key : Keys, at : Places]

\* No node is listed twice.
Unrepeated(ns) == \A i, k \in DOMAIN ns : ns[i] = ns[k] => i = k

\* Each party of a node has a key of its own.
DistinctKeys ==
  \A n \in Nodes : \A i, k \in DOMAIN Parties[n] : Parties[n][i].key = Parties[n][k].key => i = k

\* parseNodes makes a row of each party of each node, and of nothing else; if no
\* node is listed twice, it is the only row with that node and key.
LEMMA ParsedRows ==
  ASSUME NEW ns \in Seq(Nodes)
  PROVE  /\ ParseNodes(ns) \in Seq(ParsedRow)
         /\ \A i \in DOMAIN ns : \A j \in DOMAIN Parties[ns[i]] :
              \E x \in DOMAIN ParseNodes(ns) :
                ParseNodes(ns)[x] = ParseParty(ns[i], Parties[ns[i]][j])
         /\ \A x \in DOMAIN ParseNodes(ns) :
              \E i \in DOMAIN ns : \E j \in DOMAIN Parties[ns[i]] :
                ParseNodes(ns)[x] = ParseParty(ns[i], Parties[ns[i]][j])
         /\ Unrepeated(ns) /\ DistinctKeys =>
              \A x, y \in DOMAIN ParseNodes(ns) :
                /\ ParseNodes(ns)[x].node = ParseNodes(ns)[y].node
                /\ ParseNodes(ns)[x].key = ParseNodes(ns)[y].key
                => x = y
<1> DEFINE t == [i \in DOMAIN ns |->
                  [j \in DOMAIN Parties[ns[i]] |-> ParseParty(ns[i], Parties[ns[i]][j])]]
           f == FlattenSeq(t)
<1>0. DOMAIN ns = 1 .. Len(ns) /\ Len(ns) \in Nat /\ \A i \in DOMAIN ns : ns[i] \in Nodes
  OBVIOUS
<1>1. \A n \in Nodes : Parties[n] \in Seq(PartySet)
  BY TableAssumption DEF Keys, Places, PartySet
<1>2. ASSUME NEW i \in DOMAIN ns
      PROVE  /\ t[i] \in Seq(ParsedRow) /\ DOMAIN t[i] = DOMAIN Parties[ns[i]]
             /\ \A j \in DOMAIN t[i] : t[i][j] = ParseParty(ns[i], Parties[ns[i]][j])
  <2>1. ns[i] \in Nodes /\ Parties[ns[i]] \in Seq(PartySet)
    BY <1>0, <1>1
  <2> DEFINE q == Parties[ns[i]]
  <2>2. DOMAIN q = 1 .. Len(q) /\ Len(q) \in Nat /\ \A j \in 1 .. Len(q) : q[j] \in PartySet
    <3>1. q \in Seq(PartySet)
      BY <2>1
    <3> HIDE DEF q
    <3> QED
      BY <3>1
  <2>3. t[i] = [j \in 1 .. Len(q) |-> ParseParty(ns[i], q[j])]
    BY <2>2
  <2>4. \A j \in 1 .. Len(q) : ParseParty(ns[i], q[j]) \in ParsedRow
    BY <2>1, <2>2 DEF ParseParty, ParsedRow, PartySet
  <2> HIDE DEF q, t
  <2>5. t[i] \in Seq(ParsedRow) /\ DOMAIN t[i] = 1 .. Len(q)
    BY <2>2, <2>3, <2>4
  <2> QED
    BY <2>2, <2>3, <2>5 DEF q
<1>3. DOMAIN t = DOMAIN ns
  OBVIOUS
<1>4. t \in Seq(Seq(ParsedRow))
  <2>1. DOMAIN ns = 1 .. Len(ns) /\ Len(ns) \in Nat
    OBVIOUS
  <2>2. t = [i \in 1 .. Len(ns) |-> t[i]]
    BY <2>1
  <2> HIDE DEF t
  <2> QED
    BY <1>2, <2>1, <2>2
<1>5. ParseNodes(ns) = f
  BY DEF ParseNodes
<1> HIDE DEF t
<1>6. /\ f \in Seq(ParsedRow)
      /\ \A i \in DOMAIN t : \A j \in DOMAIN t[i] : \E x \in DOMAIN f : f[x] = t[i][j]
      /\ \A x \in DOMAIN f : \E i \in DOMAIN t : \E j \in DOMAIN t[i] : f[x] = t[i][j]
      /\ Disjoint(t) => \A x, y \in DOMAIN f : f[x] = f[y] => x = y
  BY <1>4, Flattened
<1> HIDE DEF f
<1>7. \A i \in DOMAIN ns : \A j \in DOMAIN Parties[ns[i]] :
        \E x \in DOMAIN f : f[x] = ParseParty(ns[i], Parties[ns[i]][j])
  BY <1>2, <1>3, <1>6
<1>8. \A x \in DOMAIN f : \E i \in DOMAIN ns : \E j \in DOMAIN Parties[ns[i]] :
        f[x] = ParseParty(ns[i], Parties[ns[i]][j])
  <2>1. SUFFICES ASSUME NEW x \in DOMAIN f
                 PROVE  \E i \in DOMAIN ns : \E j \in DOMAIN Parties[ns[i]] :
                          f[x] = ParseParty(ns[i], Parties[ns[i]][j])
    OBVIOUS
  <2>2. PICK i \in DOMAIN t : \E j \in DOMAIN t[i] : f[x] = t[i][j]
    BY <1>6
  <2>3. PICK j \in DOMAIN t[i] : f[x] = t[i][j]
    BY <2>2
  <2> QED
    BY <1>2, <1>3, <2>3
<1>9. ASSUME Unrepeated(ns), DistinctKeys
      PROVE  \A x, y \in DOMAIN f : f[x].node = f[y].node /\ f[x].key = f[y].key => x = y
  <2>1. ASSUME NEW i \in DOMAIN ns, NEW j \in DOMAIN Parties[ns[i]],
               NEW k \in DOMAIN ns, NEW l \in DOMAIN Parties[ns[k]],
               ns[i] = ns[k], Parties[ns[i]][j].key = Parties[ns[k]][l].key
        PROVE  i = k /\ j = l
    <3>1. ns[i] \in Nodes
      OBVIOUS
    <3>2. i = k
      BY <1>9, <2>1 DEF Unrepeated
    <3>3. j = l
      BY <1>9, <2>1, <3>1, <3>2 DEF DistinctKeys
    <3> QED
      BY <3>2, <3>3
  <2>2. Disjoint(t)
    <3>1. ASSUME NEW i \in DOMAIN t, NEW k \in DOMAIN t,
                 NEW j \in DOMAIN t[i], NEW l \in DOMAIN t[k], t[i][j] = t[k][l]
          PROVE  i = k /\ j = l
      <4>1. /\ i \in DOMAIN ns /\ k \in DOMAIN ns
            /\ j \in DOMAIN Parties[ns[i]] /\ l \in DOMAIN Parties[ns[k]]
            /\ t[i][j] = ParseParty(ns[i], Parties[ns[i]][j])
            /\ t[k][l] = ParseParty(ns[k], Parties[ns[k]][l])
        BY <1>2, <1>3
      <4>2. ns[i] = ns[k] /\ Parties[ns[i]][j].key = Parties[ns[k]][l].key
        <5>1. ParseParty(ns[i], Parties[ns[i]][j]) = ParseParty(ns[k], Parties[ns[k]][l])
          BY <3>1, <4>1
        <5>2. ParseParty(ns[i], Parties[ns[i]][j]).node = ns[i]
              /\ ParseParty(ns[i], Parties[ns[i]][j]).key = Parties[ns[i]][j].key
          BY DEF ParseParty
        <5>3. ParseParty(ns[k], Parties[ns[k]][l]).node = ns[k]
              /\ ParseParty(ns[k], Parties[ns[k]][l]).key = Parties[ns[k]][l].key
          BY DEF ParseParty
        <5> QED
          BY <5>1, <5>2, <5>3
      <4> QED
        BY <2>1, <4>1, <4>2
    <3> QED
      BY <3>1 DEF Disjoint
  <2>3. ASSUME NEW x \in DOMAIN f, NEW y \in DOMAIN f, f[x].node = f[y].node, f[x].key = f[y].key
        PROVE  x = y
    <3>1. PICK i \in DOMAIN ns : \E j \in DOMAIN Parties[ns[i]] :
                 f[x] = ParseParty(ns[i], Parties[ns[i]][j])
      BY <1>8
    <3>2. PICK j \in DOMAIN Parties[ns[i]] : f[x] = ParseParty(ns[i], Parties[ns[i]][j])
      BY <3>1
    <3>3. PICK k \in DOMAIN ns : \E l \in DOMAIN Parties[ns[k]] :
                 f[y] = ParseParty(ns[k], Parties[ns[k]][l])
      BY <1>8
    <3>4. PICK l \in DOMAIN Parties[ns[k]] : f[y] = ParseParty(ns[k], Parties[ns[k]][l])
      BY <3>3
    <3>5. ns[i] = ns[k] /\ Parties[ns[i]][j].key = Parties[ns[k]][l].key
      <4>1. /\ f[x].node = ns[i] /\ f[x].key = Parties[ns[i]][j].key
            /\ f[y].node = ns[k] /\ f[y].key = Parties[ns[k]][l].key
        BY <3>2, <3>4 DEF ParseParty
      <4> QED
        BY <2>3, <4>1
    <3>6. i = k /\ j = l
      BY <2>1, <3>5
    <3>7. f[x] = f[y]
      BY <3>2, <3>4, <3>6
    <3> QED
      BY <1>6, <2>2, <3>7
  <2> QED
    BY <2>3
<1> QED
  BY <1>5, <1>6, <1>7, <1>8, <1>9

\* getLocations lists the place of every row, each once.
LEMMA LocationsOfRows ==
  ASSUME NEW parsed \in Seq(ParsedRow)
  PROVE  /\ UniqueLocations(parsed) \in Seq(Places)
         /\ \A k, l \in DOMAIN UniqueLocations(parsed) :
              UniqueLocations(parsed)[k] = UniqueLocations(parsed)[l] => k = l
         /\ {UniqueLocations(parsed)[k] : k \in DOMAIN UniqueLocations(parsed)} =
              {parsed[i].at : i \in DOMAIN parsed}
<1> DEFINE m == Len(parsed)
           U == {i \in DOMAIN parsed : \A j \in 1 .. (i - 1) : parsed[j].at # parsed[i].at}
           c == Cardinality(U)
           s == Ascending(U)
           w == UniqueLocations(parsed)
<1>1. m \in Nat /\ DOMAIN parsed = 1 .. m /\ U \in SUBSET (1 .. m)
      /\ \A i \in 1 .. m : parsed[i].at \in Places
  <2>1. m \in Nat /\ DOMAIN parsed = 1 .. m /\ \A i \in 1 .. m : parsed[i] \in ParsedRow
    OBVIOUS
  <2>2. \A r \in ParsedRow : r.at \in Places
    BY DEF ParsedRow
  <2> QED
    BY <2>1, <2>2
<1>2. c \in Nat /\ s \in [1 .. c -> U] /\ Increasing(s) /\ \A x \in U : \E k \in 1 .. c : s[k] = x
  <2> HIDE DEF U, m
  <2> QED
    BY <1>1, AscendingLists
<1>3. w = [k \in 1 .. c |-> parsed[s[k]].at]
  BY <1>2 DEF UniqueLocations
<1> HIDE DEF w, s, c
<1>4. \A k \in 1 .. c : s[k] \in 1 .. m /\ s[k] \in U
  BY <1>1, <1>2
<1>5. w \in Seq(Places) /\ DOMAIN w = 1 .. c
  BY <1>1, <1>2, <1>3, <1>4
<1>6. ASSUME NEW k \in 1 .. c, NEW l \in 1 .. c, k < l
      PROVE  w[k] # w[l]
  <2>1. s[k] < s[l]
    BY <1>2, <1>6 DEF Increasing
  <2>2. s[k] \in 1 .. (s[l] - 1)
    BY <1>4, <2>1
  <2>3. parsed[s[k]].at # parsed[s[l]].at
    BY <1>4, <2>2
  <2> QED
    BY <1>3, <2>3
<1>7. \A k, l \in 1 .. c : w[k] = w[l] => k = l
  <2>1. \A k, l \in 1 .. c : k = l \/ k < l \/ l < k
    BY <1>2
  <2> QED
    BY <1>6, <2>1
<1>8. ASSUME NEW i \in 1 .. m
      PROVE  \E k \in 1 .. c : w[k] = parsed[i].at
  <2> DEFINE S == {j \in 1 .. m : parsed[j].at = parsed[i].at}
  <2>1. PICK x \in S : \A y \in S : x <= y
    <3>1. S \in SUBSET Nat /\ S # {}
      OBVIOUS
    <3> HIDE DEF S
    <3> QED
      BY <3>1, Least
  <2>2. x \in 1 .. m /\ parsed[x].at = parsed[i].at
    OBVIOUS
  <2>3. ASSUME NEW j \in 1 .. (x - 1)
        PROVE  parsed[j].at # parsed[x].at
    <3>1. j \in 1 .. m /\ ~(x <= j)
      BY <1>1, <2>2
    <3> QED
      BY <2>1, <2>2, <3>1
  <2>4. x \in U
    BY <1>1, <2>2, <2>3
  <2>5. PICK k \in 1 .. c : s[k] = x
    BY <1>2, <2>4
  <2>6. w[k] = parsed[x].at
    BY <1>3, <2>5
  <2> QED
    BY <2>2, <2>6
<1>9. {w[k] : k \in 1 .. c} = {parsed[i].at : i \in 1 .. m}
  <2>1. \A k \in 1 .. c : s[k] \in 1 .. m /\ w[k] = parsed[s[k]].at
    BY <1>3, <1>4
  <2>2. {w[k] : k \in 1 .. c} \subseteq {parsed[i].at : i \in 1 .. m}
    BY <2>1
  <2>3. {parsed[i].at : i \in 1 .. m} \subseteq {w[k] : k \in 1 .. c}
    BY <1>8
  <2> QED
    BY <2>2, <2>3
<1> QED
  BY <1>1, <1>5, <1>7, <1>9 DEF w

-----------------------------------------------------------------------------
(* The table.                                                              *)

\* What the console does to the table.
TableNext ==
  \/ LoadStep
  \/ \E column \in Columns : SortTable(column)
  \/ OpenDashboard \/ OpenBraid \/ BraidAnswer
  \/ PageReset
  \/ UNCHANGED tableVars

\* Every step of the console is a step of the table, or leaves it alone.
LEMMA ConsoleStepsTable == [ConsoleNext]_webVars => TableNext
<1> SUFFICES ASSUME [ConsoleNext]_webVars
             PROVE  TableNext
  OBVIOUS
<1>1. CASE Browse
  BY <1>1 DEF Browse, TableNext
<1>2. CASE Dialog
  BY <1>2 DEF Dialog, ClickIcon, ClickOutside, Dismiss, LogOut, ClickTrash, LogIn, ConfirmDelete,
              TableNext
<1>3. CASE Request
  BY <1>3 DEF Request, LoginAnswer, LoginFails, DeleteAnswer, DeleteFails, TableNext
<1>4. CASE Expire \/ Reload \/ UNCHANGED webVars
  BY <1>4 DEF Expire, Reload, webVars, TableNext
<1> QED
  BY <1>1, <1>2, <1>3, <1>4 DEF ConsoleNext

\* The answers of the service and of the geocoder: no node is listed twice, no
\* place is known before the lookups, and those known are the first of the list.
Answers ==
  /\ fetched \in Seq(Nodes) /\ Unrepeated(fetched)
  /\ load \in {"notaries", "nodes", "properties"} => lookups = 0 /\ DOMAIN places = {}
  /\ load = "places" =>
       lookups \in 0 .. Len(Wanted) /\ DOMAIN places = {Wanted[k] : k \in 1 .. lookups}

\* The list of places to look up.
LEMMA WantedPlaces ==
  ASSUME fetched \in Seq(Nodes)
  PROVE  /\ Wanted \in Seq(Places) /\ Len(Wanted) \in Nat
         /\ \A k, l \in 1 .. Len(Wanted) : Wanted[k] = Wanted[l] => k = l
         /\ {Wanted[k] : k \in 1 .. Len(Wanted)} = {Parsed[i].at : i \in DOMAIN Parsed}
<1>1. Parsed \in Seq(ParsedRow)
  BY ParsedRows DEF Parsed
<1> DEFINE w == UniqueLocations(Parsed)
<1>2. /\ w \in Seq(Places)
      /\ \A k, l \in DOMAIN w : w[k] = w[l] => k = l
      /\ {w[k] : k \in DOMAIN w} = {Parsed[i].at : i \in DOMAIN Parsed}
  <2> HIDE DEF Parsed
  <2> QED
    BY <1>1, LocationsOfRows
<1> HIDE DEF w
<1>3. DOMAIN w = 1 .. Len(w) /\ Len(w) \in Nat
  BY <1>2
<1>4. Wanted = w
  BY DEF Wanted, w
<1> QED
  BY <1>2, <1>3, <1>4

\* The first c places of the list are c places.
LEMMA FirstPlaces ==
  ASSUME fetched \in Seq(Nodes), NEW c \in 0 .. Len(Wanted)
  PROVE  Cardinality({Wanted[k] : k \in 1 .. c}) = c
<1> DEFINE D == {Wanted[k] : k \in 1 .. c}
           f == [k \in 1 .. c |-> Wanted[k]]
<1>1. c \in Nat /\ c <= Len(Wanted) /\ Len(Wanted) \in Nat
  BY WantedPlaces
<1>2. \A k, l \in 1 .. c : Wanted[k] = Wanted[l] => k = l
  BY <1>1, WantedPlaces
<1>3. f \in Bijection(1 .. c, D)
  BY <1>2 DEF Bijection, Injection, Surjection, IsInjective
<1>4. IsFiniteSet(1 .. c) /\ Cardinality(1 .. c) = c
  BY <1>1, FS_Interval
<1> HIDE DEF f, D
<1>5. Cardinality(D) = c
  BY <1>3, <1>4, FS_Bijection DEF ExistsBijection
<1> QED
  BY <1>5 DEF D

\* Answers holds first.
LEMMA AnswersInit == PageInit => Answers
  BY DEF PageInit, Answers, Unrepeated

\* Every step keeps it.
LEMMA AnswersNext == Answers /\ TableNext => Answers'
<1> SUFFICES ASSUME Answers, TableNext
             PROVE  Answers'
  OBVIOUS
<1>1. ASSUME UNCHANGED <<fetched, lookups, places>>,
             load' = load \/ (load = "notaries" /\ load' = "nodes") \/ load' \in {"failed", "done"}
      PROVE  Answers'
  <2>1. Wanted' = Wanted /\ Unrepeated(fetched)'
    BY <1>1 DEF Wanted, Parsed, Answers, Unrepeated
  <2> QED
    BY <1>1, <2>1 DEF Answers
<1>2. CASE GetNodes
  <2>1. PICK listed \in SUBSET Nodes : fetched' \in SetToSeqs(listed)
    BY <1>2 DEF GetNodes
  <2>2. Cardinality(listed) \in Nat
    BY TableAssumption, FS_Subset, FS_CardinalityType
  <2>3. /\ fetched' \in [1 .. Cardinality(listed) -> listed]
        /\ \A i, k \in 1 .. Cardinality(listed) : i # k => fetched'[i] # fetched'[k]
    BY <2>1 DEF SetToSeqs
  <2>4. fetched' \in Seq(Nodes) /\ DOMAIN fetched' = 1 .. Cardinality(listed)
    BY <2>2, <2>3
  <2>5. Unrepeated(fetched)'
    BY <2>3, <2>4 DEF Unrepeated
  <2> QED
    BY <1>2, <2>4, <2>5 DEF GetNodes, Answers
<1>3. CASE GetBuildProperties
  <2>1. /\ UNCHANGED <<fetched, lookups, places>>
        /\ load = "properties" /\ load' = "places"
    BY <1>3 DEF GetBuildProperties
  <2>2. lookups = 0 /\ DOMAIN places = {} /\ Unrepeated(fetched)'
    BY <2>1 DEF Answers, Unrepeated
  <2>3. Len(Wanted') \in Nat
    <3>1. Wanted' = Wanted
      BY <2>1 DEF Wanted, Parsed
    <3> QED
      BY <3>1, WantedPlaces DEF Answers
  <2>4. {Wanted'[k] : k \in 1 .. 0} = {} /\ 0 \in 0 .. Len(Wanted')
    BY <2>3
  <2> QED
    BY <2>1, <2>2, <2>4 DEF Answers
<1>4. CASE Lookup
  <2>1. /\ load = "places" /\ load' = load /\ fetched' = fetched
        /\ fetched \in Seq(Nodes) /\ Unrepeated(fetched)'
    BY <1>4 DEF Lookup, Answers, Unrepeated
  <2>2. Wanted' = Wanted
    BY <2>1 DEF Wanted, Parsed
  <2>3. lookups \in 0 .. Len(Wanted) /\ DOMAIN places = {Wanted[k] : k \in 1 .. lookups}
    BY <2>1 DEF Answers
  <2>4. lookups # Len(Wanted) /\ lookups' = lookups + 1
    BY <1>4 DEF Lookup, LookedUp
  <2>5. lookups + 1 \in 0 .. Len(Wanted) /\ lookups \in Nat
    BY <2>1, <2>3, <2>4, WantedPlaces
  <2>6. DOMAIN places' = DOMAIN places \cup {Wanted[lookups + 1]}
    BY <1>4 DEF Lookup
  <2>7. {Wanted[k] : k \in 1 .. lookups} \cup {Wanted[lookups + 1]} = {Wanted[k] : k \in 1 .. (lookups + 1)}
    <3>1. \A k : k \in 1 .. (lookups + 1) <=> k \in 1 .. lookups \/ k = lookups + 1
      BY <2>5
    <3> QED
      BY <3>1
  <2> QED
    BY <2>1, <2>2, <2>3, <2>4, <2>5, <2>6, <2>7 DEF Answers
<1>5. CASE PageReset
  BY <1>5 DEF PageReset, Answers, Unrepeated
<1>6. CASE GetNotaries \/ GetDataFails \/ Show
  <2>1. UNCHANGED <<fetched, lookups, places>>
    BY <1>6 DEF GetNotaries, GetDataFails, Show
  <2>2. load' = load \/ (load = "notaries" /\ load' = "nodes") \/ load' \in {"failed", "done"}
    BY <1>6 DEF GetNotaries, GetDataFails, Show
  <2> QED
    BY <1>1, <2>1, <2>2
<1>7. CASE OpenDashboard \/ OpenBraid \/ BraidAnswer \/ UNCHANGED tableVars
  <2>1. UNCHANGED <<fetched, lookups, places>>
    BY <1>7 DEF OpenDashboard, OpenBraid, BraidAnswer, tableVars
  <2>2. load' = load \/ (load = "notaries" /\ load' = "nodes") \/ load' \in {"failed", "done"}
    BY <1>7 DEF OpenDashboard, OpenBraid, BraidAnswer, tableVars
  <2> QED
    BY <1>1, <2>1, <2>2
<1>8. ASSUME NEW column \in Columns, SortTable(column)
      PROVE  Answers'
  <2>1. UNCHANGED <<fetched, lookups, places>>
    BY <1>8 DEF SortTable
  <2>2. load' = load \/ (load = "notaries" /\ load' = "nodes") \/ load' \in {"failed", "done"}
    BY <1>8 DEF SortTable
  <2> QED
    BY <1>1, <2>1, <2>2
<1> QED
  BY <1>2, <1>3, <1>4, <1>5, <1>6, <1>7, <1>8 DEF TableNext, LoadStep

\* Answers is an invariant.
THEOREM AnswersInvariant == ConsoleSpec => []Answers
<1>1. ConsoleInit => Answers
  BY AnswersInit DEF ConsoleInit
<1>2. Answers /\ [ConsoleNext]_webVars => Answers'
  BY AnswersNext, ConsoleStepsTable
<1> QED
  BY <1>1, <1>2, PTL DEF ConsoleSpec

\* Whatever nodes the service has answered, every request to the geocoder is for a
\* place it has not been asked for, and geoCodeNodes finds the place of every row in
\* the map.
THEOREM RowsHavePlaces == ConsoleSpec => []PlacesKnown
<1>1. Answers => PlacesKnown
  <2>1. SUFFICES ASSUME Answers, load = "places"
                 PROVE  /\ lookups = Cardinality(DOMAIN places)
                        /\ LookedUp => DOMAIN places = {Parsed[i].at : i \in DOMAIN Parsed}
    BY DEF PlacesKnown
  <2>2. /\ fetched \in Seq(Nodes)
        /\ lookups \in 0 .. Len(Wanted) /\ DOMAIN places = {Wanted[k] : k \in 1 .. lookups}
    BY <2>1 DEF Answers
  <2>3. lookups = Cardinality(DOMAIN places)
    BY <2>2, FirstPlaces
  <2> QED
    BY <2>2, <2>3, WantedPlaces DEF LookedUp
<1> QED
  BY <1>1, AnswersInvariant, PTL

\* What the table shows of one party, and of all parties of the nodes fetched.
ShownParty(n, p) ==
  [node |-> n, key |-> p.key, located |-> places[p.at] = "point", N |-> p.key \in Notaries]
Shown == UNION {{ShownParty(n, p) : p \in ToSet(Parties[n])} : n \in ToSet(fetched)}

\* The table after a load: the parties shown, in some order, each once.
Table ==
  IF load = "done" THEN /\ rows \in Seq(Shown) /\ Len(rows) = Cardinality(Shown)
                        /\ \A r \in Shown : \E x \in DOMAIN rows : rows[x] = r
                   ELSE rows = <<>>

\* Reversing a sequence keeps its items and their number.
LEMMA ReverseKeeps ==
  ASSUME NEW A, NEW s \in Seq(A)
  PROVE  /\ Reverse(s) \in Seq(A) /\ Len(Reverse(s)) = Len(s)
         /\ \A x \in DOMAIN s : \E y \in DOMAIN Reverse(s) : Reverse(s)[y] = s[x]
<1> DEFINE n == Len(s)
           r == Reverse(s)
<1>1. n \in Nat /\ DOMAIN s = 1 .. n /\ \A x \in 1 .. n : s[x] \in A
  OBVIOUS
<1>2. r = [x \in 1 .. n |-> s[(n - x) + 1]]
  BY DEF Reverse
<1> HIDE DEF r, n
<1>3. \A x \in 1 .. n : (n - x) + 1 \in 1 .. n /\ (n - ((n - x) + 1)) + 1 = x
  BY <1>1
<1>4. r \in Seq(A) /\ Len(r) = n /\ DOMAIN r = 1 .. n
  BY <1>1, <1>2, <1>3
<1>5. \A x \in 1 .. n : r[(n - x) + 1] = s[x]
  BY <1>2, <1>3
<1> QED
  BY <1>1, <1>3, <1>4, <1>5 DEF n, r

\* The rows that are completed when the last place has been looked up are the
\* parties to be shown, each once.
LEMMA CompleteRows ==
  ASSUME DistinctKeys, fetched \in Seq(Nodes), Unrepeated(fetched)
  PROVE  /\ Complete(Parsed) \in Seq(Shown) /\ Len(Complete(Parsed)) = Cardinality(Shown)
         /\ \A r \in Shown : \E x \in DOMAIN Complete(Parsed) : Complete(Parsed)[x] = r
<1> DEFINE p == Parsed
           c == Complete(p)
           n == Len(p)
<1>1. /\ p \in Seq(ParsedRow)
      /\ \A i \in DOMAIN fetched : \A j \in DOMAIN Parties[fetched[i]] :
           \E x \in DOMAIN p : p[x] = ParseParty(fetched[i], Parties[fetched[i]][j])
      /\ \A x \in DOMAIN p : \E i \in DOMAIN fetched : \E j \in DOMAIN Parties[fetched[i]] :
           p[x] = ParseParty(fetched[i], Parties[fetched[i]][j])
      /\ \A x, y \in DOMAIN p : p[x].node = p[y].node /\ p[x].key = p[y].key => x = y
  BY ParsedRows DEF Parsed
<1> HIDE DEF p
<1>2. n \in Nat /\ DOMAIN p = 1 .. n
  BY <1>1
<1>3. c = [x \in 1 .. n |->
             [node |-> p[x].node, key |-> p[x].key,
              located |-> places[p[x].at] = "point", N |-> p[x].key \in Notaries]]
  BY <1>2 DEF Complete
<1> HIDE DEF c, n
<1>4. ASSUME NEW x \in 1 .. n, NEW i \in DOMAIN fetched, NEW j \in DOMAIN Parties[fetched[i]],
             p[x] = ParseParty(fetched[i], Parties[fetched[i]][j])
      PROVE  c[x] = ShownParty(fetched[i], Parties[fetched[i]][j])
  <2>1. /\ p[x].node = fetched[i] /\ p[x].key = Parties[fetched[i]][j].key
        /\ p[x].at = Parties[fetched[i]][j].at
    BY <1>4 DEF ParseParty
  <2>2. c[x] = [node |-> p[x].node, key |-> p[x].key,
                located |-> places[p[x].at] = "point", N |-> p[x].key \in Notaries]
    BY <1>3
  <2> QED
    BY <2>1, <2>2 DEF ShownParty
<1>5. ASSUME NEW i \in DOMAIN fetched, NEW j \in DOMAIN Parties[fetched[i]]
      PROVE  ShownParty(fetched[i], Parties[fetched[i]][j]) \in Shown
  BY DEF Shown, ToSet
<1>6. ASSUME NEW x \in 1 .. n
      PROVE  c[x] \in Shown
  <2>1. PICK i \in DOMAIN fetched : \E j \in DOMAIN Parties[fetched[i]] :
               p[x] = ParseParty(fetched[i], Parties[fetched[i]][j])
    BY <1>1, <1>2
  <2>2. PICK j \in DOMAIN Parties[fetched[i]] :
               p[x] = ParseParty(fetched[i], Parties[fetched[i]][j])
    BY <2>1
  <2>3. c[x] = ShownParty(fetched[i], Parties[fetched[i]][j])
    BY <1>4, <2>2
  <2> QED
    BY <1>5, <2>3
<1>7. ASSUME NEW r \in Shown
      PROVE  \E x \in 1 .. n : c[x] = r
  <2>1. PICK i \in DOMAIN fetched : \E j \in DOMAIN Parties[fetched[i]] :
               r = ShownParty(fetched[i], Parties[fetched[i]][j])
    BY DEF Shown, ToSet
  <2>2. PICK j \in DOMAIN Parties[fetched[i]] : r = ShownParty(fetched[i], Parties[fetched[i]][j])
    BY <2>1
  <2>3. PICK x \in 1 .. n : p[x] = ParseParty(fetched[i], Parties[fetched[i]][j])
    BY <1>1, <1>2
  <2> QED
    BY <1>4, <2>2, <2>3
<1>8. c \in Seq(Shown) /\ Len(c) = n /\ DOMAIN c = 1 .. n
  <2>1. c = [x \in 1 .. n |-> c[x]]
    BY <1>3
  <2> QED
    BY <1>2, <1>6, <2>1
<1>9. n = Cardinality(Shown)
  <2>1. ASSUME NEW x \in 1 .. n, NEW y \in 1 .. n, c[x] = c[y]
        PROVE  x = y
    <3>1. /\ c[x].node = p[x].node /\ c[x].key = p[x].key
          /\ c[y].node = p[y].node /\ c[y].key = p[y].key
      BY <1>3
    <3> QED
      BY <1>1, <1>2, <2>1, <3>1
  <2>2. c \in [1 .. n -> Shown]
    BY <1>3, <1>6
  <2>3. c \in Bijection(1 .. n, Shown)
    BY <1>7, <2>1, <2>2 DEF Bijection, Injection, Surjection, IsInjective
  <2>4. IsFiniteSet(1 .. n) /\ Cardinality(1 .. n) = n
    BY <1>2, FS_Interval
  <2> QED
    BY <2>3, <2>4, FS_Bijection DEF ExistsBijection
<1> QED
  BY <1>7, <1>8, <1>9 DEF c, p

\* Sorting the table keeps it.
LEMMA SortKeeps ==
  ASSUME NEW column, NEW s \in Seq(Shown), Len(s) = Cardinality(Shown),
         \A r \in Shown : \E x \in DOMAIN s : s[x] = r
  PROVE  LET t == SortNodes(column, s)
         IN  /\ t \in Seq(Shown) /\ Len(t) = Cardinality(Shown)
             /\ \A r \in Shown : \E x \in DOMAIN t : t[x] = r
<1>1. /\ Reverse(s) \in Seq(Shown) /\ Len(Reverse(s)) = Len(s)
      /\ \A x \in DOMAIN s : \E y \in DOMAIN Reverse(s) : Reverse(s)[y] = s[x]
  BY ReverseKeeps
<1>2. CASE column = sortCiteria
  <2>1. SortNodes(column, s) = Reverse(s)
    BY <1>2 DEF SortNodes
  <2>2. \A r \in Shown : \E y \in DOMAIN Reverse(s) : Reverse(s)[y] = r
    BY <1>1
  <2> QED
    BY <1>1, <2>1, <2>2
<1>3. CASE column # sortCiteria
  BY <1>3 DEF SortNodes
<1> QED
  BY <1>2, <1>3

\* Every step keeps the table: a load shows all or nothing, a click on a column
\* reorders the rows.
LEMMA TableNextStep ==
  ASSUME DistinctKeys, Answers, Table, TableNext
  PROVE  Table'
<1>1. ASSUME UNCHANGED <<fetched, places, rows>>, load' = "done" <=> load = "done"
      PROVE  Table'
  <2>1. Shown' = Shown
    BY <1>1 DEF Shown, ShownParty
  <2> QED
    BY <1>1, <2>1 DEF Table
<1>2. ASSUME load # "done", load' # "done", rows' = rows
      PROVE  Table'
  BY <1>2 DEF Table
<1>3. CASE Show
  <2>1. /\ load' = "done" /\ fetched' = fetched /\ places' = places
        /\ rows' = SortNodes(FirstColumn, Complete(Parsed))
    BY <1>3 DEF Show
  <2>2. Shown' = Shown
    BY <2>1 DEF Shown, ShownParty
  <2>3. /\ Complete(Parsed) \in Seq(Shown) /\ Len(Complete(Parsed)) = Cardinality(Shown)
        /\ \A r \in Shown : \E x \in DOMAIN Complete(Parsed) : Complete(Parsed)[x] = r
    BY CompleteRows DEF Answers
  <2>4. /\ rows' \in Seq(Shown) /\ Len(rows') = Cardinality(Shown)
        /\ \A r \in Shown : \E x \in DOMAIN rows' : rows'[x] = r
    BY <2>1, <2>3, SortKeeps
  <2> QED
    BY <2>1, <2>2, <2>4 DEF Table
<1>4. ASSUME NEW column \in Columns, SortTable(column)
      PROVE  Table'
  <2>1. load' = load /\ fetched' = fetched /\ places' = places /\ rows' = SortNodes(column, rows)
    BY <1>4 DEF SortTable
  <2>2. Shown' = Shown
    BY <2>1 DEF Shown, ShownParty
  <2>3. CASE load = "done"
    <3>1. /\ rows' \in Seq(Shown) /\ Len(rows') = Cardinality(Shown)
          /\ \A r \in Shown : \E x \in DOMAIN rows' : rows'[x] = r
      BY <2>1, <2>3, SortKeeps DEF Table
    <3> QED
      BY <2>1, <2>2, <2>3, <3>1 DEF Table
  <2>4. CASE load # "done"
    <3>1. rows = <<>> /\ Reverse(<<>>) = <<>>
      BY <2>4 DEF Table, Reverse
    <3> QED
      BY <2>1, <2>4, <3>1 DEF Table, SortNodes
  <2> QED
    BY <2>3, <2>4
<1>5. CASE PageReset
  BY <1>5 DEF PageReset, Table
<1>6. CASE GetNotaries \/ GetNodes \/ GetBuildProperties \/ Lookup \/ GetDataFails
  BY <1>2, <1>6 DEF GetNotaries, GetNodes, GetBuildProperties, Lookup, GetDataFails
<1>7. CASE OpenDashboard \/ OpenBraid \/ BraidAnswer \/ UNCHANGED tableVars
  BY <1>1, <1>7 DEF OpenDashboard, OpenBraid, BraidAnswer, tableVars
<1> QED
  BY <1>3, <1>4, <1>5, <1>6, <1>7 DEF TableNext, LoadStep

\* The table shows all parties of the nodes of one answer, each once, or it is
\* empty, whatever nodes come and go, requests fail and columns are clicked, if
\* each party of a node has a key of its own.
THEOREM ShowsAllOrNothing == DistinctKeys => (ConsoleSpec => []AllOrNothing)
<1> SUFFICES ASSUME DistinctKeys
             PROVE  ConsoleSpec => []AllOrNothing
  OBVIOUS
<1>1. ConsoleInit => Table
  BY DEF ConsoleInit, PageInit, Table
<1>2. Answers /\ Table /\ [ConsoleNext]_webVars => Table'
  BY TableNextStep, ConsoleStepsTable
<1>3. Table => AllOrNothing
  <2>1. CASE load # "done"
    BY <2>1 DEF Table, AllOrNothing
  <2>2. ASSUME Table, load = "done"
        PROVE  AllOrNothing
    <3>1. /\ rows \in Seq(Shown) /\ Len(rows) = Cardinality(Shown)
          /\ \A r \in Shown : \E x \in DOMAIN rows : rows[x] = r
      BY <2>2 DEF Table
    <3>2. \A x \in DOMAIN rows : rows[x] \in Shown
      BY <3>1
    <3>3. ToSet(rows) = Shown
      BY <3>1, <3>2 DEF ToSet
    <3> QED
      BY <2>2, <3>1, <3>3 DEF AllOrNothing, Shown, ShownParty
  <2> QED
    BY <2>1, <2>2
<1> QED
  BY <1>1, <1>2, <1>3, AnswersInvariant, PTL DEF ConsoleSpec
=============================================================================
