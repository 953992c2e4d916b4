------------------------ MODULE Certificates_proofs ------------------------
(***************************************************************************)
(* Proofs about Certificates: types, for any number of instances, either   *)
(* storage, crashes and faults; and, for one instance in the careful       *)
(* environment of MCCertificates, that its certificates form a chain, are  *)
(* those in the storage, and keep validating the nodes it has let in.      *)
(***************************************************************************)
EXTENDS MCCertificates, TLAPS

Entries == Cert \cup {Torn}

\* The labels an instance goes through.
Labels == {"down", "getting", "opening", "writing", "finding-network-map",
           "clearing-network-map", "finding-doorman", "clearing-doorman", "up", "failed"}

Clearing == {"finding-network-map", "clearing-network-map", "finding-doorman", "clearing-doorman"}

-----------------------------------------------------------------------------
(* Sequences of revisions.                                                 *)

\* The newest revision and the oldest are revisions, and a deletion leaves revisions.
LEMMA RevisionsLeft ==
  ASSUME NEW S, NEW s \in Seq(S), s # <<>>
  PROVE  Tail(s) \in Seq(S) /\ Head(s) \in S /\ Last(s) \in S
  BY DEF Last

\* What a sequence of at most one revision looks like, and what a deletion leaves of it.
LEMMA OneRevision ==
  ASSUME NEW S, NEW s \in Seq(S), Len(s) <= 1, s # <<>>
  PROVE  Tail(s) = <<>>
  OBVIOUS

\* The newest revision is one of them.
LEMMA NewestIsRevision ==
  ASSUME NEW S, NEW s \in Seq(S), s # <<>>
  PROVE  \E n \in DOMAIN s : Last(s) = s[n]
  BY DEF Last

\* A property of all revisions is kept by a new revision that has it.
LEMMA RevisionAdded ==
  ASSUME NEW S, NEW s \in Seq(S), NEW x \in S, NEW n \in DOMAIN Append(s, x)
  PROVE  Append(s, x)[n] = x \/ (n \in DOMAIN s /\ Append(s, x)[n] = s[n])
  OBVIOUS

\* A property of all revisions is kept when the oldest is deleted.
LEMMA RevisionRemoved ==
  ASSUME NEW S, NEW s \in Seq(S), s # <<>>, NEW n \in DOMAIN Tail(s)
  PROVE  n + 1 \in DOMAIN s /\ Tail(s)[n] = s[n + 1]
  OBVIOUS

-----------------------------------------------------------------------------
(* Types.                                                                  *)

\* One file per key, and only files are torn.
HeldOK ==
  /\ storageType \in {"FILE", "MONGO"}
  /\ held \in [Slots -> Seq(Entries)]
  /\ \A k \in Slots :
       IF storageType = "FILE" THEN Len(held[k]) <= 1
       ELSE \A n \in DOMAIN held[k] : held[k][n] # Torn

Chains == [issuer : Nat, doorman : Cert, root : Cert]

\* The remaining types.
MemoryOK ==
  /\ made \in Nat /\ crashes \in Nat /\ faults \in Nat
  /\ pc \in [Instances -> Labels]
  /\ slot \in [Instances -> Slots]
  /\ cert \in [Instances -> [Slots -> Cert \cup {None}]]
  /\ found \in [Instances -> Cert \cup {None, Torn}]
  /\ csr \in [Requests -> {"idle", "posted", "signed", "refused", "retrieved", "lost"}]
  /\ owner \in [Requests -> Instances] /\ leaf \in [Requests -> Nat]
  /\ issued \subseteq Chains

LEMMA TypeParts == TypeOK <=> HeldOK /\ MemoryOK
  BY DEF TypeOK, HeldOK, MemoryOK, Entries, Chains, Labels

\* An instance holds in memory the certificates of the slots it has passed, and only
\* one that serves has signing requests.
Loaded ==
  /\ \A i \in Instances :
       /\ pc[i] \in Clearing => slot[i] = "root"
       /\ pc[i] = "up" => slot[i] = "doorman" /\ cert[i]["doorman"] \in Cert
       /\ pc[i] # "down" /\ slot[i] # "root" => cert[i]["root"] \in Cert
       /\ pc[i] # "down" /\ slot[i] = "doorman" => cert[i]["network-map"] \in Cert
       /\ pc[i] \in {"opening", "writing"} \cup Clearing => cert[i][slot[i]] \in Cert
  /\ \A c \in Requests : csr[c] \in {"posted", "signed"} => pc[owner[c]] = "up"

LEMMA InitHeld == Init => HeldOK
<1> SUFFICES ASSUME Init PROVE HeldOK
  OBVIOUS
<1>1. storageType \in {"FILE", "MONGO"}
  BY CertificatesAssumption DEF Init
<1>2. [serial |-> 2, issuer |-> 1] \in Cert /\ [serial |-> 3, issuer |-> 1] \in Cert
  BY DEF Cert
<1>3. \A e \in Cert : e # Torn
  BY CertificatesAssumption DEF Cert
<1>4. CASE held = [k \in Slots |-> <<>>]
  BY <1>1, <1>4 DEF HeldOK
<1>5. CASE held = [k \in Slots |->
             IF k = "root" THEN <<>>
             ELSE <<[serial |-> IF k = "network-map" THEN 2 ELSE 3, issuer |-> 1]>>]
  <2>1. ASSUME NEW k \in Slots
        PROVE  held[k] = <<>> \/ \E e \in Cert : held[k] = <<e>>
    BY <1>2, <1>5
  <2>2. ASSUME NEW k \in Slots
        PROVE  /\ held[k] \in Seq(Entries) /\ Len(held[k]) <= 1
               /\ \A n \in DOMAIN held[k] : held[k][n] # Torn
    <3>1. CASE held[k] = <<>>
      BY <3>1
    <3>2. CASE \E e \in Cert : held[k] = <<e>>
      BY <3>2, <1>3 DEF Entries
    <3>3. QED
      BY <2>1, <3>1, <3>2
  <2>3. QED
    BY <2>2, <1>1, <1>5 DEF HeldOK
<1>6. QED
  BY <1>4, <1>5 DEF Init

LEMMA InitMemory == Init => MemoryOK /\ Loaded
  BY DEF Init, MemoryOK, Loaded, Clearing, Slots, Labels

LEMMA StoredIsCert ==
  ASSUME HeldOK, NEW k \in Slots, Stored(k)
  PROVE  Last(held[k]) \in Cert
<1>1. held[k] \in Seq(Entries) /\ held[k] # <<>> /\ Last(held[k]) # Torn
  BY DEF HeldOK, Stored
<1>2. Last(held[k]) \in Entries
  BY <1>1, RevisionsLeft
<1>3. QED
  BY <1>1, <1>2 DEF Entries

\* The steps that change the storage.
LEMMA StorageSteps ==
  Next => \/ UNCHANGED storage
          \/ \E i \in Instances : Open(i) \/ Write(i) \/ ClearOld(i)
  BY DEF Next, InitStep, Start, Get, Missing, Make, FindOld, Crash, GetFault, PutFault, ClearFault,
    PostCSR, Sign, Refuse, Retrieve, storage

\* The revisions of one certificate change.
LEMMA HeldChanged ==
  ASSUME HeldOK, storageType' = storageType,
         NEW k \in Slots, NEW s \in Seq(Entries), held' = [held EXCEPT ![k] = s],
         storageType = "FILE" => Len(s) <= 1,
         storageType = "MONGO" => \A n \in DOMAIN s : s[n] # Torn
  PROVE  HeldOK'
<1>1. held' \in [Slots -> Seq(Entries)]
  BY DEF HeldOK
<1>2. ASSUME NEW q \in Slots PROVE held'[q] = IF q = k THEN s ELSE held[q]
  BY DEF HeldOK
<1>3. QED
  BY <1>1, <1>2 DEF HeldOK

LEMMA NextHeld == HeldOK /\ MemoryOK /\ Loaded /\ [Next]_vars => HeldOK'
<1> SUFFICES ASSUME HeldOK, MemoryOK, Loaded, [Next]_vars PROVE HeldOK'
  OBVIOUS
<1>0. \A e \in Cert : e # Torn
  BY CertificatesAssumption DEF Cert
<1>1. CASE UNCHANGED storage
  BY <1>1 DEF storage, HeldOK
<1>2. ASSUME NEW i \in Instances, Open(i) PROVE HeldOK'
  <2>0. slot[i] \in Slots /\ Torn \in Entries
    BY DEF MemoryOK, Entries
  <2>1. <<Torn>> \in Seq(Entries) /\ Len(<<Torn>>) <= 1
    BY <2>0
  <2>2. CASE storageType = "FILE"
    BY <1>2, <2>0, <2>1, <2>2, HeldChanged DEF Open
  <2>3. CASE storageType # "FILE"
    BY <1>2, <2>3 DEF Open, HeldOK
  <2>4. QED
    BY <2>2, <2>3
<1>3. ASSUME NEW i \in Instances, Write(i) PROVE HeldOK'
  <2> DEFINE c == cert[i][slot[i]]
             k == slot[i]
             s == IF storageType = "MONGO" THEN Append(held[k], c)
                  ELSE IF held[k] = <<>> THEN <<>> ELSE <<c>>
  <2>1. k \in Slots /\ c \in Cert /\ c \in Entries /\ held[k] \in Seq(Entries)
    BY <1>3 DEF MemoryOK, Write, Loaded, Entries, HeldOK
  <2>2. s \in Seq(Entries) /\ (storageType = "FILE" => Len(s) <= 1)
    BY <2>1
  <2>3. ASSUME storageType = "MONGO", NEW n \in DOMAIN s PROVE s[n] # Torn
    <3>1. s[n] = c \/ (n \in DOMAIN held[k] /\ s[n] = held[k][n])
      BY <2>1, <2>3, RevisionAdded
    <3>2. QED
      BY <3>1, <1>0, <2>1, <2>3 DEF HeldOK
  <2>4. held' = [held EXCEPT ![k] = s] /\ storageType' = storageType
    BY <1>3, <2>1 DEF Write, HeldOK
  <2> HIDE DEF s, k
  <2>5. QED
    BY <2>1, <2>2, <2>3, <2>4, HeldChanged
<1>4. ASSUME NEW i \in Instances, ClearOld(i) PROVE HeldOK'
  <2> DEFINE k == Victim(i)
             s == Tail(held[k])
  <2>1. k \in Slots /\ held[k] \in Seq(Entries)
    BY DEF HeldOK, Victim, Slots
  <2>2. storageType' = storageType /\ (held' = held \/ (held[k] # <<>> /\ held' = [held EXCEPT ![k] = s]))
    BY <1>4, <2>1 DEF ClearOld, HeldOK
  <2>3. CASE held[k] # <<>> /\ held' = [held EXCEPT ![k] = s]
    <3>1. s \in Seq(Entries) /\ Len(s) <= Len(held[k]) /\ Len(held[k]) \in Nat /\ Len(s) \in Nat
      BY <2>1, <2>3
    <3>2. ASSUME NEW n \in DOMAIN s
          PROVE  \E o \in DOMAIN held[k] : s[n] = held[k][o]
      BY <2>1, <2>3, RevisionRemoved
    <3>3. storageType = "FILE" => Len(s) <= 1
      BY <3>1, <2>1 DEF HeldOK
    <3>4. storageType = "MONGO" => \A n \in DOMAIN s : s[n] # Torn
      BY <3>2, <2>1 DEF HeldOK
    <3> HIDE DEF s, k
    <3>5. QED
      BY <3>1, <3>3, <3>4, <2>1, <2>2, <2>3, HeldChanged
  <2>4. CASE held' = held
    BY <2>2, <2>4 DEF HeldOK
  <2>5. QED
    BY <2>2, <2>3, <2>4
<1>5. QED
  BY <1>1, <1>2, <1>3, <1>4, StorageSteps DEF vars, storage

\* One certificate after the other, then the service is up.
LEMMA EnsuredGoesOn ==
  ASSUME MemoryOK, NEW i \in Instances, Ensured(i)
  PROVE  /\ pc' \in [Instances -> Labels] /\ slot' \in [Instances -> Slots]
         /\ \A j \in Instances : j # i => pc'[j] = pc[j] /\ slot'[j] = slot[j]
         /\ slot[i] = "doorman" => pc'[i] = "up" /\ slot'[i] = "doorman"
         /\ slot[i] # "doorman" =>
              /\ pc'[i] = "getting"
              /\ slot'[i] = IF slot[i] = "root" THEN "network-map" ELSE "doorman"
  BY DEF MemoryOK, Ensured, Go, Labels, Slots

\* The deletions that follow a new root.
LEMMA ClearedGoesOn ==
  ASSUME MemoryOK, Loaded, NEW i \in Instances, pc[i] \in Clearing, Cleared(i)
  PROVE  /\ pc' \in [Instances -> Labels] /\ slot' \in [Instances -> Slots]
         /\ \A j \in Instances : j # i => pc'[j] = pc[j] /\ slot'[j] = slot[j]
         /\ Victim(i) = "network-map" => pc'[i] = "finding-doorman" /\ slot'[i] = "root"
         /\ Victim(i) # "network-map" => pc'[i] = "getting" /\ slot'[i] = "network-map"
<1>1. slot[i] = "root"
  BY DEF Loaded
<1>2. CASE Victim(i) = "network-map"
  BY <1>1, <1>2 DEF Cleared, MemoryOK, Go, Labels
<1>3. CASE Victim(i) # "network-map"
  BY <1>1, <1>3, EnsuredGoesOn DEF Cleared
<1>4. QED
  BY <1>2, <1>3

\* Making a certificate leaves its maker with it in memory.
LEMMA MakeMemory ==
  ASSUME HeldOK, MemoryOK, Loaded, NEW i \in Instances, pc[i] = "getting", Make(i), faults' \in Nat
  PROVE  MemoryOK' /\ Loaded'
<1> DEFINE c == [serial |-> made + 1,
                 issuer |-> IF slot[i] = "root" THEN made + 1 ELSE cert[i]["root"].serial]
<1>1. slot[i] \in Slots /\ (slot[i] # "root" => cert[i]["root"] \in Cert)
  BY DEF MemoryOK, Loaded
<1>2. c \in Cert
  BY <1>1 DEF Cert, MemoryOK
<1>3. /\ made' = made + 1 /\ cert' = [cert EXCEPT ![i][slot[i]] = c] /\ pc' = [pc EXCEPT ![i] = "opening"]
      /\ UNCHANGED <<storage, slot, found, doormanVars, crashes>>
  BY DEF Make, Go, storage, doormanVars
<1> HIDE DEF c
<1>4. MemoryOK'
  BY <1>1, <1>2, <1>3 DEF MemoryOK, doormanVars, storage, Labels
<1>5. /\ \A j \in Instances : j # i => cert'[j] = cert[j] /\ pc'[j] = pc[j]
      /\ pc'[i] = "opening" /\ slot' = slot /\ csr' = csr /\ owner' = owner
      /\ cert'[i][slot[i]] = c
      /\ \A k \in Slots : k # slot[i] => cert'[i][k] = cert[i][k]
  BY <1>1, <1>3 DEF MemoryOK, doormanVars, storage
<1>6. \A q \in Requests : csr[q] \in {"posted", "signed"} => owner[q] \in Instances /\ owner[q] # i
  BY DEF MemoryOK, Loaded
<1>7. QED
  BY <1>1, <1>2, <1>4, <1>5, <1>6 DEF Loaded, Clearing, Slots, MemoryOK

LEMMA NextMemory == HeldOK /\ MemoryOK /\ Loaded /\ [Next]_vars => MemoryOK' /\ Loaded'
<1> SUFFICES ASSUME HeldOK, MemoryOK, Loaded, [Next]_vars PROVE MemoryOK' /\ Loaded'
  OBVIOUS
<1> USE DEF Slots, Clearing, Labels, storage, managerVars, doormanVars, Go
<1>0. \A q \in Requests : owner[q] \in Instances
  BY DEF MemoryOK
<1> crashes \in Nat /\ faults \in Nat
  BY DEF MemoryOK
<1>1. ASSUME NEW i \in Instances, Start(i) PROVE MemoryOK' /\ Loaded'
  BY <1>0, <1>1 DEF Start, MemoryOK, Loaded
<1>2. ASSUME NEW i \in Instances, Get(i) PROVE MemoryOK' /\ Loaded'
  <2>1. slot[i] \in Slots /\ Last(held[slot[i]]) \in Cert
    BY <1>2, StoredIsCert DEF Get, MemoryOK
  <2>2. QED
    BY <1>0, <1>2, <2>1, EnsuredGoesOn DEF Get, MemoryOK, Loaded
<1>3. ASSUME NEW i \in Instances, Missing(i) PROVE MemoryOK' /\ Loaded'
  BY <1>3, MakeMemory DEF Missing, MemoryOK
<1>4. ASSUME NEW i \in Instances, Open(i) PROVE MemoryOK' /\ Loaded'
  BY <1>0, <1>4 DEF Open, MemoryOK, Loaded
<1>5. ASSUME NEW i \in Instances, Write(i) PROVE MemoryOK' /\ Loaded'
  <2>1. CASE slot[i] = "root"
    BY <1>0, <1>5, <2>1 DEF Write, MemoryOK, Loaded
  <2>2. CASE slot[i] # "root"
    BY <1>0, <1>5, <2>2, EnsuredGoesOn DEF Write, MemoryOK, Loaded
  <2>3. QED
    BY <2>1, <2>2
<1>6. ASSUME NEW i \in Instances, FindOld(i) PROVE MemoryOK' /\ Loaded'
  <2>1. held[Victim(i)] # <<>> => Head(held[Victim(i)]) \in Cert \cup {Torn}
    BY RevisionsLeft DEF HeldOK, Victim, Entries
  <2>2. QED
    <3>1. pc[i] \in Clearing
      BY <1>6 DEF FindOld
    <3>2. CASE held[Victim(i)] = <<>>
      BY <1>0, <1>6, <3>1, <3>2, ClearedGoesOn DEF FindOld, MemoryOK, Loaded
    <3>3. CASE held[Victim(i)] # <<>>
      <4>1. /\ found' = [found EXCEPT ![i] = Head(held[Victim(i)])]
            /\ \E l \in Clearing : pc' = [pc EXCEPT ![i] = l]
            /\ UNCHANGED <<made, slot, cert, csr, owner, leaf, issued, crashes, faults>>
        BY <1>6, <3>3 DEF FindOld
      <4>2. slot[i] = "root" /\ cert[i]["root"] \in Cert
        BY <3>1 DEF Loaded
      <4>3. MemoryOK'
        BY <2>1, <3>3, <4>1 DEF MemoryOK
      <4>4. QED
        BY <1>0, <3>1, <4>1, <4>2, <4>3 DEF MemoryOK, Loaded
    <3>4. QED
      BY <3>2, <3>3
<1>7. ASSUME NEW i \in Instances, ClearOld(i) PROVE MemoryOK' /\ Loaded'
  <2>1. pc[i] \in Clearing /\ Cleared(i)
    BY <1>7 DEF ClearOld
  <2>2. QED
    <3>1. /\ pc' \in [Instances -> Labels] /\ slot' \in [Instances -> Slots]
          /\ \A j \in Instances : j # i => pc'[j] = pc[j] /\ slot'[j] = slot[j]
          /\ \/ pc'[i] = "finding-doorman" /\ slot'[i] = "root"
             \/ pc'[i] = "getting" /\ slot'[i] = "network-map"
      BY <2>1, ClearedGoesOn
    <3>2. UNCHANGED <<made, cert, found, csr, owner, leaf, issued, crashes, faults>>
      BY <1>7 DEF ClearOld
    <3>3. slot[i] = "root" /\ cert[i]["root"] \in Cert
      BY <2>1 DEF Loaded
    <3>4. MemoryOK'
      BY <3>1, <3>2 DEF MemoryOK
    <3>5. QED
      BY <1>0, <2>1, <3>1, <3>2, <3>3, <3>4 DEF Loaded
<1>8. ASSUME NEW i \in Instances, Crash(i) PROVE MemoryOK' /\ Loaded'
  <2>1. cert' \in [Instances -> [Slots -> Cert \cup {None}]]
    BY <1>8 DEF Crash, MemoryOK
  <2>2. csr' \in [Requests -> {"idle", "posted", "signed", "refused", "retrieved", "lost"}]
    BY <1>8 DEF Crash, MemoryOK
  <2>3. crashes' \in Nat
    BY <1>8 DEF Crash, MemoryOK
  <2>4. MemoryOK'
    BY <1>8, <2>1, <2>2, <2>3 DEF Crash, MemoryOK
  <2>5. /\ pc'[i] = "down" /\ slot' = slot /\ owner' = owner
        /\ \A j \in Instances : j # i => pc'[j] = pc[j] /\ cert'[j] = cert[j]
        /\ \A q \in Requests : csr'[q] \in {"posted", "signed"} => owner[q] # i /\ csr[q] = csr'[q]
    BY <1>8 DEF Crash, MemoryOK
  <2>6. QED
    BY <1>0, <2>4, <2>5 DEF Loaded
<1>9. ASSUME NEW i \in Instances, GetFault(i) PROVE MemoryOK' /\ Loaded'
  <2>1. faults' \in Nat
    BY <1>9 DEF GetFault, Fault, MemoryOK
  <2>2. QED
    BY <1>9, <2>1, MakeMemory DEF GetFault
<1>10. ASSUME NEW i \in Instances, PutFault(i) PROVE MemoryOK' /\ Loaded'
  <2>1. /\ UNCHANGED <<made, slot, cert, found, csr, owner, leaf, issued, crashes>> /\ faults' = faults + 1
        /\ pc[i] \in {"opening", "writing"}
        /\ \/ pc' = [pc EXCEPT ![i] = "finding-doorman"] /\ slot[i] = "root"
           \/ pc' = [pc EXCEPT ![i] = "failed"]
    BY <1>10 DEF PutFault, Fault
  <2>2. MemoryOK'
    BY <2>1 DEF MemoryOK
  <2>3. QED
    BY <1>0, <2>1, <2>2 DEF MemoryOK, Loaded
<1>11. ASSUME NEW i \in Instances, ClearFault(i) PROVE MemoryOK' /\ Loaded'
  <2>1. pc[i] \in Clearing /\ Cleared(i) /\ faults' = faults + 1
    BY <1>11 DEF ClearFault, Fault
  <2>2. QED
    BY <1>0, <1>11, <2>1, ClearedGoesOn DEF ClearFault, MemoryOK, Loaded
<1>12. ASSUME NEW i \in Instances, NEW c \in Requests, PostCSR(i, c) PROVE MemoryOK' /\ Loaded'
  BY <1>0, <1>12 DEF PostCSR, MemoryOK, Loaded
<1>13. ASSUME NEW c \in Requests, Sign(c) PROVE MemoryOK' /\ Loaded'
  <2>1. cert[owner[c]]["doorman"].serial \in Nat
    BY <1>0, <1>13 DEF Sign, Loaded, Cert
  <2>2. QED
    BY <1>0, <1>13, <2>1 DEF Sign, MemoryOK, Loaded
<1>14. ASSUME NEW c \in Requests, Refuse(c) PROVE MemoryOK' /\ Loaded'
  BY <1>0, <1>14 DEF Refuse, MemoryOK, Loaded
<1>15. ASSUME NEW c \in Requests, Retrieve(c) PROVE MemoryOK' /\ Loaded'
  <2>1. /\ cert[owner[c]]["doorman"] \in Cert /\ cert[owner[c]]["root"] \in Cert
        /\ leaf[c] \in Nat
    BY <1>0, <1>15 DEF Retrieve, Loaded, MemoryOK
  <2> DEFINE chain == [issuer |-> leaf[c], doorman |-> cert[owner[c]]["doorman"],
                       root |-> cert[owner[c]]["root"]]
  <2>2. chain \in Chains
    BY <2>1 DEF Chains
  <2>3. issued' = issued \cup {chain}
    BY <1>15 DEF Retrieve
  <2>4. issued' \subseteq Chains
    BY <2>2, <2>3 DEF MemoryOK
  <2>5. QED
    BY <1>0, <1>15, <2>4 DEF Retrieve, MemoryOK, Loaded
<1>16. CASE UNCHANGED vars
  BY <1>16 DEF vars, MemoryOK, Loaded
<1>17. QED
  BY <1>1, <1>2, <1>3, <1>4, <1>5, <1>6, <1>7, <1>8, <1>9, <1>10, <1>11, <1>12, <1>13, <1>14,
     <1>15, <1>16 DEF Next, InitStep

\* Every reachable state is well typed: a directory holds one file per certificate,
\* only files are torn, and what the doorman answers are certificates.
THEOREM CertificatesTypeCorrect == Spec => []TypeOK
<1>1. Init => HeldOK /\ MemoryOK /\ Loaded
  BY InitHeld, InitMemory
<1>2. HeldOK /\ MemoryOK /\ Loaded /\ [Next]_vars => (HeldOK /\ MemoryOK /\ Loaded)'
  BY NextHeld, NextMemory
<1>3. HeldOK /\ MemoryOK => TypeOK
  BY TypeParts
<1>4. QED
  BY <1>1, <1>2, <1>3, PTL DEF Spec

-----------------------------------------------------------------------------
(* One instance in the careful environment.                                *)

\* What a root signs.
Signed == {"network-map", "doorman"}

\* The root a restart would find.
Root == Last(held["root"])

\* All revisions of a certificate are signed by that root.
SignedByRoot(k) == \A n \in DOMAIN held[k] : held[k][n] # Torn => held[k][n].issuer = Root.serial

\* The instance has made a root and not finished with what the old one had signed.
Renewing(i) == slot[i] = "root" /\ pc[i] \in {"opening", "writing"} \cup Clearing

\* The storage holds nothing another root has signed, except before the deletions
\* that follow a new root have passed it; one deletion is enough, because there is
\* only one revision of what a root that is gone has signed.
StorageFits(i) ==
  /\ Stored("root") /\ pc[i] \notin Clearing => \A k \in Signed : SignedByRoot(k)
  /\ ~Stored("root") \/ Renewing(i) => \A k \in Signed : Len(held[k]) <= 1
  /\ pc[i] \in {"finding-doorman", "clearing-doorman"} => held["network-map"] = <<>>
  /\ pc[i] \in {"clearing-network-map", "clearing-doorman"} =>
       held[Victim(i)] # <<>> /\ found[i] = Head(held[Victim(i)])
  /\ pc[i] = "writing" /\ storageType = "FILE" => held[slot[i]] # <<>>

\* The certificates in memory are those in the storage.
MemoryFits(i) ==
  /\ pc[i] # "down" /\ (slot[i] # "root" \/ pc[i] \in Clearing) => Stored("root") /\ cert[i]["root"] = Root
  /\ pc[i] # "down" /\ slot[i] = "doorman" =>
       Stored("network-map") /\ cert[i]["network-map"] = Last(held["network-map"])
  /\ pc[i] = "up" => Stored("doorman") /\ cert[i]["doorman"] = Last(held["doorman"])
  /\ pc[i] \in {"opening", "writing"} /\ slot[i] # "root" => cert[i][slot[i]].issuer = Root.serial

\* Nodes have been let in by the doorman of the root there is, which is never renewed
\* any more.
IssuedFits(i) ==
  /\ issued # {} => Stored("root") /\ ~Renewing(i) /\ \A k \in Signed : held[k] # <<>>
  /\ \A chain \in issued :
       /\ chain.issuer = chain.doorman.serial
       /\ chain.doorman.issuer = chain.root.serial
       /\ chain.root = Root
  /\ \A c \in Requests : csr[c] = "signed" => leaf[c] = cert[i]["doorman"].serial

Fits(i) == StorageFits(i) /\ MemoryFits(i) /\ IssuedFits(i)

Typed == HeldOK /\ MemoryOK /\ Loaded

\* What happens in the careful environment happens.
LEMMA CarefulIsNext == CarefulNext => Next
  BY DEF CarefulNext, Next

LEMMA NextTyped == Typed /\ [CarefulNext]_vars => Typed'
<1>1. [CarefulNext]_vars => [Next]_vars
  BY CarefulIsNext
<1>2. QED
  BY <1>1, NextHeld, NextMemory DEF Typed

\* A revision is stored unless it is torn, and it is the newest then.
LEMMA NewestStored ==
  ASSUME NEW c \in Cert, NEW k \in Slots, HeldOK,
         held'[k] = <<c>> \/ held'[k] = Append(held[k], c)
  PROVE  Stored(k)' /\ Last(held'[k]) = c /\ held'[k] # <<>>
<1>1. c # Torn /\ c \in Entries /\ held[k] \in Seq(Entries)
  BY CertificatesAssumption DEF Cert, Entries, HeldOK
<1>2. <<c>> # <<>> /\ Last(<<c>>) = c
  BY DEF Last
<1>3. Append(held[k], c) # <<>> /\ Last(Append(held[k], c)) = c
  BY <1>1 DEF Last
<1>4. QED
  BY <1>1, <1>2, <1>3 DEF Stored

LEMMA InitFits == ASSUME NEW i, Instances = {i}, Init PROVE Fits(i)
<1> USE DEF Slots, Signed, Clearing
<1>1. held["root"] = <<>> /\ \A k \in Signed : Len(held[k]) <= 1
  <2>1. CASE held = [k \in Slots |-> <<>>]
    BY <2>1
  <2>2. CASE held = [k \in Slots |->
               IF k = "root" THEN <<>>
               ELSE <<[serial |-> IF k = "network-map" THEN 2 ELSE 3, issuer |-> 1]>>]
    <3>1. held["root"] = <<>>
      BY <2>2
    <3>2. ASSUME NEW k \in Signed PROVE Len(held[k]) <= 1
      <4>1. PICK e : held[k] = <<e>>
        BY <2>2
      <4>2. QED
        BY <4>1
    <3>3. QED
      BY <3>1, <3>2
  <2>3. QED
    BY <2>1, <2>2 DEF Init
<1>2. pc[i] = "down" /\ issued = {} /\ \A c \in Requests : csr[c] = "idle"
  BY DEF Init
<1>3. QED
  BY <1>1, <1>2 DEF Fits, StorageFits, MemoryFits, IssuedFits, Stored, Renewing

\* Getting a certificate from the storage.
LEMMA GetFits ==
  ASSUME NEW i, Instances = {i}, Typed, Fits(i), Get(i)
  PROVE  Fits(i)'
<1> USE DEF Slots, Signed, Clearing, Typed
<1>1. /\ i \in Instances /\ slot[i] \in Slots /\ pc[i] = "getting" /\ Stored(slot[i])
      /\ UNCHANGED <<storageType, held, issued, csr, leaf>>
      /\ cert'[i][slot[i]] = Last(held[slot[i]])
      /\ \A k \in Slots : k # slot[i] => cert'[i][k] = cert[i][k]
  BY DEF Get, MemoryOK, storage, doormanVars
<1>2. /\ slot[i] = "doorman" => pc'[i] = "up" /\ slot'[i] = "doorman"
      /\ slot[i] # "doorman" =>
           pc'[i] = "getting" /\ slot'[i] = IF slot[i] = "root" THEN "network-map" ELSE "doorman"
  BY <1>1, EnsuredGoesOn DEF Get
<1>3. \A c \in Requests : csr[c] # "signed"
  BY <1>1 DEF Loaded, MemoryOK
<1>4. UNCHANGED <<Root, Stored("root"), Stored("network-map"), Stored("doorman")>>
      /\ \A k \in Signed : SignedByRoot(k)' <=> SignedByRoot(k)
  BY <1>1 DEF Root, Stored, SignedByRoot
<1>5. StorageFits(i)'
  BY <1>1, <1>2, <1>4 DEF Fits, StorageFits, Renewing
<1>6. MemoryFits(i)'
  BY <1>1, <1>2, <1>4 DEF Fits, MemoryFits, Root
<1>7. IssuedFits(i)'
  BY <1>1, <1>2, <1>3, <1>4 DEF Fits, IssuedFits, Renewing
<1>8. QED
  BY <1>5, <1>6, <1>7 DEF Fits

\* Making a certificate, because there is none or the storage did not answer.
LEMMA MakeFits ==
  ASSUME NEW i, Instances = {i}, Typed, Fits(i), Make(i), pc[i] = "getting",
         slot[i] = "root" /\ Stored("root") => \A k \in Signed : held[k] = <<>>
  PROVE  Fits(i)'
<1> USE DEF Slots, Signed, Clearing, Typed
<1> DEFINE c == [serial |-> made + 1,
                 issuer |-> IF slot[i] = "root" THEN made + 1 ELSE cert[i]["root"].serial]
<1>1. /\ i \in Instances /\ slot[i] \in Slots
      /\ UNCHANGED <<storageType, held, slot, issued, csr, leaf>>
      /\ pc'[i] = "opening" /\ cert'[i][slot[i]] = c
      /\ \A k \in Slots : k # slot[i] => cert'[i][k] = cert[i][k]
  BY DEF Make, Go, MemoryOK, storage, doormanVars
<1>2. c.issuer = IF slot[i] = "root" THEN made + 1 ELSE cert[i]["root"].serial
  OBVIOUS
<1> HIDE DEF c
<1>3. \A q \in Requests : csr[q] # "signed"
  BY <1>1 DEF Loaded, MemoryOK
<1>4. UNCHANGED <<Root, Stored("root"), Stored("network-map"), Stored("doorman")>>
      /\ \A k \in Signed : SignedByRoot(k)' <=> SignedByRoot(k)
  BY <1>1 DEF Root, Stored, SignedByRoot
<1>5. StorageFits(i)'
  BY <1>1, <1>4 DEF Fits, StorageFits, Renewing
<1>6. MemoryFits(i)'
  BY <1>1, <1>2, <1>4 DEF Fits, MemoryFits, Root
<1>7. IssuedFits(i)'
  BY <1>1, <1>3, <1>4 DEF Fits, IssuedFits, Renewing
<1>8. QED
  BY <1>5, <1>6, <1>7 DEF Fits

\* Truncating a file.
LEMMA OpenFits ==
  ASSUME NEW i, Instances = {i}, Typed, Fits(i), Open(i)
  PROVE  Fits(i)'
<1> USE DEF Slots, Signed, Clearing, Typed
<1>1. /\ i \in Instances /\ slot[i] \in Slots /\ pc[i] = "opening" /\ pc'[i] = "writing"
      /\ UNCHANGED <<storageType, slot, cert, issued, csr, leaf>>
      /\ \A k \in Slots : held'[k] = IF storageType = "FILE" /\ k = slot[i] THEN <<Torn>> ELSE held[k]
  BY DEF Open, Go, MemoryOK, HeldOK, doormanVars
<1>2. <<Torn>> # <<>> /\ Len(<<Torn>>) = 1 /\ \A n \in DOMAIN <<Torn>> : <<Torn>>[n] = Torn
  OBVIOUS
<1>3. Last(<<Torn>>) = Torn
  BY DEF Last
<1>4. \A q \in Requests : csr[q] # "signed"
  BY <1>1 DEF Loaded, MemoryOK
<1>5. CASE slot[i] = "root"
  <2>1. issued = {} /\ Renewing(i)
    BY <1>1, <1>5 DEF Fits, IssuedFits, Renewing
  <2>2. StorageFits(i)'
    <3>1. storageType # "FILE" =>
            UNCHANGED <<Stored("root"), SignedByRoot("network-map"), SignedByRoot("doorman")>>
      BY <1>1 DEF Stored, SignedByRoot, Root
    <3>2. storageType = "FILE" => ~Stored("root")'
      BY <1>1, <1>3, <1>5 DEF Stored
    <3>3. QED
      BY <1>1, <1>2, <1>5, <2>1, <3>1, <3>2 DEF Fits, StorageFits
  <2>3. MemoryFits(i)'
    BY <1>1, <1>5 DEF MemoryFits
  <2>4. IssuedFits(i)'
    BY <1>1, <1>4, <2>1 DEF IssuedFits
  <2>5. QED
    BY <2>2, <2>3, <2>4 DEF Fits
<1>6. CASE slot[i] # "root"
  <2>1. UNCHANGED <<Root, Stored("root")>> /\ Stored("root")
        /\ (slot[i] = "doorman" => UNCHANGED <<Stored("network-map"), held["network-map"]>>)
    BY <1>1, <1>6 DEF Root, Stored, Fits, MemoryFits
  <2>2. \A k \in Signed : SignedByRoot(k)'
    BY <1>1, <1>2, <2>1 DEF SignedByRoot, Fits, StorageFits
  <2>3. StorageFits(i)'
    BY <1>1, <1>2, <1>6, <2>1, <2>2 DEF StorageFits, Renewing
  <2>4. MemoryFits(i)'
    BY <1>1, <1>6, <2>1 DEF Fits, MemoryFits
  <2>5. IssuedFits(i)'
    BY <1>1, <1>2, <1>4, <1>6, <2>1 DEF Fits, IssuedFits, Renewing
  <2>6. QED
    BY <2>3, <2>4, <2>5 DEF Fits
<1>7. QED
  BY <1>5, <1>6

\* Storing a certificate.
LEMMA WriteFits ==
  ASSUME NEW i, Instances = {i}, Typed, Fits(i), Write(i)
  PROVE  Fits(i)'
<1> USE DEF Slots, Signed, Clearing, Typed
<1> DEFINE c == cert[i][slot[i]]
<1>1. /\ i \in Instances /\ slot[i] \in Slots /\ pc[i] = "writing" /\ c \in Cert
      /\ UNCHANGED <<storageType, cert, issued, csr, leaf>>
      /\ \A k \in Slots : k # slot[i] => held'[k] = held[k]
  BY DEF Write, MemoryOK, HeldOK, doormanVars, Loaded
<1>2. held'[slot[i]] = <<c>> \/ held'[slot[i]] = Append(held[slot[i]], c)
  BY <1>1 DEF Write, HeldOK, Fits, StorageFits
<1>3. ASSUME NEW k \in Slots, slot[i] = k
      PROVE  Stored(k)' /\ Last(held'[k]) = c /\ held'[k] # <<>>
  BY <1>1, <1>2, <1>3, NewestStored
<1>4. \A q \in Requests : csr[q] # "signed"
  BY <1>1 DEF Loaded, MemoryOK
<1>5. CASE slot[i] = "root"
  <2>1. pc'[i] = "finding-network-map" /\ slot' = slot
    BY <1>1, <1>5 DEF Write, Go, MemoryOK
  <2>2. issued = {} /\ Renewing(i)
    BY <1>1, <1>5 DEF Fits, IssuedFits, Renewing
  <2>3. Stored("root")' /\ Root' = cert'[i]["root"]
    BY <1>1, <1>3, <1>5 DEF Root, Stored
  <2>4. StorageFits(i)'
    BY <1>1, <1>5, <2>1, <2>2, <2>3 DEF Fits, StorageFits
  <2>5. MemoryFits(i)'
    BY <1>1, <1>5, <2>1, <2>3 DEF MemoryFits
  <2>6. IssuedFits(i)'
    BY <1>1, <1>4, <2>2 DEF IssuedFits
  <2>7. QED
    BY <2>4, <2>5, <2>6 DEF Fits
<1>6. CASE slot[i] # "root"
  <2>1. /\ slot[i] = "doorman" => pc'[i] = "up" /\ slot'[i] = "doorman"
        /\ slot[i] # "doorman" => pc'[i] = "getting" /\ slot'[i] = "doorman"
    BY <1>1, <1>6, EnsuredGoesOn DEF Write
  <2>2. UNCHANGED <<Root, Stored("root")>> /\ Stored("root") /\ c.issuer = Root.serial
        /\ cert[i]["root"] = Root
    BY <1>1, <1>6 DEF Root, Stored, Fits, MemoryFits
  <2>3. ASSUME NEW k \in Signed PROVE SignedByRoot(k)'
    <3>1. held[k] \in Seq(Entries) /\ SignedByRoot(k) /\ c \in Entries
      BY <1>1, <2>2 DEF HeldOK, Fits, StorageFits, Entries
    <3>2. CASE k # slot[i]
      BY <1>1, <2>2, <3>1, <3>2 DEF SignedByRoot
    <3>3. CASE held'[k] = <<c>>
      BY <2>2, <3>3 DEF SignedByRoot
    <3>4. CASE held'[k] = Append(held[k], c)
      <4>1. ASSUME NEW n \in DOMAIN held'[k], held'[k][n] # Torn
            PROVE  held'[k][n].issuer = Root.serial
        <5>1. held'[k][n] = c \/ (n \in DOMAIN held[k] /\ held'[k][n] = held[k][n])
          BY <3>1, <3>4, RevisionAdded
        <5>2. QED
          BY <2>2, <3>1, <4>1, <5>1 DEF SignedByRoot
      <4>2. QED
        BY <2>2, <4>1 DEF SignedByRoot
    <3>5. QED
      BY <1>2, <3>2, <3>3, <3>4
  <2>4. StorageFits(i)'
    BY <1>1, <1>6, <2>1, <2>2, <2>3 DEF StorageFits, Renewing
  <2>5. MemoryFits(i)'
    <3>1. CASE slot[i] = "network-map"
      BY <1>1, <1>3, <2>1, <2>2, <3>1 DEF MemoryFits, Stored
    <3>2. CASE slot[i] = "doorman"
      <4>1. Stored("network-map")' /\ cert'[i]["network-map"] = Last(held'["network-map"])
        BY <1>1, <3>2 DEF Fits, MemoryFits, Stored
      <4>2. QED
        BY <1>1, <1>3, <2>1, <2>2, <3>2, <4>1 DEF MemoryFits, Stored
    <3>3. QED
      BY <1>1, <1>6, <3>1, <3>2
  <2>6. IssuedFits(i)'
    BY <1>1, <1>3, <1>4, <1>6, <2>1, <2>2 DEF Fits, IssuedFits, Renewing
  <2>7. QED
    BY <2>4, <2>5, <2>6 DEF Fits
<1>7. QED
  BY <1>5, <1>6

\* Looking for what the old root has signed.
LEMMA FindFits ==
  ASSUME NEW i, Instances = {i}, Typed, Fits(i), FindOld(i)
  PROVE  Fits(i)'
<1> USE DEF Slots, Signed, Clearing, Typed
<1>1. /\ i \in Instances /\ pc[i] \in {"finding-network-map", "finding-doorman"} /\ slot[i] = "root"
      /\ UNCHANGED <<storageType, held, cert, issued, csr, leaf>>
  BY DEF FindOld, Loaded, storage, doormanVars
<1>2. \A q \in Requests : csr[q] # "signed"
  BY <1>1 DEF Loaded, MemoryOK
<1>3. UNCHANGED <<Root, Stored("root")>> /\ issued = {} /\ Stored("root") /\ cert[i]["root"] = Root
      /\ \A k \in Signed : Len(held[k]) <= 1
  BY <1>1 DEF Root, Stored, Fits, IssuedFits, MemoryFits, StorageFits, Renewing
<1>4. CASE held[Victim(i)] = <<>>
  <2>1. /\ Victim(i) = "network-map" => pc'[i] = "finding-doorman" /\ slot'[i] = "root"
        /\ Victim(i) # "network-map" => pc'[i] = "getting" /\ slot'[i] = "network-map"
    BY <1>1, <1>4, ClearedGoesOn DEF FindOld
  <2>2. Victim(i) # "network-map" => \A k \in Signed : held[k] = <<>>
    BY <1>1, <1>4 DEF Fits, StorageFits, Victim
  <2>3. StorageFits(i)'
    BY <1>1, <1>3, <1>4, <2>1, <2>2 DEF StorageFits, Renewing, SignedByRoot
  <2>4. MemoryFits(i)' /\ IssuedFits(i)'
    BY <1>1, <1>2, <1>3, <2>1 DEF MemoryFits, IssuedFits
  <2>5. QED
    BY <2>3, <2>4 DEF Fits
<1>5. CASE held[Victim(i)] # <<>>
  <2>1. /\ pc'[i] = IF Victim(i) = "network-map" THEN "clearing-network-map" ELSE "clearing-doorman"
        /\ slot'[i] = "root" /\ found'[i] = Head(held[Victim(i)])
    BY <1>1, <1>5 DEF FindOld, Go, MemoryOK
  <2>2. Victim(i)' = Victim(i)
    BY <1>1, <2>1 DEF Victim
  <2>3. StorageFits(i)'
    BY <1>1, <1>3, <1>5, <2>1, <2>2 DEF Fits, StorageFits, Renewing, Victim
  <2>4. MemoryFits(i)' /\ IssuedFits(i)'
    BY <1>1, <1>2, <1>3, <2>1 DEF MemoryFits, IssuedFits
  <2>5. QED
    BY <2>3, <2>4 DEF Fits
<1>6. QED
  BY <1>4, <1>5

\* Deleting it.
LEMMA ClearFits ==
  ASSUME NEW i, Instances = {i}, Typed, Fits(i), ClearOld(i)
  PROVE  Fits(i)'
<1> USE DEF Slots, Signed, Clearing, Typed
<1>1. /\ i \in Instances /\ pc[i] \in {"clearing-network-map", "clearing-doorman"} /\ slot[i] = "root"
      /\ UNCHANGED <<storageType, cert, issued, csr, leaf>>
      /\ Victim(i) \in Signed /\ held[Victim(i)] # <<>> /\ found[i] = Head(held[Victim(i)])
  BY DEF ClearOld, Loaded, storage, doormanVars, Victim, Fits, StorageFits
<1>2. \A q \in Requests : csr[q] # "signed"
  BY <1>1 DEF Loaded, MemoryOK
<1>3. \A k \in Signed : held[k] \in Seq(Entries) /\ Len(held[k]) <= 1
  BY <1>1 DEF HeldOK, Fits, StorageFits, Renewing
<1>4. /\ held'[Victim(i)] = <<>>
      /\ \A k \in Slots : k # Victim(i) => held'[k] = held[k]
  <2>1. Tail(held[Victim(i)]) = <<>>
    BY <1>1, <1>3, OneRevision
  <2>2. held' = [held EXCEPT ![Victim(i)] = Tail(held[Victim(i)])]
    BY <1>1 DEF ClearOld, HeldOK
  <2>3. QED
    BY <1>1, <2>1, <2>2 DEF HeldOK
<1>5. UNCHANGED <<Root, Stored("root")>> /\ issued = {} /\ Stored("root") /\ cert[i]["root"] = Root
  BY <1>1, <1>4 DEF Root, Stored, Fits, IssuedFits, MemoryFits, Renewing
<1>6. /\ Victim(i) = "network-map" => pc'[i] = "finding-doorman" /\ slot'[i] = "root"
      /\ Victim(i) # "network-map" => pc'[i] = "getting" /\ slot'[i] = "network-map"
  BY <1>1, ClearedGoesOn DEF ClearOld
<1>7. Victim(i) # "network-map" => \A k \in Signed : held'[k] = <<>>
  BY <1>1, <1>4 DEF Fits, StorageFits, Victim
<1>8. StorageFits(i)'
  BY <1>1, <1>3, <1>4, <1>5, <1>6, <1>7 DEF StorageFits, Renewing, SignedByRoot
<1>9. MemoryFits(i)' /\ IssuedFits(i)'
  BY <1>1, <1>2, <1>5, <1>6 DEF MemoryFits, IssuedFits
<1>10. QED
  BY <1>8, <1>9 DEF Fits

\* A step that leaves the storage and the start-up alone.
LEMMA DoormanFits ==
  ASSUME NEW i, Instances = {i}, Typed, Fits(i), UNCHANGED <<storage, managerVars, owner>>,
         IssuedFits(i)'
  PROVE  Fits(i)'
<1>1. UNCHANGED <<Root, Stored("root"), Stored("network-map"), Stored("doorman")>>
      /\ \A k \in Signed : SignedByRoot(k)' <=> SignedByRoot(k)
  BY DEF Root, Stored, SignedByRoot, storage
<1>2. StorageFits(i)'
  BY <1>1 DEF Fits, StorageFits, Renewing, Victim, storage, managerVars
<1>3. MemoryFits(i)'
  BY <1>1 DEF Fits, MemoryFits, storage, managerVars
<1>4. QED
  BY <1>2, <1>3 DEF Fits

\* The steps of the doorman.
LEMMA RequestFits ==
  ASSUME NEW i, Instances = {i}, Typed, Fits(i), NEW c \in Requests,
         PostCSR(i, c) \/ Sign(c) \/ Refuse(c) \/ Retrieve(c)
  PROVE  Fits(i)'
<1> USE DEF Slots, Signed, Clearing, Typed
<1>1. owner[c] = i /\ i \in Instances /\ UNCHANGED <<storage, managerVars, owner>>
      /\ csr \in [Requests -> {"idle", "posted", "signed", "refused", "retrieved", "lost"}]
      /\ leaf \in [Requests -> Nat]
  BY DEF PostCSR, Sign, Refuse, Retrieve, MemoryOK
<1>2. UNCHANGED <<Root, Stored("root"), held, cert, Renewing(i)>>
  BY <1>1 DEF Root, Stored, Renewing, storage, managerVars
<1>3. CASE PostCSR(i, c) \/ Refuse(c)
  BY <1>1, <1>2, <1>3, DoormanFits DEF PostCSR, Refuse, Fits, IssuedFits
<1>4. CASE Sign(c)
  BY <1>1, <1>2, <1>4, DoormanFits DEF Sign, Fits, IssuedFits
<1>5. CASE Retrieve(c)
  <2> DEFINE chain == [issuer |-> leaf[c], doorman |-> cert[i]["doorman"], root |-> cert[i]["root"]]
  <2>1. issued' = issued \cup {chain} /\ leaf' = leaf /\ csr' = [csr EXCEPT ![c] = "retrieved"]
    BY <1>1, <1>5 DEF Retrieve
  <2>2. pc[i] = "up" /\ slot[i] = "doorman" /\ csr[c] = "signed"
    BY <1>1, <1>5 DEF Retrieve, Loaded
  <2>3. /\ Stored("root") /\ Stored("network-map") /\ Stored("doorman") /\ ~Renewing(i)
        /\ chain.root = Root /\ chain.doorman = Last(held["doorman"])
    BY <2>2 DEF Fits, MemoryFits, Renewing
  <2>4. chain.doorman.issuer = Root.serial
    <3>1. held["doorman"] \in Seq(Entries) /\ held["doorman"] # <<>> /\ SignedByRoot("doorman")
          /\ Last(held["doorman"]) # Torn
      BY <2>2, <2>3 DEF Fits, StorageFits, HeldOK, Stored
    <3>2. \E n \in DOMAIN held["doorman"] : Last(held["doorman"]) = held["doorman"][n]
      BY <3>1, NewestIsRevision
    <3>3. QED
      BY <2>3, <3>1, <3>2 DEF SignedByRoot
  <2>5. chain.issuer = chain.doorman.serial
    BY <2>2 DEF Fits, IssuedFits
  <2>6. \A k \in Signed : held[k] # <<>>
    BY <2>3 DEF Stored
  <2> HIDE DEF chain
  <2>7. IssuedFits(i)'
    BY <1>1, <1>2, <2>1, <2>3, <2>4, <2>5, <2>6 DEF Fits, IssuedFits
  <2>8. QED
    BY <1>1, <2>7, DoormanFits
<1>6. QED
  BY <1>3, <1>4, <1>5

\* Starting, and failures that are careful.
LEMMA StartFits ==
  ASSUME NEW i, Instances = {i}, Typed, Fits(i), Start(i)
  PROVE  Fits(i)'
<1> USE DEF Slots, Signed, Clearing, Typed
<1>1. /\ i \in Instances /\ pc'[i] = "getting" /\ slot'[i] = "root" /\ pc[i] = "down"
      /\ UNCHANGED <<storageType, held, cert, issued, csr, leaf>>
  BY DEF Start, Go, MemoryOK, storage, doormanVars
<1>2. UNCHANGED <<Root, Stored("root")>> /\ \A k \in Signed : SignedByRoot(k)' <=> SignedByRoot(k)
  BY <1>1 DEF Root, Stored, SignedByRoot
<1>3. QED
  BY <1>1, <1>2 DEF Fits, StorageFits, MemoryFits, IssuedFits, Renewing

LEMMA CrashFits ==
  ASSUME NEW i, Instances = {i}, Typed, Fits(i), Crash(i), Careful(i)
  PROVE  Fits(i)'
<1> USE DEF Slots, Signed, Clearing, Typed
<1>1. /\ i \in Instances /\ pc'[i] = "down" /\ UNCHANGED <<storageType, held, slot, issued, leaf>>
      /\ \A c \in Requests : csr'[c] # "signed"
  <2>1. \A c \in Requests : owner[c] = i
    BY DEF MemoryOK
  <2>2. QED
    BY <2>1 DEF Crash, Go, MemoryOK, storage
<1>2. UNCHANGED <<Root, Stored("root")>> /\ \A k \in Signed : SignedByRoot(k)' <=> SignedByRoot(k)
  BY <1>1 DEF Root, Stored, SignedByRoot
<1>3. pc[i] \in Clearing => \A k \in Signed : held[k] = <<>>
  <2>1. crashes' # crashes
    BY DEF Crash, MemoryOK
  <2>2. QED
    BY <2>1 DEF Careful, Exposed, Loaded
<1>4. \A k \in Signed : held[k] = <<>> => SignedByRoot(k)
  BY DEF SignedByRoot
<1>5. StorageFits(i)'
  BY <1>1, <1>2, <1>3, <1>4 DEF Fits, StorageFits, Renewing
<1>6. MemoryFits(i)' /\ IssuedFits(i)'
  BY <1>1, <1>2 DEF Fits, MemoryFits, IssuedFits, Renewing
<1>7. QED
  BY <1>5, <1>6 DEF Fits

LEMMA FaultFits ==
  ASSUME NEW i, Instances = {i}, Typed, Fits(i), Careful(i),
         GetFault(i) \/ PutFault(i) \/ ClearFault(i)
  PROVE  Fits(i)'
<1> USE DEF Slots, Signed, Clearing, Typed
<1>1. i \in Instances /\ ~Exposed(i) /\ (slot[i] = "root" => pc[i] \notin {"opening", "writing"})
  <2>1. faults' # faults
    BY DEF GetFault, PutFault, ClearFault, Fault, MemoryOK
  <2>2. QED
    BY <2>1 DEF Careful
<1>2. slot[i] = "root" /\ pc[i] # "down" => \A k \in Signed : held[k] = <<>>
  BY <1>1 DEF Exposed
<1>3. CASE GetFault(i)
  BY <1>2, <1>3, MakeFits DEF GetFault
<1>4. CASE PutFault(i)
  <2>1. /\ pc'[i] = "failed" /\ slot[i] # "root" /\ pc[i] \in {"opening", "writing"}
        /\ UNCHANGED <<storageType, held, slot, cert, found, issued, csr, leaf>>
    BY <1>1, <1>4 DEF PutFault, Go, MemoryOK, storage, doormanVars
  <2>2. UNCHANGED <<Root, Stored("root"), Stored("network-map")>>
        /\ \A k \in Signed : SignedByRoot(k)' <=> SignedByRoot(k)
    BY <2>1 DEF Root, Stored, SignedByRoot
  <2>3. QED
    BY <2>1, <2>2 DEF Fits, StorageFits, MemoryFits, IssuedFits, Renewing
<1>5. CASE ClearFault(i)
  <2>1. /\ pc[i] \in Clearing /\ slot[i] = "root" /\ Cleared(i)
        /\ UNCHANGED <<storageType, held, cert, found, issued, csr, leaf>>
    BY <1>5 DEF ClearFault, Loaded, storage, doormanVars
  <2>2. \A k \in Signed : held[k] = <<>> /\ SignedByRoot(k)'
    BY <1>2, <2>1 DEF SignedByRoot
  <2>3. UNCHANGED <<Root, Stored("root")>> /\ issued = {} /\ Stored("root") /\ cert[i]["root"] = Root
    BY <2>1 DEF Root, Stored, Fits, IssuedFits, MemoryFits, Renewing
  <2>4. /\ Victim(i) = "network-map" => pc'[i] = "finding-doorman" /\ slot'[i] = "root"
        /\ Victim(i) # "network-map" => pc'[i] = "getting" /\ slot'[i] = "network-map"
    BY <1>1, <2>1, ClearedGoesOn
  <2>5. StorageFits(i)'
    BY <2>1, <2>2, <2>3, <2>4 DEF StorageFits, Renewing
  <2>6. \A q \in Requests : csr[q] # "signed"
    BY <1>1, <2>1 DEF Loaded, MemoryOK
  <2>7. MemoryFits(i)' /\ IssuedFits(i)'
    BY <2>1, <2>3, <2>4, <2>6 DEF MemoryFits, IssuedFits
  <2>8. QED
    BY <2>5, <2>7 DEF Fits
<1>6. QED
  BY <1>3, <1>4, <1>5

-----------------------------------------------------------------------------
(* The theorems.                                                           *)

LEMMA NextFits ==
  ASSUME NEW i, Instances = {i}, Typed, Fits(i), [CarefulNext]_vars
  PROVE  Fits(i)'
<1>1. ASSUME InitStep(i) PROVE Fits(i)'
  <2>1. CASE Missing(i)
    BY <2>1, MakeFits DEF Missing
  <2>2. QED
    BY <1>1, <2>1, GetFits, OpenFits, WriteFits, FindFits, ClearFits DEF InitStep
<1>2. ASSUME UNCHANGED vars PROVE Fits(i)'
  <2>1. IssuedFits(i)'
    BY <1>2 DEF vars, Fits, IssuedFits, Stored, Root, Renewing
  <2>2. QED
    BY <1>2, <2>1, DoormanFits DEF vars, storage, managerVars
<1>3. QED
  BY <1>1, <1>2, StartFits, CrashFits, FaultFits, RequestFits DEF CarefulNext

\* The invariant of one careful instance.
LEMMA CarefulInvariant ==
  ASSUME NEW CONSTANT i, Instances = {i}
  PROVE  CarefulSpec => [](Typed /\ Fits(i))
<1>1. Init => Typed /\ Fits(i)
  BY InitHeld, InitMemory, InitFits DEF Typed
<1>2. Typed /\ Fits(i) /\ [CarefulNext]_vars => (Typed /\ Fits(i))'
  BY NextTyped, NextFits
<1>3. QED
  BY <1>1, <1>2, PTL DEF CarefulSpec

\* An instance that is alone with its storage serves with what a restart would find.
THEOREM AloneUsesStored ==
  ASSUME NEW CONSTANT i, Instances = {i}
  PROVE  CarefulSpec => []UsedIsStored
<1>1. Typed /\ Fits(i) => UsedIsStored
  BY DEF Typed, Loaded, Fits, MemoryFits, UsedIsStored, Slots, Root
<1>2. QED
  BY <1>1, CarefulInvariant, PTL

\* Its root has issued the certificates it serves with, however often its start-up was
\* interrupted and its root renewed.
THEOREM AloneHasChain ==
  ASSUME NEW CONSTANT i, Instances = {i}
  PROVE  CarefulSpec => []ChainOK
<1>1. Typed /\ Fits(i) => ChainOK
  <2> SUFFICES ASSUME Typed, Fits(i), pc[i] = "up"
               PROVE  /\ cert[i]["network-map"].issuer = cert[i]["root"].serial
                      /\ cert[i]["doorman"].issuer = cert[i]["root"].serial
    BY DEF ChainOK
  <2>1. /\ slot[i] = "doorman" /\ Stored("root") /\ cert[i]["root"] = Root
        /\ \A k \in Signed : Stored(k) /\ cert[i][k] = Last(held[k]) /\ SignedByRoot(k)
    BY DEF Typed, Loaded, Fits, MemoryFits, StorageFits, Signed, Clearing
  <2>2. ASSUME NEW k \in Signed PROVE cert[i][k].issuer = Root.serial
    <3>1. held[k] \in Seq(Entries) /\ held[k] # <<>> /\ Last(held[k]) # Torn
      BY <2>1 DEF Typed, HeldOK, Stored, Signed, Slots
    <3>2. \E n \in DOMAIN held[k] : Last(held[k]) = held[k][n]
      BY <3>1, NewestIsRevision
    <3>3. QED
      BY <2>1, <3>1, <3>2 DEF SignedByRoot
  <2>3. QED
    BY <2>1, <2>2 DEF Signed
<1>2. QED
  BY <1>1, CarefulInvariant, PTL

\* And every node its doorman has let in can publish its node info for ever, also
\* after restarts: its chain ends in the root the instance serves with.
THEOREM AloneValidatesIssued ==
  ASSUME NEW CONSTANT i, Instances = {i}
  PROVE  CarefulSpec => []IssuedValid
<1>1. Typed /\ Fits(i) => IssuedValid
  BY DEF Typed, Loaded, Fits, MemoryFits, IssuedFits, IssuedValid, Validates
<1>2. QED
  BY <1>1, CarefulInvariant, PTL
=============================================================================
