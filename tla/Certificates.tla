---------------------------- MODULE Certificates ----------------------------
(***************************************************************************)
(* The certificates of the network: CertificateManager's start-up, which   *)
(* finds or makes the root, network map and doorman certificates, and the  *)
(* doorman, which signs nodes in with them.                                *)
(*                                                                         *)
(* Each instance of the service first makes sure that the three            *)
(* certificates exist, in this order, one storage call at a time; a call   *)
(* that fails, for whatever reason, is taken for a missing certificate.  A *)
(* new root is followed by the deletion of what the old root has signed.   *)
(* Certificates in use and answers of the doorman are held in memory.      *)
(*                                                                         *)
(* A certificate is abstracted to its serial number and that of its        *)
(* issuer; subjects, key material, certificate paths in zip files and the  *)
(* dev mode, where root and doorman are Corda's own, are left out.         *)
(***************************************************************************)
EXTENDS Naturals, SequencesExt

CONSTANTS
  Instances,     \* instances of the service over one storage
  Requests,      \* certificate signing requests
  StorageTypes,  \* the storages it may be deployed with: "FILE", "MONGO"
  MaxCrashes,    \* bound: crashes
  MaxFaults,     \* bound: storage calls that fail for a reason of their own
  Torn,          \* a file that has been created and not written yet
  None           \* no certificate

ASSUME CertificatesAssumption ==
  /\ StorageTypes \subseteq {"FILE", "MONGO"} /\ StorageTypes # {}
  /\ MaxCrashes \in Nat /\ MaxFaults \in Nat
  /\ Torn \notin [serial : Nat, issuer : Nat] /\ None \notin [serial : Nat, issuer : Nat]

VARIABLES
  storageType,  \* the option storage-type
  held,         \* revisions of each certificate in the storage, oldest first
  made,         \* certificates made so far
  pc,           \* progress of each instance's start-up
  slot,         \* the certificate it is at
  cert,         \* the certificates each instance holds in memory
  found,        \* the revision each instance is about to delete
  csr,          \* progress of each signing request
  owner,        \* the instance that holds its response
  leaf,         \* the issuer of the certificate made for it
  issued,       \* certificate chains nodes have downloaded
  crashes, faults

storage == <<storageType, held>>
managerVars == <<made, pc, slot, cert, found>>
doormanVars == <<csr, owner, leaf, issued>>
vars == <<storageType, held, made, pc, slot, cert, found, csr, owner, leaf, issued, crashes, faults>>

Cert == [serial : Nat, issuer : Nat]
Slots == {"root", "network-map", "doorman"}

\* An operator who has removed the root from a storage in use leaves the rest behind.
Init ==
  /\ storageType \in StorageTypes
  /\ \/ made = 0 /\ held = [k \in Slots |-> <<>>]
     \/ /\ made = 3
        /\ held = [k \in Slots |->
             IF k = "root" THEN <<>>
             ELSE <<[serial |-> IF k = "network-map" THEN 2 ELSE 3, issuer |-> 1]>>]
  /\ pc = [i \in Instances |-> "down"]
  /\ slot = [i \in Instances |-> "root"]
  /\ cert = [i \in Instances |-> [k \in Slots |-> None]]
  /\ found = [i \in Instances |-> None]
  /\ csr = [c \in Requests |-> "idle"]
  /\ owner \in [Requests -> Instances]
  /\ leaf = [c \in Requests |-> 0]
  /\ issued = {} /\ crashes = 0 /\ faults = 0

-----------------------------------------------------------------------------
(* Start-up (init).                                                        *)

Go(i, label) == pc' = [pc EXCEPT ![i] = label]

Start(i) ==
  /\ pc[i] = "down"
  /\ Go(i, "getting")
  /\ slot' = [slot EXCEPT ![i] = "root"]
  /\ UNCHANGED <<storage, made, cert, found, doormanVars, crashes, faults>>

\* The certificates are ensured one after the other, then the service is up.
Ensured(i) ==
  IF slot[i] = "doorman" THEN Go(i, "up") /\ UNCHANGED slot
  ELSE /\ slot' = [slot EXCEPT ![i] = IF @ = "root" THEN "network-map" ELSE "doorman"]
       /\ Go(i, "getting")

Stored(k) == held[k] # <<>> /\ Last(held[k]) # Torn

\* Mutant: of several revisions the oldest is read.
GetOldest(i) ==
  /\ pc[i] = "getting" /\ Stored(slot[i])
  /\ cert' = [cert EXCEPT ![i][slot[i]] = Head(held[slot[i]])]
  /\ Ensured(i)
  /\ UNCHANGED <<storage, made, found, doormanVars, crashes, faults>>

\* Found in the storage, newest revision first.
Get(i) ==
  /\ pc[i] = "getting" /\ Stored(slot[i])
  /\ cert' = [cert EXCEPT ![i][slot[i]] = Last(held[slot[i]])]
  /\ Ensured(i)
  /\ UNCHANGED <<storage, made, found, doormanVars, crashes, faults>>

\* A new root signs itself, what follows is signed by the root in memory.
Make(i) ==
  /\ made' = made + 1
  /\ cert' = [cert EXCEPT ![i][slot[i]] =
       [serial |-> made + 1,
        issuer |-> IF slot[i] = "root" THEN made + 1 ELSE cert[i]["root"].serial]]
  /\ Go(i, "opening")
  /\ UNCHANGED <<storage, slot, found, doormanVars, crashes>>

Missing(i) ==
  /\ pc[i] = "getting" /\ ~Stored(slot[i])
  /\ Make(i)
  /\ UNCHANGED faults

\* Mutant: a file is created beside the one there is.
OpenBeside(i) ==
  /\ pc[i] = "opening"
  /\ held' = IF storageType = "FILE" THEN [held EXCEPT ![slot[i]] = Append(@, Torn)] ELSE held
  /\ Go(i, "writing")
  /\ UNCHANGED <<storageType, made, slot, cert, found, doormanVars, crashes, faults>>

\* put creates or truncates a file; in the Mongo storage nothing is visible yet.
Open(i) ==
  /\ pc[i] = "opening"
  /\ held' = IF storageType = "FILE" THEN [held EXCEPT ![slot[i]] = <<Torn>>] ELSE held
  /\ Go(i, "writing")
  /\ UNCHANGED <<storageType, made, slot, cert, found, doormanVars, crashes, faults>>

\* Mutant: a new root does not invalidate what the old one has signed.
WriteOnly(i) ==
  /\ pc[i] = "writing"
  /\ held' = [held EXCEPT ![slot[i]] =
       IF storageType = "MONGO" THEN Append(@, cert[i][slot[i]])
       ELSE IF @ = <<>> THEN <<>> ELSE <<cert[i][slot[i]]>>]
  /\ Ensured(i)
  /\ UNCHANGED <<storageType, made, cert, found, doormanVars, crashes, faults>>

\* A root has been stored: the other certificates are deleted first.
Write(i) ==
  /\ pc[i] = "writing"
  /\ held' = [held EXCEPT ![slot[i]] =
       IF storageType = "MONGO" THEN Append(@, cert[i][slot[i]])
       ELSE IF @ = <<>> THEN <<>> ELSE <<cert[i][slot[i]]>>]
  /\ IF slot[i] = "root" THEN Go(i, "finding-network-map") /\ UNCHANGED slot ELSE Ensured(i)
  /\ UNCHANGED <<storageType, made, cert, found, doormanVars, crashes, faults>>

Victim(i) == IF pc[i] \in {"finding-network-map", "clearing-network-map"} THEN "network-map" ELSE "doorman"

\* The deletion of the one certificate is followed by that of the other.
Cleared(i) ==
  IF Victim(i) = "network-map" THEN Go(i, "finding-doorman") /\ UNCHANGED slot ELSE Ensured(i)

\* The Mongo storage looks for the oldest revision first; a deletion that finds
\* nothing is the end of it in both storages.
FindOld(i) ==
  /\ pc[i] \in {"finding-network-map", "finding-doorman"}
  /\ IF held[Victim(i)] = <<>>
     THEN Cleared(i) /\ UNCHANGED found
     ELSE /\ found' = [found EXCEPT ![i] = Head(held[Victim(i)])]
          /\ Go(i, IF Victim(i) = "network-map" THEN "clearing-network-map" ELSE "clearing-doorman")
          /\ UNCHANGED slot
  /\ UNCHANGED <<storage, made, cert, doormanVars, crashes, faults>>

\* An error of the deletion is recovered from.
ClearOld(i) ==
  /\ pc[i] \in {"clearing-network-map", "clearing-doorman"}
  /\ held' = [held EXCEPT ![Victim(i)] =
       IF @ # <<>> /\ (storageType = "FILE" \/ Head(@) = found[i]) THEN Tail(@) ELSE @]
  /\ Cleared(i)
  /\ UNCHANGED <<storageType, made, cert, found, doormanVars, crashes, faults>>

-----------------------------------------------------------------------------
(* The doorman: postCSR and retrieveCSRResult.                             *)

PostCSR(i, c) ==
  /\ pc[i] = "up" /\ csr[c] = "idle" /\ owner[c] = i
  /\ csr' = [csr EXCEPT ![c] = "posted"]
  /\ UNCHANGED <<storage, managerVars, owner, leaf, issued, crashes, faults>>

\* The certificate is made after the request was answered with its id ...
Sign(c) ==
  /\ csr[c] = "posted"
  /\ csr' = [csr EXCEPT ![c] = "signed"]
  /\ leaf' = [leaf EXCEPT ![c] = cert[owner[c]]["doorman"].serial]
  /\ UNCHANGED <<storage, managerVars, owner, issued, crashes, faults>>

\* ... and a request that cannot be signed keeps its empty response.
Refuse(c) ==
  /\ csr[c] = "posted"
  /\ csr' = [csr EXCEPT ![c] = "refused"]
  /\ UNCHANGED <<storage, managerVars, owner, leaf, issued, crashes, faults>>

\* Mutant: the chain is answered before the certificate is there.
RetrieveEarly(c) ==
  /\ csr[c] \in {"posted", "signed"}
  /\ csr' = [csr EXCEPT ![c] = "retrieved"]
  /\ issued' = issued \cup {[issuer |-> leaf[c], doorman |-> cert[owner[c]]["doorman"],
                             root |-> cert[owner[c]]["root"]]}
  /\ UNCHANGED <<storage, managerVars, owner, leaf, crashes, faults>>

\* Any other poll is answered with no content.
Retrieve(c) ==
  /\ csr[c] = "signed"
  /\ csr' = [csr EXCEPT ![c] = "retrieved"]
  /\ issued' = issued \cup {[issuer |-> leaf[c], doorman |-> cert[owner[c]]["doorman"],
                             root |-> cert[owner[c]]["root"]]}
  /\ UNCHANGED <<storage, managerVars, owner, leaf, crashes, faults>>

-----------------------------------------------------------------------------
(* Failures.                                                               *)

\* Whatever is in memory is lost, the responses of the doorman included.
Crash(i) ==
  /\ pc[i] # "down" /\ crashes < MaxCrashes
  /\ crashes' = crashes + 1
  /\ Go(i, "down")
  /\ cert' = [cert EXCEPT ![i] = [k \in Slots |-> None]]
  /\ csr' = [c \in Requests |-> IF owner[c] = i /\ csr[c] \in {"posted", "signed"} THEN "lost" ELSE csr[c]]
  /\ UNCHANGED <<storage, made, slot, found, owner, leaf, issued, faults>>

Fault == faults < MaxFaults /\ faults' = faults + 1

\* A failed read is taken for a missing certificate.
GetFault(i) == pc[i] = "getting" /\ Fault /\ Make(i)

\* A root that cannot be stored is used all the same, and the network map
\* certificate not deleted; the others must be stored for the service to start.
PutFault(i) ==
  /\ pc[i] \in {"opening", "writing"} /\ Fault
  /\ Go(i, IF slot[i] = "root" THEN "finding-doorman" ELSE "failed")
  /\ UNCHANGED <<storage, made, slot, cert, found, doormanVars, crashes>>

ClearFault(i) ==
  /\ pc[i] \in {"finding-network-map", "clearing-network-map", "finding-doorman", "clearing-doorman"}
  /\ Fault /\ Cleared(i)
  /\ UNCHANGED <<storage, made, cert, found, doormanVars, crashes>>

InitStep(i) == Get(i) \/ Missing(i) \/ Open(i) \/ Write(i) \/ FindOld(i) \/ ClearOld(i)

Next ==
  \/ \E i \in Instances : Start(i) \/ InitStep(i) \/ Crash(i) \/ GetFault(i) \/ PutFault(i) \/ ClearFault(i)
  \/ \E i \in Instances, c \in Requests : PostCSR(i, c)
  \/ \E c \in Requests : Sign(c) \/ Refuse(c) \/ Retrieve(c)

Spec == Init /\ [][Next]_vars

-----------------------------------------------------------------------------
(* Properties.                                                             *)

\* Every variable has its type; only files are torn, and there is one per key.
TypeOK ==
  /\ storageType \in {"FILE", "MONGO"}
  /\ held \in [Slots -> Seq(Cert \cup {Torn})]
  /\ made \in Nat /\ crashes \in Nat /\ faults \in Nat
  /\ pc \in [Instances -> {"down", "getting", "opening", "writing", "finding-network-map",
       "clearing-network-map", "finding-doorman", "clearing-doorman", "up", "failed"}]
  /\ slot \in [Instances -> Slots]
  /\ cert \in [Instances -> [Slots -> Cert \cup {None}]]
  /\ found \in [Instances -> Cert \cup {None, Torn}]
  /\ csr \in [Requests -> {"idle", "posted", "signed", "refused", "retrieved", "lost"}]
  /\ owner \in [Requests -> Instances] /\ leaf \in [Requests -> Nat]
  /\ issued \subseteq [issuer : Nat, doorman : Cert, root : Cert]
  /\ \A k \in Slots :
       IF storageType = "FILE" THEN Len(held[k]) <= 1
       ELSE \A n \in DOMAIN held[k] : held[k][n] # Torn

\* An instance that serves signs the network map and the nodes' certificates
\* with certificates its own root has issued.
ChainOK ==
  \A i \in Instances : pc[i] = "up" =>
    /\ cert[i]["network-map"].issuer = cert[i]["root"].serial
    /\ cert[i]["doorman"].issuer = cert[i]["root"].serial

\* validateCertPath of a node's chain, up to the root an instance holds.
Validates(i, chain) ==
  /\ chain.issuer = chain.doorman.serial
  /\ chain.doorman.issuer = chain.root.serial
  /\ chain.root = cert[i]["root"]

\* A node that was let in by the doorman can publish its node info for ever: its
\* chain validates at every instance that serves, also after restarts.
IssuedValid == \A i \in Instances : pc[i] = "up" => \A chain \in issued : Validates(i, chain)

\* What an instance serves with is what the storage holds: a restart changes none
\* of it.
UsedIsStored ==
  \A i \in Instances : pc[i] = "up" =>
    \A k \in Slots : Stored(k) /\ Last(held[k]) = cert[i][k]
=============================================================================
