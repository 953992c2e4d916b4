----------------------------- MODULE NodeTable -----------------------------
(***************************************************************************)
(* The web site's table of nodes: the component Default with the scripts   *)
(* processData and geoCode.  When the page has been mounted it asks for    *)
(* the notaries, the nodes and the build properties, looks up the places   *)
(* one after the other, and shows everything at the end.  Nothing          *)
(* catches an exception on the way.  Nodes come and go at the service      *)
(* (NodeRegistry): it may answer any of them.                              *)
(*                                                                         *)
(* A party is its key and its place (city and country).  The texts of the  *)
(* X500 names, coordinates and the map are data.                           *)
(***************************************************************************)
EXTENDS Naturals, FiniteSets, SequencesExt

CONSTANTS
  Nodes,     \* node keys
  Parties,   \* the sequence of parties of each node
  Notaries,  \* keys of the notaries
  Columns    \* titles of the columns that can be clicked

Unsorted == "none"
FirstColumn == "Organisational Unit"

Party == UNION {ToSet(Parties[n]) : n \in Nodes}

ASSUME TableAssumption ==
  /\ IsFiniteSet(Nodes)
  /\ \A n \in Nodes : Parties[n] \in Seq([key : {p.key : p \in Party}, at : {p.at : p \in Party}])
  /\ FirstColumn \in Columns /\ Unsorted \notin Columns

VARIABLES
  load,       \* progress of getData
  fetched,    \* the node keys it was answered, in that order
  lookups,    \* how many requests the geocoder has answered
  places,     \* what it has answered for each place
  rows,       \* the nodes of the component's state: the rows of the table
  sortCiteria, \* the column last sorted by, a global of processData
  page,       \* the page shown
  braids      \* requests for the Braid API in flight

tableVars == <<load, fetched, lookups, places, rows, sortCiteria, page, braids>>

PageInit ==
  /\ load = "notaries" /\ fetched = <<>> /\ lookups = 0 /\ places = <<>> /\ rows = <<>>
  /\ sortCiteria = Unsorted /\ page = "home" /\ braids = 0

\* The page has been opened anew; requests of the old one are not awaited.
PageReset ==
  /\ load' = "notaries" /\ fetched' = <<>> /\ lookups' = 0 /\ places' = <<>> /\ rows' = <<>>
  /\ sortCiteria' = Unsorted /\ page' = "home" /\ braids' = 0

-----------------------------------------------------------------------------
(* The functions of processData.                                           *)

ParseParty(n, p) == [node |-> n, key |-> p.key, at |-> p.at]

\* A row for each party of each node.
ParseNodes(ns) ==
  FlattenSeq([i \in DOMAIN ns |->
    [j \in DOMAIN Parties[ns[i]] |-> ParseParty(ns[i], Parties[ns[i]][j])]])

\* The members of a finite set of numbers in ascending order.
Ascending(S) ==
  CHOOSE s \in [1..Cardinality(S) -> S] : \A i, j \in DOMAIN s : i < j => s[i] < s[j]

\* Mutant: repetitions stay in the list.
UniqueLocationsAll(parsed) == [i \in DOMAIN parsed |-> parsed[i].at]

\* Mutant: a place is compared with all others, not the earlier ones.
UniqueLocationsOnce(parsed) ==
  LET unique == {i \in DOMAIN parsed : \A j \in DOMAIN parsed \ {i} : parsed[j].at # parsed[i].at}
      kept == Ascending(unique)
  IN  [k \in DOMAIN kept |-> parsed[kept[k]].at]

\* The places of the rows, without those that occur at an earlier index.
UniqueLocations(parsed) ==
  LET unique == {i \in DOMAIN parsed : \A j \in 1..(i - 1) : parsed[j].at # parsed[i].at}
      kept == Ascending(unique)
  IN  [k \in DOMAIN kept |-> parsed[kept[k]].at]

\* geoCodeNodes and isNotary: a row has coordinates if its place was found.
Complete(parsed) ==
  [i \in DOMAIN parsed |->
    [node |-> parsed[i].node, key |-> parsed[i].key,
     located |-> places[parsed[i].at] = "point", N |-> parsed[i].key \in Notaries]]

\* A second click on a column reverses the table.  Else it is sorted, but
\* getProperty asks hasOwnProperty for the row itself instead of the column: no
\* row has such a property, all compare as empty texts and keep their order.
SortNodes(column, s) == IF column = sortCiteria THEN Reverse(s) ELSE s

-----------------------------------------------------------------------------
(* getData.                                                                *)

GetNotaries ==
  /\ load = "notaries" /\ load' = "nodes"
  /\ UNCHANGED <<fetched, lookups, places, rows, sortCiteria, page, braids>>

\* The service lists its nodes, whatever they are by then, in no particular order.
GetNodes ==
  /\ load = "nodes" /\ load' = "properties"
  /\ \E listed \in SUBSET Nodes : fetched' \in SetToSeqs(listed)
  /\ UNCHANGED <<lookups, places, rows, sortCiteria, page, braids>>

GetBuildProperties ==
  /\ load = "properties" /\ load' = "places"
  /\ UNCHANGED <<fetched, lookups, places, rows, sortCiteria, page, braids>>

Parsed == ParseNodes(fetched)
Wanted == UniqueLocations(Parsed)
LookedUp == lookups = Len(Wanted)

\* lookupLatLong of the next place; an answer that is not 200 is a place without
\* coordinates.
Lookup ==
  /\ load = "places" /\ ~LookedUp
  /\ lookups' = lookups + 1
  /\ LET place == Wanted[lookups + 1]
     IN  \E answer \in {"point", "refused"} :
           places' = [p \in DOMAIN places \cup {place} |-> IF p = place THEN answer ELSE places[p]]
  /\ UNCHANGED <<load, fetched, rows, sortCiteria, page, braids>>

\* Mutant: what could be completed before the exception is shown.
GetDataFailsPartly ==
  /\ load \in {"notaries", "nodes", "properties", "places"}
  /\ load = "places" => ~LookedUp
  /\ load' = "failed"
  /\ rows' = IF load = "places" /\ DOMAIN places # {}
             THEN Complete(SelectSeq(Parsed, LAMBDA r : r.at \in DOMAIN places)) ELSE rows
  /\ UNCHANGED <<fetched, lookups, places, sortCiteria, page, braids>>

\* A request fails, or the geocoder knows no such place (results[0] of an empty
\* list): the exception ends getData.
GetDataFails ==
  /\ load \in {"notaries", "nodes", "properties", "places"}
  /\ load = "places" => ~LookedUp
  /\ load' = "failed"
  /\ UNCHANGED <<fetched, lookups, places, rows, sortCiteria, page, braids>>

Show ==
  /\ load = "places" /\ LookedUp
  /\ load' = "done"
  /\ rows' = SortNodes(FirstColumn, Complete(Parsed))
  /\ sortCiteria' = FirstColumn
  /\ UNCHANGED <<fetched, lookups, places, page, braids>>

LoadStep == GetNotaries \/ GetNodes \/ GetBuildProperties \/ Lookup \/ GetDataFails \/ Show

-----------------------------------------------------------------------------
(* The user's clicks.                                                      *)

SortTable(column) ==
  /\ page = "home"
  /\ rows' = SortNodes(column, rows)
  /\ sortCiteria' = column
  /\ UNCHANGED <<load, fetched, lookups, places, page, braids>>

OpenDashboard ==
  /\ page' = "home"
  /\ UNCHANGED <<load, fetched, lookups, places, rows, sortCiteria, braids>>

\* One request at a time, a bound.
OpenBraid ==
  /\ braids = 0 /\ braids' = 1
  /\ UNCHANGED <<load, fetched, lookups, places, rows, sortCiteria, page>>

\* The answer decides on the page, whatever was clicked since; nothing catches
\* a failure.
BraidAnswer ==
  /\ braids = 1 /\ braids' = 0
  /\ page' \in {"braid", page}
  /\ UNCHANGED <<load, fetched, lookups, places, rows, sortCiteria>>

-----------------------------------------------------------------------------
(* Properties.                                                             *)

\* The table shows all parties of the nodes of one answer, each once, with its
\* role and place, however often and whenever it is sorted; or it is empty:
\* a load that fails shows nothing rather than a part.
AllOrNothing ==
  LET shownOf(n) == {[node |-> n, key |-> p.key, located |-> places[p.at] = "point",
                      N |-> p.key \in Notaries] : p \in ToSet(Parties[n])}
      shown == UNION {shownOf(n) : n \in ToSet(fetched)}
  IN  IF load = "done"
      THEN Len(rows) = Cardinality(shown) /\ ToSet(rows) = shown
      ELSE rows = <<>>

\* The geocoder is never asked twice for a place; and when the last place of the
\* list without repetitions has been looked up, every row's place has been, so
\* geoCodeNodes finds what it takes from the map.
PlacesKnown ==
  load = "places" =>
    /\ lookups = Cardinality(DOMAIN places)
    /\ LookedUp => DOMAIN places = {Parsed[i].at : i \in DOMAIN Parsed}
=============================================================================
