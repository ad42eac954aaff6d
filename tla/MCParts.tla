------------------------------ MODULE MCParts ------------------------------
(* CardReader, Discovery, Cutting and EraseHid for TLC: they share nothing, *)
(* so each is run while the other three have nothing to do.                  *)
EXTENDS CardReader, Discovery, Cutting, EraseHid

Entry(kind, name, order, cluster, size) ==
  [kind |-> kind, name |-> name, order |-> order, cluster |-> cluster, size |-> size]
File(cluster, size) == Entry("file", "short", 0, cluster, size)
Entries ==
  {Entry(k, k, 0, 0, 0) : k \in {"end", "free", "volume", "folder"}}
    \cup {Entry("long", <<"first", "second">>[n], n, 0, 0) : n \in 1..2}
    \cup {File(2, 0), File(2, 1)}

\* Every directory of four entries on a card of single clusters, and a take of
\* one to four and a half clusters on every allocation of four clusters.
NoChains == [c \in Cluster |-> EndOfChain]
Directories == [fat : {NoChains}, directory : [1..4 -> Entries]]
Fats ==
  {f \in [Cluster -> Cluster \cup {EndOfChain}] :
     /\ \A c, d \in Cluster : f[c] = f[d] /\ f[c] # EndOfChain => c = d
     /\ NoCycle(f)}
Chains ==
  [fat : Fats, directory : {<<File(c, n)>> : c \in {2, 4}, n \in {2, 5, 8, 9}}]
NoLayout == [fat |-> NoChains, directory |-> <<>>]
AllLayouts == Directories \cup Chains \cup {NoLayout}

\* Two cards on up to three block nodes, empty slots and another vendor's
\* among them, and up to two hidraw nodes.
BlockNodes ==
  [vendor : {TRUE}, medium : BOOLEAN, serial : Serials \cup {NoSerial}, viaCase : BOOLEAN]
    \cup [vendor : {FALSE}, medium : {TRUE}, serial : Serials, viaCase : {FALSE}]
HidNodes == [vendor : BOOLEAN, uniq : Serials \cup {NoSerial}]
NoMachine == [hidraws |-> <<>>, blocks |-> <<>>]
AllMachines ==
  [hidraws : {<<>>}, blocks : [1..3 -> BlockNodes]]
    \cup [hidraws : [1..2 -> HidNodes], blocks : [1..1 -> BlockNodes]]
    \cup {NoMachine}

\* Every three markers on three frames, at the edges and past the end too, for
\* the boundaries alone; two and three parts to cut and cut again, and four,
\* one more than can be numbered.
Recording(frames, cues, declared, times) ==
  [frames |-> frames, cues |-> cues, declared |-> declared,
   low |-> 2, high |-> 1, cuts |-> times]
NoRecording == Recording(1, <<>>, 0, 0)
AllRecordings ==
  {Recording(3, c, n, 0) : c \in [1..3 -> 0..4], n \in {2, 4}}
    \cup {Recording(3, <<1, 3, 1>>, 3, 2), Recording(3, <<2, 1>>, 2, 2),
          Recording(3, <<2, 1>>, 3, 2), Recording(4, <<1, 2, 3>>, 1, 2),
          Recording(4, <<1, 2, 3>>, 3, 1), NoRecording}

ToolsIdle == layout = NoLayout /\ machine = NoMachine /\ recording = NoRecording
AllInit ==
  /\ CardReaderInit /\ DiscoveryInit /\ CuttingInit /\ EraseHidInit
  /\ gone => ToolsIdle
PartsInit ==
  \/ machine = NoMachine /\ recording = NoRecording /\ AllInit
  \/ layout = NoLayout /\ recording = NoRecording /\ AllInit
  \/ layout = NoLayout /\ machine = NoMachine /\ AllInit

toolVars == <<readerVars, discoveryVars, cutVars>>
partVars == <<toolVars, vars>>

PartsNext ==
  \/ CardReaderNext /\ UNCHANGED <<discoveryVars, cutVars, vars>>
  \/ DiscoveryNext /\ UNCHANGED <<readerVars, cutVars, vars>>
  \/ CuttingNext /\ UNCHANGED <<readerVars, discoveryVars, vars>>
  \/ ToolsIdle /\ EraseHidNext /\ UNCHANGED toolVars
PartsSpec ==
  /\ PartsInit /\ [][PartsNext]_partVars
  /\ WF_partVars(Copy /\ UNCHANGED <<discoveryVars, cutVars, vars>>)
  /\ WF_partVars(ToolsIdle /\ Loop /\ UNCHANGED toolVars)
=============================================================================
