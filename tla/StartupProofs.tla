---------------------------- MODULE StartupProofs ----------------------------
(***************************************************************************)
(* Proofs about Startup and the tree of its applications, for all          *)
(* configurations: that hosts are found, that ports and credentials fit,   *)
(* and that the parser keeps what a configuration says.                    *)
(***************************************************************************)
EXTENDS Startup, SequenceTheorems, FiniteSetTheorems, WellFoundedInduction, TLAPS

\* Turning a sequence round twice gives it back.
LEMMA ReverseTwice ==
  ASSUME NEW S, NEW s \in Seq(S)
  PROVE  Reverse(s) \in Seq(S) /\ Len(Reverse(s)) = Len(s) /\ Reverse(Reverse(s)) = s
<1>1. Reverse(s) \in Seq(S) /\ Len(Reverse(s)) = Len(s)
  BY DEF Reverse
<1>2. \A i \in 1 .. Len(s) : Reverse(Reverse(s))[i] = s[i]
  BY <1>1 DEF Reverse
<1>3. ASSUME NEW t \in Seq(S)
      PROVE  Reverse(t) \in Seq(S) /\ Len(Reverse(t)) = Len(t)
  BY <1>3 DEF Reverse
<1>4. Reverse(Reverse(s)) \in Seq(S) /\ Len(Reverse(Reverse(s))) = Len(s)
  BY <1>1, <1>3
<1>6. \A i \in 1 .. Len(Reverse(Reverse(s))) : Reverse(Reverse(s))[i] = s[i]
  BY <1>2, <1>4
<1>7. Reverse(Reverse(s)) = s
  BY <1>4, <1>6, SeqEqual
<1> QED
  BY <1>1, <1>7

\* The parts of a name, under which it is stored.
LEMMA PartsOfName ==
  ASSUME NEW S, NEW name \in Seq(S)
  PROVE  /\ Parts(name) \in Seq(S \union {"*"}) /\ Len(Parts(name)) = Len(name)
         /\ \A i \in 1 .. Len(name) :
              Parts(name)[i] = IF name[i] = "" /\ i < Len(name) THEN "*" ELSE name[i]
<1>1. Len(name) \in Nat /\ DOMAIN name = 1 .. Len(name)
  BY LenProperties
<1>2. \A i \in 1 .. Len(name) : name[i] \in S
  BY ElementOfSeq
<1>3. Parts(name) = [i \in 1 .. Len(name) |-> IF name[i] = "" /\ i < Len(name) THEN "*" ELSE name[i]]
  BY <1>1 DEF Parts
<1>4. Parts(name) \in [1 .. Len(name) -> S \union {"*"}]
  <2>1. \A i \in 1 .. Len(name) :
          (IF name[i] = "" /\ i < Len(name) THEN "*" ELSE name[i]) \in S \union {"*"}
    BY <1>2, Zenon
  <2> QED
    BY <1>3, <2>1, Zenon
<1>5. Parts(name) \in Seq(S \union {"*"}) /\ Len(Parts(name)) = Len(name)
  BY <1>1, <1>4
<1> QED
  BY <1>3, <1>5, Zenon

LEMMA BeforeLast ==
  ASSUME NEW n \in Nat, NEW i \in 1 .. n, i < n
  PROVE  i \in 1 .. n - 1
OBVIOUS

\* A name that has no empty part but its last one is its own path.
LEMMA PartsOfPlain ==
  ASSUME NEW S, NEW name \in Seq(S), \A i \in 1 .. Len(name) - 1 : name[i] # ""
  PROVE  Parts(name) = name
<1>1. /\ Len(name) \in Nat /\ name \in Seq(S \union {"*"})
      /\ Parts(name) \in Seq(S \union {"*"}) /\ Len(Parts(name)) = Len(name)
  BY PartsOfName, LenProperties, SeqMonotonic
<1>0. Len(name) \in Nat
  BY LenProperties
<1>2. ASSUME NEW i \in 1 .. Len(name)
      PROVE  Parts(name)[i] = name[i]
  <2>1. ASSUME i < Len(name) PROVE name[i] # ""
    <3>1. i \in 1 .. Len(name) - 1
      BY <1>0, <2>1, BeforeLast, Zenon
    <3> QED
      BY <3>1, Zenon
  <2> QED
    BY <2>1, PartsOfName, Zenon
<1> QED
  BY <1>1, <1>2, SeqEqual

\* Two names with one path are one name, when it has no wildcard.
LEMMA PathIsName ==
  ASSUME NEW S, NEW name \in Seq(S), NEW R, NEW host \in Seq(R), NoWildcard(host),
         Reverse(Parts(name)) = Reverse(host)
  PROVE  name = host
<1>1. /\ Parts(name) \in Seq(S \union {"*"}) /\ Len(Parts(name)) = Len(name)
      /\ Len(name) \in Nat /\ DOMAIN host = 1 .. Len(host)
  BY PartsOfName, LenProperties
<1>2. Parts(name) = host
  BY <1>1, ReverseTwice
<1>3. ASSUME NEW i \in 1 .. Len(name)
      PROVE  name[i] = host[i]
  <2>1. host[i] # "*"
    BY <1>1, <1>2 DEF NoWildcard
  <2> QED
    BY <1>2, <2>1, PartsOfName, Zenon
<1>4. name \in Seq(S \union R) /\ host \in Seq(S \union R)
  BY SeqMonotonic
<1> QED
  BY <1>1, <1>2, <1>3, <1>4, SeqEqual

\* The search for a name whose path is a node ends there.
LEMMA FoundAtNode ==
  ASSUME NEW t, NEW S, NEW name \in Seq(S), Reverse(name) \in DOMAIN t
  PROVE  find(t, name) = t[Reverse(name)]
<1> DEFINE path == Reverse(name)
           reached == { n \in 0 .. Len(path) : SubSeq(path, 1, n) \in DOMAIN t }
<1>1. path \in Seq(S) /\ SubSeq(path, 1, Len(path)) = path
  BY ReverseTwice, SubSeqFull
<1>2. Len(path) \in Nat
  BY <1>1, LenProperties
<1> HIDE DEF path
<1>3. Len(path) \in 0 .. Len(path)
  BY <1>2
<1>4. path \in DOMAIN t
  BY DEF path
<1>5. Len(path) \in reached
  BY <1>1, <1>3, <1>4
<1>6. reached \subseteq 0 .. Len(path)
  OBVIOUS
<1> HIDE DEF reached
<1>7. \A n \in reached : n \in Nat /\ Len(path) >= n
  BY <1>2, <1>6
<1>8. Max(reached) \in reached /\ \A n \in reached : Max(reached) >= n
  BY <1>5, <1>7 DEF Max
<1>9. Max(reached) = Len(path)
  BY <1>2, <1>5, <1>7, <1>8
<1> QED
  BY <1>1, <1>9 DEF find, path, reached

\* The path of a name that is added is a node.
LEMMA OwnPrefix ==
  ASSUME NEW t, NEW sets, NEW names, NEW name \in names, NEW S, name \in Seq(S)
  PROVE  /\ Reverse(Parts(name)) \in DOMAIN addApplication(t, names, sets)
         /\ addApplication(t, names, sets)[Reverse(Parts(name))] = sets
<1> DEFINE path == Reverse(Parts(name))
<1>1. path \in Seq(S \union {"*"})
  BY PartsOfName, ReverseTwice
<1> HIDE DEF path
<1>2. SubSeq(path, 1, Len(path)) = path /\ Len(path) \in Nat
  BY <1>1, SubSeqFull, LenProperties
<1>3. Len(path) \in 0 .. Len(path)
  BY <1>2
<1>4. path \in Prefixes(path)
  BY <1>2, <1>3, Zenon DEF Prefixes
<1> QED
  BY <1>4, Zenon DEF addApplication, path

\* A host that was added is found with the application it was added for.
THEOREM FoundWhenAdded ==
  ASSUME NEW t, NEW sets, NEW names, NEW name \in names, NEW S, name \in Seq(S),
         \A i \in 1 .. Len(name) - 1 : name[i] # ""
  PROVE  find(addApplication(t, names, sets), name) = sets
<1>1. Parts(name) = name
  BY PartsOfPlain
<1> DEFINE grown == addApplication(t, names, sets)
<1>2. Reverse(name) \in DOMAIN grown /\ grown[Reverse(name)] = sets
  <2>1. Reverse(Parts(name)) \in DOMAIN grown /\ grown[Reverse(Parts(name))] = sets
    BY OwnPrefix
  <2> QED
    BY <1>1, <2>1
<1> HIDE DEF grown
<1>3. find(grown, name) = sets
  BY <1>2, FoundAtNode
<1> QED
  BY <1>3 DEF grown

\* A host that is in the tree keeps its application when other names are added, whatever
\* these names are.
THEOREM OthersAreKept ==
  ASSUME NEW t, NEW sets, NEW names, NEW S, NEW R, \A name \in names : name \in Seq(R),
         NEW other \in Seq(S), Reverse(other) \in DOMAIN t,
         \A name \in names : other # Parts(name)
  PROVE  find(addApplication(t, names, sets), other) = find(t, other)
<1> DEFINE grown == addApplication(t, names, sets)
<1>1. ASSUME NEW name \in names
      PROVE  Reverse(other) # Reverse(Parts(name))
  <2>1. Parts(name) \in Seq(R \union {"*"})
    BY PartsOfName
  <2>2. Reverse(Reverse(Parts(name))) = Parts(name) /\ Reverse(Reverse(other)) = other
    BY <2>1, ReverseTwice
  <2> QED
    BY <2>2
<1>2. Reverse(other) \in DOMAIN grown /\ grown[Reverse(other)] = t[Reverse(other)]
  BY <1>1, Zenon DEF addApplication
<1> QED
  BY <1>2, FoundAtNode

-----------------------------------------------------------------------------
\* The tree over the runs.  What is in it is an application that was made.
Ports == { PortNumber[token] : token \in DOMAIN PortNumber }

MadeTyped ==
  /\ run \in Nat \ {0} /\ \E S : made \in Seq(S)
  /\ \A a \in DOMAIN made : /\ made[a].ports \subseteq Ports /\ made[a].tls \subseteq Ports
                            /\ made[a].run \in 1 .. run

TreeHoldsMade ==
  /\ \A node \in DOMAIN tree : tree[node] \in 0 .. Len(made)
  /\ waiting \subseteq DOMAIN made

\* A name leads to the application it belongs to or to a later one of the same name.
NamesLead ==
  \A a \in DOMAIN made : \A host \in Hosts(a) : NoWildcard(host) =>
    /\ Reverse(host) \in DOMAIN tree
    /\ tree[Reverse(host)] >= a /\ host \in Hosts(tree[Reverse(host)])

\* The pairs of credentials belong to TLS ports of applications.
PairsTyped ==
  /\ freed \in Seq(Nat)
  /\ \A port \in DOMAIN tlsData : /\ tlsData[port] \in DOMAIN freed
                                  /\ \E a \in DOMAIN made : port \in made[a].tls

\* No application of an earlier run has a TLS port, and none has two.
First   == \A a \in DOMAIN made : made[a].run = run \/ made[a].tls = {}
OnePort == \A a \in DOMAIN made : Cardinality(made[a].tls) <= 1

BeforePorts == {"init", "load", "server", "mimes", "apps"}

PairsFresh ==
  First =>
    /\ pc \in BeforePorts => DOMAIN tlsData = {}
    /\ pc \in {"ports", "running"} =>
         /\ DOMAIN tlsData \subseteq { l.port : l \in listeners }
         /\ \A port \in DOMAIN tlsData : freed[tlsData[port]] = 0

\* A listener is there for a pair of credentials or for a plain port, and the pairs of a
\* first run are those of the applications whose credentials it loaded.
Opened == {"ports", "running"}
PairsFit ==
  /\ certified \subseteq DOMAIN made
  /\ pc \notin Opened => listeners = {}
  /\ \A l \in listeners : /\ l \in BoundTo(l.port)
                          /\ l.port \in DOMAIN tlsData \/ \E a \in DOMAIN made : l.port \in made[a].ports
  /\ First /\ pc \in Opened => \A port \in DOMAIN tlsData : \E a \in certified : port \in made[a].tls

PairsApart ==
  First /\ OnePort =>
    /\ \A p, q \in DOMAIN tlsData : tlsData[p] = tlsData[q] => p = q
    /\ \A c \in DOMAIN freed : freed[c] <= 1

StartInv ==
  MadeTyped /\ TreeHoldsMade /\ NamesLead /\ PairsTyped /\ PairsFresh /\ PairsFit /\ PairsApart

LEMMA PortsFinite == IsFiniteSet(Ports) /\ \A port \in Ports : port # 0
<1>1. IsFiniteSet(DOMAIN PortNumber)
  BY PortsAssumption
<1>1a. \A token \in DOMAIN PortNumber : PortNumber[token] # 0
  BY PortsAssumption
<1> DEFINE number == [token \in DOMAIN PortNumber |-> PortNumber[token]]
<1>2. number \in Surjection(DOMAIN PortNumber, Ports)
  BY DEF Surjection, Ports
<1>3. IsFiniteSet(Ports)
  BY <1>1, <1>2, FS_Surjection DEF ExistsSurjection
<1>4. \A port \in Ports : port # 0
  BY <1>1a, Zenon DEF Ports
<1> QED
  BY <1>3, <1>4

LEMMA StartInit == Init => StartInv
<1> SUFFICES ASSUME Init PROVE StartInv
  OBVIOUS
<1> USE DEF Init
<1>1. made = <<>> /\ made \in Seq({}) /\ DOMAIN made = {} /\ Len(made) = 0
  BY EmptySeq
<1>2. freed = <<>> /\ freed \in Seq(Nat) /\ DOMAIN freed = {}
  BY EmptySeq
<1>3. DOMAIN tlsData = {}
  BY DEF NoCredentials
<1>4. MadeTyped /\ NamesLead
  BY <1>1 DEF MadeTyped, NamesLead
<1>5. TreeHoldsMade
  BY <1>1 DEF TreeHoldsMade, NewTree, None
<1>6. PairsTyped /\ PairsFresh /\ PairsFit /\ PairsApart
  BY <1>2, <1>3 DEF PairsTyped, PairsFresh, PairsFit, Opened, PairsApart
<1> QED
  BY <1>4, <1>5, <1>6 DEF StartInv

\* The steps of the parser, and those that make no application.
LEMMA StartUnmoved ==
  ASSUME StartInv, UNCHANGED <<run, made, tree, opened>>,
         \/ pc \in BeforePorts /\ pc' \in BeforePorts \union {"ended", "terminated"}
         \/ pc = "ports" /\ pc' = "running"
         \/ pc' = pc
  PROVE  StartInv'
<1> USE DEF opened
<1>1. MadeTyped' /\ TreeHoldsMade' /\ PairsTyped'
  BY DEF StartInv, MadeTyped, TreeHoldsMade, PairsTyped
<1>2. NamesLead'
  BY DEF StartInv, NamesLead, Hosts
<1>3. PairsFresh' /\ PairsApart'
  BY DEF StartInv, PairsFresh, PairsApart, First, OnePort, BeforePorts
<1>4. PairsFit'
  BY DEF StartInv, PairsFresh, PairsFit, Opened, First, BeforePorts, BoundTo, SinPort
<1> QED
  BY <1>1, <1>2, <1>3, <1>4 DEF StartInv

\* An application is made, and every name of it is put into the tree.
LEMMA Grown ==
  ASSUME NEW S, NEW s \in Seq(S), NEW e
  PROVE  /\ \E R : Append(s, e) \in Seq(R)
         /\ Len(s) \in Nat /\ DOMAIN s = 1 .. Len(s)
         /\ Len(Append(s, e)) = Len(s) + 1 /\ DOMAIN Append(s, e) = 1 .. Len(s) + 1
         /\ \A i \in 1 .. Len(s) : Append(s, e)[i] = s[i]
         /\ Append(s, e)[Len(s) + 1] = e
<1>1. s \in Seq(S \union {e})
  BY SeqMonotonic, Zenon
<1>2. /\ Append(s, e) \in Seq(S \union {e})
      /\ Len(s) \in Nat /\ Len(Append(s, e)) = Len(s) + 1
      /\ \A i \in 1 .. Len(s) : Append(s, e)[i] = s[i]
      /\ Append(s, e)[Len(s) + 1] = e
  BY <1>1, AppendProperties, LenProperties
<1> QED
  BY <1>2, LenProperties

LEMMA HostsAreNames ==
  ASSUME NEW value, NEW host \in HostNames(value)
  PROVE  \E S : host \in Seq(S)
<1>1. << "" >> \in Seq({""})
  OBVIOUS
<1>2. ASSUME NEW word PROVE \E S : NameParts(word) \in Seq(S)
  <2>1. CASE word \in DOMAIN DottedNames
    BY <2>1, StartupAssumption DEF NameParts
  <2>2. CASE word \notin DOMAIN DottedNames
    <3>1. NameParts(word) = <<word>> /\ <<word>> \in Seq({word})
      BY <2>2 DEF NameParts
    <3> QED
      BY <3>1
  <2> QED
    BY <2>1, <2>2
<1>3. host = << "" >> \/ \E word : host = NameParts(word)
  BY DEF HostNames
<1> QED
  BY <1>1, <1>2, <1>3, Zenon

LEMMA MadeStep ==
  ASSUME StartInv, NEW params,
         pc = "apps", pc' = "apps", UNCHANGED <<run, opened>>,
         made' = Append(made, Settings(params)),
         tree' = addApplication(tree, HostNames(Values(params, "server_name")[1]), Len(made'))
  PROVE  StartInv'
<1> DEFINE names == HostNames(Values(params, "server_name")[1])
<1> USE DEF opened
<1>1. PICK S : made \in Seq(S)
  BY DEF StartInv, MadeTyped
<1>0. PICK n : n = Len(made)
  OBVIOUS
<1>2. /\ \E R : made' \in Seq(R)
      /\ n \in Nat /\ DOMAIN made = 1 .. n
      /\ Len(made') = n + 1 /\ DOMAIN made' = 1 .. n + 1
      /\ \A i \in 1 .. n : made'[i] = made[i]
      /\ made'[n + 1] = Settings(params)
  <2> DEFINE e == Settings(params)
  <2>1. made' = Append(made, e)
    OBVIOUS
  <2> HIDE DEF e
  <2>2. /\ \E R : Append(made, e) \in Seq(R)
        /\ n \in Nat /\ DOMAIN made = 1 .. n
        /\ Len(Append(made, e)) = n + 1 /\ DOMAIN Append(made, e) = 1 .. n + 1
        /\ \A i \in 1 .. n : Append(made, e)[i] = made[i]
        /\ Append(made, e)[n + 1] = e
    BY <1>0, <1>1, Grown
  <2>3. /\ \E R : made' \in Seq(R)
        /\ n \in Nat /\ DOMAIN made = 1 .. n
        /\ Len(made') = n + 1 /\ DOMAIN made' = 1 .. n + 1
        /\ \A i \in 1 .. n : made'[i] = made[i]
        /\ made'[n + 1] = e
    BY <2>1, <2>2, Zenon
  <2> QED
    BY <2>3 DEF e
<1>3. /\ Settings(params).ports \subseteq Ports /\ Settings(params).tls \subseteq Ports
      /\ Settings(params).run = run /\ Settings(params).server = params
  BY DEF Settings, ListedPorts, Ports
<1>4. \A a \in DOMAIN made' : a \in DOMAIN made \/ a = n + 1
  BY <1>2
<1>5. \A a \in DOMAIN made : a \in DOMAIN made' /\ made'[a] = made[a] /\ a <= n + 1
  BY <1>2
<1>6. MadeTyped'
  BY <1>2, <1>3, <1>4, <1>5 DEF StartInv, MadeTyped
<1>7. /\ Hosts(n + 1)' = names
      /\ \A a \in DOMAIN made : Hosts(a)' = Hosts(a)
  BY <1>2, <1>3, <1>5 DEF Hosts
<1> HIDE DEF names
<1>8. \A node \in DOMAIN tree : node \in DOMAIN tree' /\ tree'[node] \in {tree[node], n + 1}
  BY <1>2, Zenon DEF addApplication, names
<1>9. TreeHoldsMade'
  <2>1. \A node \in DOMAIN tree' : tree'[node] \in {n + 1, None} \/ (node \in DOMAIN tree /\ tree'[node] = tree[node])
    BY <1>2, Zenon DEF addApplication, names
  <2>2. \A node \in DOMAIN tree' : tree'[node] \in 0 .. n + 1
    BY <2>1, <1>0, <1>2 DEF StartInv, TreeHoldsMade, None
  <2> QED
    BY <2>2, <1>2, <1>5 DEF StartInv, TreeHoldsMade
<1>10. NamesLead'
  <2> SUFFICES ASSUME NEW a \in DOMAIN made', NEW host \in Hosts(a)', NoWildcard(host)
               PROVE  /\ Reverse(host) \in DOMAIN tree'
                      /\ tree'[Reverse(host)] >= a /\ host \in Hosts(tree[Reverse(host)])'
    BY DEF NamesLead
  <2>1. PICK R : host \in Seq(R)
    BY HostsAreNames DEF Hosts
  <2>2. CASE \E name \in names : Reverse(Parts(name)) = Reverse(host)
    <3>1. PICK name \in names : Reverse(Parts(name)) = Reverse(host)
      BY <2>2
    <3>2. PICK Q : name \in Seq(Q)
      BY HostsAreNames DEF names
    <3>3. name = host
      BY <2>1, <3>1, <3>2, PathIsName
    <3>4. Reverse(host) \in DOMAIN tree' /\ tree'[Reverse(host)] = n + 1
      BY <3>1, <3>2, <1>2, OwnPrefix DEF names
    <3> QED
      BY <3>3, <3>4, <1>2, <1>4, <1>5, <1>7
  <2>3. CASE ~ \E name \in names : Reverse(Parts(name)) = Reverse(host)
    <3>1. a # n + 1
      <4>1. CASE host \in names
        <5>1. Parts(host) = host
          <6>1. DOMAIN host = 1 .. Len(host) /\ Len(host) \in Nat
            BY <2>1, LenProperties
          <6>2. \A i \in 1 .. Len(host) - 1 : i \in DOMAIN host
            BY <6>1
          <6>3. \A i \in 1 .. Len(host) - 1 : host[i] # ""
            BY <6>2, Zenon DEF NoWildcard
          <6> QED
            BY <6>3, <2>1, PartsOfPlain
        <5> QED
          BY <5>1, <4>1, <2>3
      <4>2. CASE host \notin names
        BY <4>2, <1>7
      <4> QED
        BY <4>1, <4>2
    <3>2. a \in DOMAIN made /\ host \in Hosts(a)
      BY <3>1, <1>4, <1>7
    <3>3. /\ Reverse(host) \in DOMAIN tree
          /\ tree[Reverse(host)] >= a /\ host \in Hosts(tree[Reverse(host)])
      BY <3>2 DEF StartInv, NamesLead
    <3>4. Reverse(host) \in DOMAIN tree' /\ tree'[Reverse(host)] = tree[Reverse(host)]
      BY <3>3, <2>3, Zenon DEF addApplication, names
    <3>5. tree[Reverse(host)] \in DOMAIN made
      <4>1. tree[Reverse(host)] \in 0 .. n /\ a \in 1 .. n
        BY <3>2, <3>3, <1>0, <1>2 DEF StartInv, TreeHoldsMade
      <4> QED
        BY <4>1, <3>3, <1>2
    <3> QED
      BY <3>3, <3>4, <3>5, <1>7
  <2> QED
    BY <2>2, <2>3
<1>11. (First' => First) /\ (OnePort' => OnePort)
  BY <1>5 DEF First, OnePort
<1>12. PairsTyped'
  BY <1>5 DEF StartInv, PairsTyped
<1>13. PairsFresh' /\ PairsApart'
  BY <1>11 DEF StartInv, PairsFresh, PairsApart, BeforePorts
<1>14. PairsFit'
  <2>1. certified' \subseteq DOMAIN made'
    BY <1>5 DEF StartInv, PairsFit
  <2>2. listeners' = {}
    BY DEF StartInv, PairsFit, Opened
  <2> QED
    BY <2>1, <2>2 DEF PairsFit, Opened
<1> QED
  BY <1>6, <1>9, <1>10, <1>12, <1>13, <1>14 DEF StartInv

\* The ports are opened for the applications that are in the tree.
LEMMA PortsBegin ==
  ASSUME StartInv, AddApplicationsEnd
  PROVE  StartInv'
<1> USE DEF AddApplicationsEnd
<1>1. MadeTyped' /\ PairsTyped'
  BY DEF StartInv, MadeTyped, PairsTyped
<1>2. NamesLead'
  BY DEF StartInv, NamesLead, Hosts
<1>3. TreeHoldsMade'
  <2>1. \A a \in waiting' : a \in 0 .. Len(made) /\ a # 0
    BY DEF StartInv, TreeHoldsMade, collectApplicationSettings, None
  <2>2. PICK S : made \in Seq(S)
    BY DEF StartInv, MadeTyped
  <2>3. Len(made) \in Nat /\ DOMAIN made = 1 .. Len(made)
    BY <2>2, LenProperties
  <2>4. waiting' \subseteq DOMAIN made
    BY <2>1, <2>3
  <2> QED
    BY <2>4 DEF StartInv, TreeHoldsMade
<1>4. PairsFresh' /\ PairsApart'
  BY DEF StartInv, PairsFresh, PairsApart, First, OnePort, BeforePorts
<1>5. PairsFit'
  BY DEF StartInv, PairsFresh, PairsFit, Opened, First, BeforePorts, BoundTo, SinPort
<1> QED
  BY <1>1, <1>2, <1>3, <1>4, <1>5 DEF StartInv

\* A set of at most one element.
LEMMA AtMostOne ==
  ASSUME NEW T, IsFiniteSet(T), Cardinality(T) <= 1, NEW x \in T, NEW y \in T
  PROVE  x = y
<1> SUFFICES ASSUME x # y PROVE FALSE
  OBVIOUS
<1>1. {x, y} \subseteq T
  OBVIOUS
<1>2. Cardinality({x, y}) = 2
  <2>1. IsFiniteSet({x}) /\ Cardinality({x}) = 1
    BY FS_Singleton
  <2>2. Cardinality({x} \union {y}) = 2
    BY <2>1, FS_AddElement
  <2>3. {x} \union {y} = {x, y}
    OBVIOUS
  <2> QED
    BY <2>2, <2>3
<1>3. Cardinality({x, y}) <= Cardinality(T) /\ Cardinality(T) \in Nat
  BY <1>1, FS_Subset, FS_CardinalityType
<1> QED
  BY <1>2, <1>3

\* What a bind adds listens for one of the ports that are asked for.
LEMMA BindableFits ==
  ASSUME NEW ports, NEW taken, NEW open \in Bindable(ports, taken), NEW l \in open
  PROVE  l.port \in ports /\ l \in BoundTo(l.port)
<1>1. PICK port \in ports : l \in BoundTo(port)
  BY DEF Bindable
<1>2. l.port = port
  BY <1>1 DEF BoundTo
<1> QED
  BY <1>1, <1>2

\* One application's ports: it gets a pair of its own.
LEMMA PortsStep ==
  ASSUME StartInv, InitAppPorts
  PROVE  StartInv'
<1>1. PICK a \in waiting : \E tls \in {FALSE, made[a].tls # {}} :
     \E opens \in Bindable(IF tls THEN made[a].tls ELSE {}, listeners) :
     \E plain \in Bindable(made[a].ports, listeners \union opens) :
       /\ waiting' = waiting \ {a}
       /\ listeners' = listeners \union opens \union plain
       /\ freed' = IF tls THEN Append(freed, 0) ELSE freed
       /\ certified' = IF tls THEN certified \union {a} ELSE certified
       /\ tlsData' = [port \in DOMAIN tlsData \union { l.port : l \in opens } |->
                        IF port \in DOMAIN tlsData THEN tlsData[port] ELSE Len(freed')]
  BY Zenon DEF InitAppPorts
<1>20. PICK tls \in {FALSE, made[a].tls # {}} :
     \E opens \in Bindable(IF tls THEN made[a].tls ELSE {}, listeners) :
     \E plain \in Bindable(made[a].ports, listeners \union opens) :
       /\ waiting' = waiting \ {a}
       /\ listeners' = listeners \union opens \union plain
       /\ freed' = IF tls THEN Append(freed, 0) ELSE freed
       /\ certified' = IF tls THEN certified \union {a} ELSE certified
       /\ tlsData' = [port \in DOMAIN tlsData \union { l.port : l \in opens } |->
                        IF port \in DOMAIN tlsData THEN tlsData[port] ELSE Len(freed')]
  BY <1>1, Zenon
<1>21. PICK opens \in Bindable(IF tls THEN made[a].tls ELSE {}, listeners) :
     \E plain \in Bindable(made[a].ports, listeners \union opens) :
       /\ waiting' = waiting \ {a}
       /\ listeners' = listeners \union opens \union plain
       /\ freed' = IF tls THEN Append(freed, 0) ELSE freed
       /\ certified' = IF tls THEN certified \union {a} ELSE certified
       /\ tlsData' = [port \in DOMAIN tlsData \union { l.port : l \in opens } |->
                        IF port \in DOMAIN tlsData THEN tlsData[port] ELSE Len(freed')]
  BY <1>20, Zenon
<1>22. PICK plain \in Bindable(made[a].ports, listeners \union opens) :
       /\ waiting' = waiting \ {a}
       /\ listeners' = listeners \union opens \union plain
       /\ freed' = IF tls THEN Append(freed, 0) ELSE freed
       /\ certified' = IF tls THEN certified \union {a} ELSE certified
       /\ tlsData' = [port \in DOMAIN tlsData \union { l.port : l \in opens } |->
                        IF port \in DOMAIN tlsData THEN tlsData[port] ELSE Len(freed')]
  BY <1>21, Zenon
<1>23. PICK secure : secure = { l.port : l \in opens }
  OBVIOUS
<1>2. UNCHANGED <<pc, run, config, parsed, known, made, tree>> /\ pc = "ports"
  BY DEF InitAppPorts
<1>24. tls \in BOOLEAN
  BY <1>20
<1>25. \A l \in opens : tls /\ l.port \in made[a].tls /\ l \in BoundTo(l.port)
  BY <1>21, <1>24, BindableFits
<1>26. \A l \in plain : l.port \in made[a].ports /\ l \in BoundTo(l.port)
  BY <1>22, BindableFits
<1>3. /\ secure \subseteq made[a].tls /\ secure \subseteq { l.port : l \in listeners' }
      /\ secure # {} => tls
      /\ tlsData' = [port \in DOMAIN tlsData \union secure |->
                       IF port \in DOMAIN tlsData THEN tlsData[port] ELSE Len(freed')]
  BY <1>22, <1>23, <1>25
<1>4. listeners \subseteq listeners' /\ waiting' \subseteq waiting
  BY <1>22
<1>5. a \in DOMAIN made
  BY DEF StartInv, TreeHoldsMade
<1>6. freed \in Seq(Nat)
  BY DEF StartInv, PairsTyped
<1>7. PICK n : n = Len(freed')
  OBVIOUS
<1>8. /\ freed' \in Seq(Nat) /\ DOMAIN freed' = 1 .. n /\ DOMAIN freed \subseteq DOMAIN freed'
      /\ \A c \in DOMAIN freed : freed'[c] = freed[c]
      /\ \A c \in DOMAIN freed' \ DOMAIN freed : freed'[c] = 0
      /\ tls => n \in DOMAIN freed' /\ n \notin DOMAIN freed /\ freed'[n] = 0
  <2>1. CASE tls
    <3>1. freed' = Append(freed, 0)
      BY <1>22, <2>1
    <3> QED
      BY <3>1, <1>6, <1>7
  <2>2. CASE ~tls
    <3>1. freed' = freed
      BY <1>22, <2>2
    <3> QED
      BY <3>1, <1>6, <1>7, <2>2
  <2> QED
    BY <2>1, <2>2
<1>9. /\ DOMAIN tlsData' = DOMAIN tlsData \union secure
      /\ \A port \in DOMAIN tlsData : tlsData'[port] = tlsData[port]
      /\ \A port \in secure \ DOMAIN tlsData : tlsData'[port] = n
  BY <1>3, <1>7
<1>10. MadeTyped' /\ TreeHoldsMade'
  BY <1>2, <1>4 DEF StartInv, MadeTyped, TreeHoldsMade
<1>11. NamesLead'
  BY <1>2 DEF StartInv, NamesLead, Hosts
<1>12. PairsTyped'
  BY <1>2, <1>3, <1>5, <1>8, <1>9 DEF StartInv, PairsTyped
<1>13. (First' <=> First) /\ (OnePort' <=> OnePort)
  BY <1>2 DEF First, OnePort
<1>14. PairsFresh'
  <2> SUFFICES ASSUME First
               PROVE  /\ DOMAIN tlsData' \subseteq { l.port : l \in listeners' }
                      /\ \A port \in DOMAIN tlsData' : freed'[tlsData'[port]] = 0
    BY <1>2, <1>13 DEF PairsFresh, BeforePorts
  <2>1. /\ DOMAIN tlsData \subseteq { l.port : l \in listeners }
        /\ \A port \in DOMAIN tlsData : freed[tlsData[port]] = 0 /\ tlsData[port] \in DOMAIN freed
    BY <1>2 DEF StartInv, PairsFresh, PairsTyped
  <2> QED
    BY <2>1, <1>3, <1>4, <1>8, <1>9
<1>15. PairsApart'
  <2> SUFFICES ASSUME First, OnePort
               PROVE  /\ \A p, q \in DOMAIN tlsData' : tlsData'[p] = tlsData'[q] => p = q
                      /\ \A c \in DOMAIN freed' : freed'[c] <= 1
    BY <1>13 DEF PairsApart
  <2>1. /\ \A p, q \in DOMAIN tlsData : tlsData[p] = tlsData[q] => p = q
        /\ \A c \in DOMAIN freed : freed[c] <= 1
        /\ \A port \in DOMAIN tlsData : tlsData[port] \in DOMAIN freed
    BY DEF StartInv, PairsApart, PairsTyped
  <2>2. \A p, q \in secure : p = q
    <3>1. IsFiniteSet(made[a].tls)
      BY <1>5, FS_Subset, PortsFinite DEF StartInv, MadeTyped
    <3>2. Cardinality(made[a].tls) <= 1
      BY <1>5 DEF OnePort
    <3> QED
      BY <3>1, <3>2, <1>3, AtMostOne
  <2>3. \A p \in secure \ DOMAIN tlsData : tlsData'[p] \notin DOMAIN freed
    BY <1>3, <1>8, <1>9
  <2>4. \A p, q \in DOMAIN tlsData' : tlsData'[p] = tlsData'[q] => p = q
    BY <2>1, <2>2, <2>3, <1>9
  <2>5. \A c \in DOMAIN freed' : freed'[c] <= 1
    BY <2>1, <1>8
  <2> QED
    BY <2>4, <2>5
<1>16. PairsFit'
  <2>1. certified' \subseteq DOMAIN made'
    BY <1>2, <1>5, <1>22 DEF StartInv, PairsFit
  <2>2. ASSUME NEW l \in listeners'
        PROVE  /\ l \in BoundTo(l.port)
               /\ l.port \in DOMAIN tlsData' \/ \E b \in DOMAIN made : l.port \in made[b].ports
    <3>1. CASE l \in listeners
      BY <3>1, <1>9 DEF StartInv, PairsFit
    <3>2. CASE l \in opens
      BY <3>2, <1>9, <1>23, <1>25
    <3>3. CASE l \in plain
      BY <3>3, <1>5, <1>26
    <3> QED
      BY <3>1, <3>2, <3>3, <1>22
  <2>3. ASSUME First, NEW port \in DOMAIN tlsData'
        PROVE  \E b \in certified' : port \in made[b].tls
    <3>1. CASE port \in DOMAIN tlsData
      BY <2>3, <3>1, <1>2, <1>22 DEF StartInv, PairsFit, Opened
    <3>2. CASE port \in secure
      BY <3>2, <1>3, <1>22
    <3> QED
      BY <3>1, <3>2, <1>9
  <2>4. \A port : BoundTo(port)' = BoundTo(port)
    BY DEF BoundTo, SinPort
  <2> QED
    BY <2>1, <2>2, <2>3, <2>4, <1>2, <1>13 DEF PairsFit, Opened
<1> QED
  BY <1>10, <1>11, <1>12, <1>14, <1>15, <1>16 DEF StartInv

\* What tls_data holds is freed, every pair once.
LEMMA ClearStep ==
  ASSUME StartInv, Clear
  PROVE  StartInv'
<1> USE DEF Clear
<1>1. MadeTyped' /\ TreeHoldsMade'
  BY DEF StartInv, MadeTyped, TreeHoldsMade
<1>2. NamesLead'
  BY DEF StartInv, NamesLead, Hosts
<1> DEFINE held(c) == { p \in DOMAIN tlsData : tlsData[p] = c }
<1>3. freed \in Seq(Nat)
  BY DEF StartInv, PairsTyped
<1>4. DOMAIN tlsData \subseteq Ports
  BY DEF StartInv, PairsTyped, MadeTyped
<1>5. \A c : IsFiniteSet(held(c)) /\ Cardinality(held(c)) \in Nat
  <2> TAKE c
  <2>1. held(c) \subseteq Ports
    BY <1>4
  <2> QED
    BY <2>1, FS_Subset, FS_CardinalityType, PortsFinite
<1>6. freed' = [c \in DOMAIN freed |-> freed[c] + Cardinality(held(c))]
  BY DEF Free
<1>7. \A c : (\A p \in DOMAIN tlsData : tlsData[p] # c) => Cardinality(held(c)) = 0
  BY FS_EmptySet
<1>8. \A c : (\A p, q \in DOMAIN tlsData : tlsData[p] = tlsData[q] => p = q)
             => Cardinality(held(c)) <= 1
  <2> SUFFICES ASSUME NEW c, \A p, q \in DOMAIN tlsData : tlsData[p] = tlsData[q] => p = q
               PROVE  Cardinality(held(c)) <= 1
    OBVIOUS
  <2>1. CASE \A p \in DOMAIN tlsData : tlsData[p] # c
    <3>1. Cardinality(held(c)) = 0
      BY <2>1, <1>7, Zenon
    <3> QED
      BY <3>1
  <2>2. CASE \E p \in DOMAIN tlsData : tlsData[p] = c
    <3>1. PICK p \in DOMAIN tlsData : tlsData[p] = c
      BY <2>2
    <3>2. held(c) = {p}
      BY <3>1
    <3>3. Cardinality({p}) = 1
      BY FS_Singleton
    <3> QED
      BY <3>2, <3>3
  <2> QED
    BY <2>1, <2>2
<1> HIDE DEF held
<1>9. freed' \in Seq(Nat) /\ DOMAIN freed' = DOMAIN freed
  <2>1. DOMAIN freed = 1 .. Len(freed) /\ Len(freed) \in Nat /\ \A c \in DOMAIN freed : freed[c] \in Nat
    BY <1>3
  <2>2. freed' \in [1 .. Len(freed) -> Nat]
    BY <2>1, <1>5, <1>6
  <2> QED
    BY <2>1, <2>2, <1>6
<1>10. PairsTyped'
  BY <1>9 DEF StartInv, PairsTyped
<1>11. PairsFresh'
  BY DEF PairsFresh, BeforePorts
<1>12. PairsApart'
  <2> SUFFICES ASSUME First, OnePort
               PROVE  /\ \A p, q \in DOMAIN tlsData : tlsData[p] = tlsData[q] => p = q
                      /\ \A c \in DOMAIN freed : freed'[c] <= 1
    BY <1>9 DEF PairsApart, First, OnePort
  <2>1. /\ \A p, q \in DOMAIN tlsData : tlsData[p] = tlsData[q] => p = q
        /\ \A c \in DOMAIN freed : freed[c] <= 1 /\ freed[c] \in Nat
    BY <1>3 DEF StartInv, PairsApart
  <2>2. \A port \in DOMAIN tlsData : freed[tlsData[port]] = 0
    BY DEF StartInv, PairsFresh
  <2>3. ASSUME NEW c \in DOMAIN freed PROVE freed'[c] <= 1
    <3>1. freed'[c] = freed[c] + Cardinality(held(c))
      BY <1>6
    <3>2. CASE \A p \in DOMAIN tlsData : tlsData[p] # c
      BY <3>1, <3>2, <2>1, <1>7
    <3>3. CASE \E p \in DOMAIN tlsData : tlsData[p] = c
      BY <3>1, <3>3, <2>1, <2>2, <1>5, <1>8
    <3> QED
      BY <3>2, <3>3
  <2> QED
    BY <2>1, <2>3
<1>13. PairsFit'
  BY DEF PairsFit, Opened
<1> QED
  BY <1>1, <1>2, <1>10, <1>11, <1>12, <1>13 DEF StartInv

\* A restart leaves tls_data as it is: First says that it is empty.
LEMMA RestartStep ==
  ASSUME StartInv, Restart
  PROVE  StartInv'
<1> USE DEF Restart, opened
<1>1. MadeTyped'
  BY DEF StartInv, MadeTyped
<1>2. TreeHoldsMade' /\ PairsTyped'
  BY DEF StartInv, TreeHoldsMade, PairsTyped
<1>3. NamesLead'
  BY DEF StartInv, NamesLead, Hosts
<1>4. First' => \A a \in DOMAIN made : made[a].tls = {}
  <2>1. \A a \in DOMAIN made : made[a].run # run + 1
    BY DEF StartInv, MadeTyped
  <2> QED
    BY <2>1 DEF First
<1>5. First' => First /\ DOMAIN tlsData = {}
  BY <1>4 DEF First, StartInv, PairsTyped
<1>6. PairsFresh'
  BY <1>5 DEF PairsFresh
<1>7. PairsApart'
  BY <1>5 DEF StartInv, PairsApart, OnePort
<1>8. PairsFit'
  BY DEF StartInv, PairsFit, Opened
<1> QED
  BY <1>1, <1>2, <1>3, <1>6, <1>7, <1>8 DEF StartInv

LEMMA StartStep == StartInv /\ [Next]_vars => StartInv'
<1> SUFFICES ASSUME StartInv, [Next]_vars PROVE StartInv'
  OBVIOUS
<1>1. CASE LoadConfig \/ LoadParam \/ LoadBlock \/ ServerParam \/ ServerEnd \/ LoadEnd
           \/ ParseMimes \/ ParseMimesEnd
  <2>1. UNCHANGED <<run, made, tree, opened>>
    BY <1>1 DEF LoadConfig, LoadParam, LoadBlock, ServerParam, ServerEnd, LoadEnd, ParseMimes, ParseMimesEnd
  <2>2. pc \in BeforePorts /\ pc' \in BeforePorts \union {"ended", "terminated"}
    BY <1>1 DEF LoadConfig, LoadParam, LoadBlock, ServerParam, ServerEnd, LoadEnd, ParseMimes, ParseMimesEnd, BeforePorts
  <2> QED
    BY <2>1, <2>2, StartUnmoved
<1>2. CASE AddApplication
  <2> DEFINE params == Head(applications)
  <2>1. CASE /\ UNCHANGED <<run, made, tree, opened>>
             /\ pc = "apps" /\ pc' \in {"apps", "terminated"}
    BY <2>1, StartUnmoved DEF BeforePorts
  <2>2. CASE /\ pc = "apps" /\ pc' = "apps" /\ UNCHANGED <<run, opened>>
             /\ made' = Append(made, Settings(params))
             /\ tree' = addApplication(tree, HostNames(Values(params, "server_name")[1]), Len(made'))
    BY <2>2, MadeStep
  <2> HIDE DEF params
  <2> QED
    BY <1>2, <2>1, <2>2 DEF AddApplication, params
<1>3. CASE AddApplicationsEnd
  BY <1>3, PortsBegin
<1>4. CASE InitAppPorts
  BY <1>4, PortsStep
<1>5. CASE Start
  BY <1>5, StartUnmoved DEF Start
<1>6. CASE Clear
  BY <1>6, ClearStep
<1>7. CASE Restart
  BY <1>7, RestartStep
<1>8. CASE UNCHANGED vars
  BY <1>8, StartUnmoved DEF vars
<1> QED
  BY <1>1, <1>2, <1>3, <1>4, <1>5, <1>6, <1>7, <1>8 DEF Next, Server, Stopped

\* In every state of every run the tree leads to applications that were made, a listener is
\* there for a pair of credentials or for a plain port, at a port that bind may have given
\* it, and each pair belongs to a TLS port of an application.
THEOREM StartCorrect == Spec => []StartInv
<1> QED
  BY StartInit, StartStep, PTL DEF Spec

\* For all configurations, ports, byte orders and numbers of runs: tls_data has the ports of
\* the listeners that are listed under tls and no other port of a listener, its pairs are
\* valid and freed once, and a worker speaks TLS exactly where the port that bind gave is
\* such a port; where bind gives the port it is asked for, exactly where TLS is listed.
THEOREM CredentialsFit == Spec => []CredentialsFitPorts
<1>1. StartInv => CredentialsFitPorts
  <2> DEFINE agreed == \A a, b \in DOMAIN made : made[a].tls \cap made[b].ports = {}
             Listed(port) == \E a \in certified : port \in made[a].tls
  <2> SUFFICES ASSUME StartInv, First
               PROVE  /\ pc \in {"ports", "running"} =>
                           /\ DOMAIN tlsData \subseteq { l.port : l \in listeners }
                           /\ \A port \in DOMAIN tlsData : freed[tlsData[port]] = 0
                      /\ pc = "running" /\ agreed => \A l \in listeners :
                           /\ l.port \in DOMAIN tlsData <=> Listed(l.port)
                           /\ SpeaksTls(l) <=> \E k \in listeners : k.port = l.real /\ Listed(k.port)
                           /\ SinPort(l.port) = l.port => (SpeaksTls(l) <=> Listed(l.port))
                      /\ OnePort => \A c \in DOMAIN freed : freed[c] <= 1
    BY Zenon DEF CredentialsFitPorts, First, OnePort
  <2>1. pc \in {"ports", "running"} =>
          /\ DOMAIN tlsData \subseteq { l.port : l \in listeners }
          /\ \A port \in DOMAIN tlsData : freed[tlsData[port]] = 0
    BY DEF StartInv, PairsFresh
  <2>2. ASSUME pc = "running", agreed, NEW l \in listeners
        PROVE  /\ l.port \in DOMAIN tlsData <=> Listed(l.port)
               /\ SpeaksTls(l) <=> \E k \in listeners : k.port = l.real /\ Listed(k.port)
               /\ SinPort(l.port) = l.port => (SpeaksTls(l) <=> Listed(l.port))
    <3>1. \A k \in listeners : k.port \in DOMAIN tlsData <=> Listed(k.port)
      BY <2>2 DEF StartInv, PairsFit, Opened
    <3>2. SpeaksTls(l) <=> \E k \in listeners : k.port = l.real /\ Listed(k.port)
      BY <3>1, <2>1, <2>2 DEF SpeaksTls
    <3>3. ASSUME SinPort(l.port) = l.port PROVE l.real = l.port
      <4>1. l.port # 0
        <5>1. \E a \in DOMAIN made : l.port \in made[a].tls \union made[a].ports
          BY DEF StartInv, PairsFit, PairsTyped
        <5> QED
          BY <5>1, PortsFinite DEF StartInv, MadeTyped
      <4>2. l \in BoundTo(l.port)
        BY DEF StartInv, PairsFit
      <4> QED
        BY <3>3, <4>1, <4>2 DEF BoundTo
    <3> QED
      BY <3>1, <3>2, <3>3 DEF SpeaksTls
  <2>3. OnePort => \A c \in DOMAIN freed : freed[c] <= 1
    BY DEF StartInv, PairsApart
  <2> QED
    BY <2>1, <2>2, <2>3
<1> QED
  BY <1>1, StartCorrect, PTL

\* For all configurations and numbers of runs: an application is found under each of its
\* names without a wildcard, or a later one of that name is.
THEOREM HostsFound == Spec => []HostsAreFound
<1>1. StartInv => HostsAreFound
  <2> SUFFICES ASSUME StartInv, NEW a \in DOMAIN made, NEW host \in Hosts(a), NoWildcard(host)
               PROVE  find(tree, host) >= a /\ host \in Hosts(find(tree, host))
    BY DEF HostsAreFound
  <2>1. PICK S : host \in Seq(S)
    BY HostsAreNames DEF Hosts
  <2>2. /\ Reverse(host) \in DOMAIN tree
        /\ tree[Reverse(host)] >= a /\ host \in Hosts(tree[Reverse(host)])
    BY DEF StartInv, NamesLead
  <2>3. find(tree, host) = tree[Reverse(host)]
    BY <2>1, <2>2, FoundAtNode
  <2> QED
    BY <2>2, <2>3
<1> QED
  BY <1>1, StartCorrect, PTL

-----------------------------------------------------------------------------
(* What the parser keeps, up to the end of the module: first sequences that *)
(* are made piece by piece, then the text of a list of statements and the   *)
(* searches in it, and then a lemma for each action.  The text that is left *)
(* is always that of a list of statements (TextInv).  The inductions are    *)
(* over sets of numbers.                                                    *)

\* A set of numbers with 0 and the successor of each of its members has them all.
LEMMA NatSetInduction ==
  ASSUME NEW T \in SUBSET Nat, 0 \in T, \A n \in T : n + 1 \in T
  PROVE  T = Nat
<1> SUFFICES ASSUME T # Nat PROVE FALSE
  OBVIOUS
<1> DEFINE B == Nat \ T
<1>1. B \subseteq Nat /\ B # {}
  OBVIOUS
<1> HIDE DEF B
<1>2. PICK x \in B : \A y \in B : ~(<<y, x>> \in OpToRel(<, Nat))
  BY <1>1, NatLessThanWellFounded, WFMin
<1>3. x \in Nat /\ x # 0 /\ x - 1 \in Nat /\ x - 1 < x
  BY <1>1 DEF B
<1>4. <<x - 1, x>> \in OpToRel(<, Nat)
  BY <1>3 DEF OpToRel
<1>5. x - 1 \in T
  BY <1>3, <1>4, <1>2 DEF B
<1>6. x \in T
  BY <1>5, <1>3
<1> QED
  BY <1>6 DEF B

\* What FlattenSeq computes, from the left: the function it is defined by is there.
FlattenUpTo(seqs, f, n) == f = [i \in 1 .. n |-> IF i = 1 THEN seqs[i] ELSE f[i - 1] \o seqs[i]]

LEMMA FlattenExists ==
  ASSUME NEW seqs, NEW n \in Nat
  PROVE  \E f : FlattenUpTo(seqs, f, n)
<1> DEFINE T == { k \in Nat : \E f : FlattenUpTo(seqs, f, k) }
<1>1. 0 \in T
  <2>1. FlattenUpTo(seqs, <<>>, 0)
    BY DEF FlattenUpTo
  <2> QED
    BY <2>1
<1>2. ASSUME NEW k \in T PROVE k + 1 \in T
  <2>1. PICK f : FlattenUpTo(seqs, f, k)
    OBVIOUS
  <2> DEFINE g == [i \in 1 .. k + 1 |-> IF i = k + 1
                                        THEN (IF i = 1 THEN seqs[i] ELSE f[i - 1] \o seqs[i])
                                        ELSE f[i]]
  <2>2. \A i \in 1 .. k + 1 : i # 1 => i - 1 \in 1 .. k /\ g[i - 1] = f[i - 1]
    OBVIOUS
  <2>3. \A i \in 1 .. k : f[i] = IF i = 1 THEN seqs[i] ELSE f[i - 1] \o seqs[i]
    BY <2>1 DEF FlattenUpTo
  <2>4. \A i \in 1 .. k + 1 : g[i] = IF i = 1 THEN seqs[i] ELSE g[i - 1] \o seqs[i]
    BY <2>2, <2>3
  <2>5. FlattenUpTo(seqs, g, k + 1)
    BY <2>4 DEF FlattenUpTo
  <2> HIDE DEF g
  <2> QED
    BY <2>5
<1> HIDE DEF T
<1>3. T = Nat
  <2>1. T \subseteq Nat
    BY DEF T
  <2> QED
    BY <1>1, <1>2, <2>1, NatSetInduction
<1> QED
  BY <1>3 DEF T

\* One more sequence comes behind the others.
LEMMA FlattenUpToIs ==
  ASSUME NEW seqs, NEW n \in Nat, n = Len(seqs), n # 0
  PROVE  \E f : FlattenUpTo(seqs, f, n) /\ FlattenSeq(seqs) = f[n]
<1>1. \E f : FlattenUpTo(seqs, f, n)
  BY FlattenExists
<1> DEFINE flat == CHOOSE f : FlattenUpTo(seqs, f, n)
<1>2. FlattenUpTo(seqs, flat, n)
  BY <1>1, Zenon
<1>3. FlattenSeq(seqs) = flat[n]
  BY DEF FlattenSeq, FlattenUpTo
<1> QED
  BY <1>2, <1>3, Zenon

\* It only depends on the sequences up to that one.
LEMMA FlattenAgree ==
  ASSUME NEW s, NEW t, NEW f, NEW g, NEW m \in Nat, NEW n \in Nat, n <= m,
         FlattenUpTo(s, f, m), FlattenUpTo(t, g, n),
         \A i \in 1 .. n : s[i] = t[i]
  PROVE  \A k \in 1 .. n : f[k] = g[k]
<1> DEFINE T == { k \in Nat : k \in 1 .. n => f[k] = g[k] }
<1>1. 0 \in T
  OBVIOUS
<1>2. ASSUME NEW k \in T PROVE k + 1 \in T
  <2> SUFFICES ASSUME k + 1 \in 1 .. n PROVE f[k + 1] = g[k + 1]
    OBVIOUS
  <2>1. k + 1 \in 1 .. m /\ k + 1 \in 1 .. n /\ s[k + 1] = t[k + 1]
    OBVIOUS
  <2>2. /\ f[k + 1] = IF k + 1 = 1 THEN s[k + 1] ELSE f[(k + 1) - 1] \o s[k + 1]
        /\ g[k + 1] = IF k + 1 = 1 THEN t[k + 1] ELSE g[(k + 1) - 1] \o t[k + 1]
    BY <2>1 DEF FlattenUpTo
  <2>3. (k + 1) - 1 = k /\ (k + 1 # 1 => k \in 1 .. n)
    OBVIOUS
  <2> QED
    BY <2>1, <2>2, <2>3
<1> HIDE DEF T
<1>3. T = Nat
  <2>1. T \subseteq Nat
    BY DEF T
  <2> QED
    BY <1>1, <1>2, <2>1, NatSetInduction
<1> QED
  BY <1>3 DEF T

\* The sequences of sequences over a set.
Lists(S) == Seq(Seq(S))

\* What is made of sequences over a set is a sequence over it.
LEMMA FlattenTyped ==
  ASSUME NEW S, NEW seqs \in Lists(S)
  PROVE  FlattenSeq(seqs) \in Seq(S)
<1>1. PICK n \in Nat : n = Len(seqs)
  BY LenProperties DEF Lists
<1>2. CASE n = 0
  <2>1. seqs = <<>>
    BY <1>1, <1>2, EmptySeq DEF Lists
  <2> QED
    BY <1>1, <1>2, <2>1 DEF FlattenSeq
<1>3. CASE n # 0
  <2>1. PICK f : FlattenUpTo(seqs, f, n) /\ FlattenSeq(seqs) = f[n]
    BY <1>1, <1>3, FlattenUpToIs
  <2> DEFINE T == { k \in Nat : k \in 1 .. n => f[k] \in Seq(S) }
  <2>2. 0 \in T
    OBVIOUS
  <2>3. ASSUME NEW k \in T PROVE k + 1 \in T
    <3> SUFFICES ASSUME k + 1 \in 1 .. n PROVE f[k + 1] \in Seq(S)
      OBVIOUS
    <3>1. f[k + 1] = IF k + 1 = 1 THEN seqs[k + 1] ELSE f[(k + 1) - 1] \o seqs[k + 1]
      BY <2>1 DEF FlattenUpTo
    <3>2. (k + 1) - 1 = k /\ (k + 1 # 1 => k \in 1 .. n)
      OBVIOUS
    <3>3. seqs[k + 1] \in Seq(S)
      BY <1>1, ElementOfSeq DEF Lists
    <3>4. k + 1 # 1 => f[k] \in Seq(S)
      BY <3>2
    <3> HIDE DEF T
    <3> QED
      BY <3>1, <3>2, <3>3, <3>4, ConcatProperties
  <2> HIDE DEF T
  <2>4. T = Nat
    <3>1. T \subseteq Nat
      BY DEF T
    <3> QED
      BY <2>2, <2>3, <3>1, NatSetInduction
  <2> QED
    BY <2>1, <2>4, <1>3 DEF T
<1> QED
  BY <1>2, <1>3

\* One more sequence comes behind the others.
LEMMA FlattenAppend ==
  ASSUME NEW S, NEW seqs \in Lists(S), NEW e \in Seq(S)
  PROVE  FlattenSeq(Append(seqs, e)) = FlattenSeq(seqs) \o e
<1>1. PICK n \in Nat : n = Len(seqs)
  BY LenProperties DEF Lists
<1> DEFINE longer == Append(seqs, e)
<1>2. /\ longer \in Lists(S) /\ Len(longer) = n + 1 /\ longer[n + 1] = e
      /\ \A i \in 1 .. n : longer[i] = seqs[i]
  BY <1>1, AppendProperties DEF Lists
<1> HIDE DEF longer
<1>3. n + 1 \in Nat /\ n + 1 # 0 /\ n <= n + 1 /\ (n + 1) - 1 = n /\ n + 1 \in 1 .. n + 1
  OBVIOUS
<1>4. PICK f : FlattenUpTo(longer, f, n + 1) /\ FlattenSeq(longer) = f[n + 1]
  BY <1>2, <1>3, FlattenUpToIs
<1>5. f[n + 1] = IF n + 1 = 1 THEN e ELSE f[n] \o e
  BY <1>2, <1>3, <1>4 DEF FlattenUpTo
<1>6. CASE n = 0
  <2>1. FlattenSeq(seqs) = <<>>
    BY <1>1, <1>6, EmptySeq DEF FlattenSeq, Lists
  <2> QED
    BY <1>4, <1>5, <1>6, <2>1, ConcatEmptySeq DEF longer
<1>7. CASE n # 0
  <2>1. PICK g : FlattenUpTo(seqs, g, n) /\ FlattenSeq(seqs) = g[n]
    BY <1>1, <1>7, FlattenUpToIs
  <2>2. \A k \in 1 .. n : f[k] = g[k]
    <3>1. \A i \in 1 .. n : longer[i] = seqs[i]
      BY <1>2
    <3>2. FlattenUpTo(longer, f, n + 1) /\ FlattenUpTo(seqs, g, n) /\ n + 1 \in Nat /\ n <= n + 1
      BY <1>3, <1>4, <2>1
    <3> QED
      BY <3>1, <3>2, FlattenAgree
  <2>3. n \in 1 .. n /\ n + 1 # 1
    BY <1>7
  <2> QED
    BY <1>4, <1>5, <2>1, <2>2, <2>3 DEF longer
<1> QED
  BY <1>6, <1>7

\* A set of sequences with the empty one and each that is one longer than another has them all.
LEMMA SeqSetInduction ==
  ASSUME NEW S, NEW T \in SUBSET Seq(S), <<>> \in T, \A s \in T : \A x \in S : Append(s, x) \in T
  PROVE  T = Seq(S)
<1> DEFINE N == { n \in Nat : \A s \in Seq(S) : Len(s) = n => s \in T }
<1>1. 0 \in N
  <2> SUFFICES ASSUME NEW s \in Seq(S), Len(s) = 0 PROVE s \in T
    OBVIOUS
  <2>1. s = <<>>
    BY EmptySeq
  <2> QED
    BY <2>1
<1>2. ASSUME NEW n \in N PROVE n + 1 \in N
  <2> SUFFICES ASSUME NEW s \in Seq(S), Len(s) = n + 1 PROVE s \in T
    OBVIOUS
  <2>1. s # <<>>
    BY EmptySeq
  <2>2. PICK t \in Seq(S), x \in S : s = Append(t, x)
    BY <2>1, SequenceEmptyOrAppend
  <2>3. Len(t) + 1 = n + 1 /\ Len(t) \in Nat
    BY <2>2, AppendProperties, LenProperties
  <2>4. Len(t) = n
    BY <2>3
  <2> QED
    BY <2>2, <2>4
<1> HIDE DEF N
<1>3. N = Nat
  <2>1. N \subseteq Nat
    BY DEF N
  <2> QED
    BY <1>1, <1>2, <2>1, NatSetInduction
<1>4. ASSUME NEW s \in Seq(S) PROVE s \in T
  <2>1. Len(s) \in N
    BY <1>3, LenProperties
  <2> QED
    BY <2>1 DEF N
<1> QED
  BY <1>4

LEMMA OneElement ==
  ASSUME NEW S, NEW x \in S
  PROVE  <<x>> \in Seq(S) /\ Len(<<x>>) = 1 /\ <<x>>[1] = x /\ Append(<<>>, x) = <<x>>
OBVIOUS

LEMMA InGroups ==
  ASSUME NEW S, NEW a \in Seq(S), NEW b \in Seq(S), NEW c \in Seq(S)
  PROVE  (a \o b) \o c = a \o (b \o c)
BY ConcatAssociative

LEMMA OneMoreBehind ==
  ASSUME NEW S, NEW a \in Seq(S), NEW b \in Seq(S), NEW x \in S
  PROVE  a \o b \in Seq(S) /\ a \o Append(b, x) = Append(a \o b, x)
<1>1. PICK e \in Seq(S) : e = <<x>>
  BY OneElement
<1>2. a \o b \in Seq(S) /\ Append(b, x) = b \o e /\ Append(a \o b, x) = (a \o b) \o e
  BY <1>1, ConcatProperties, AppendIsConcat
<1> QED
  BY <1>2, InGroups

\* What is made of a sequence one element after the other is made of its parts.
OneByOne(S, R, F, G) ==
  /\ F \in [Seq(S) -> Seq(R)] /\ G \in [S -> Seq(R)] /\ F[<<>>] = <<>>
  /\ \A s \in Seq(S) : \A x \in S : F[Append(s, x)] = F[s] \o G[x]

JoinsParts(S, F, G) ==
  /\ \A a, b \in Seq(S) : F[a \o b] = F[a] \o F[b]
  /\ \A x \in S : F[<<x>>] = G[x]

LEMMA MadeOfParts ==
  ASSUME NEW S, NEW R, NEW F, NEW G, OneByOne(S, R, F, G)
  PROVE  JoinsParts(S, F, G)
<1>0. /\ \A s \in Seq(S) : F[s] \in Seq(R)
      /\ \A x \in S : G[x] \in Seq(R)
      /\ F[<<>>] = <<>>
  BY DEF OneByOne
<1>1. ASSUME NEW a \in Seq(S) PROVE \A b \in Seq(S) : F[a \o b] = F[a] \o F[b]
  <2> DEFINE T == { b \in Seq(S) : F[a \o b] = F[a] \o F[b] }
  <2>1. <<>> \in T
    <3>1. a \o <<>> = a /\ F[a] \in Seq(R)
      BY <1>0, ConcatEmptySeq
    <3>2. F[a] \o <<>> = F[a] /\ <<>> \in Seq(S)
      BY <3>1, ConcatEmptySeq, EmptySeq
    <3> QED
      BY <1>0, <3>1, <3>2
  <2> HIDE DEF T
  <2>2. ASSUME NEW b \in T, NEW x \in S PROVE Append(b, x) \in T
    <3>1. b \in Seq(S) /\ Append(b, x) \in Seq(S) /\ F[a \o b] = F[a] \o F[b]
      BY AppendProperties DEF T
    <3>2. a \o b \in Seq(S) /\ a \o Append(b, x) = Append(a \o b, x)
      BY <3>1, OneMoreBehind
    <3>3. F[a \o Append(b, x)] = (F[a] \o F[b]) \o G[x]
      BY <3>1, <3>2 DEF OneByOne
    <3>4. F[Append(b, x)] = F[b] \o G[x]
      BY <3>1 DEF OneByOne
    <3>5. F[a] \in Seq(R) /\ F[b] \in Seq(R) /\ G[x] \in Seq(R)
      BY <1>0, <3>1
    <3>6. (F[a] \o F[b]) \o G[x] = F[a] \o (F[b] \o G[x])
      <4>1. PICK u \in Seq(R), v \in Seq(R), w \in Seq(R) : u = F[a] /\ v = F[b] /\ w = G[x]
        BY <3>5, Zenon
      <4>2. (u \o v) \o w = u \o (v \o w)
        BY InGroups
      <4> QED
        BY <4>1, <4>2, Zenon
    <3> QED
      BY <3>1, <3>3, <3>4, <3>6 DEF T
  <2>3. T = Seq(S)
    <3>1. T \in SUBSET Seq(S)
      BY DEF T
    <3> QED
      BY <2>1, <2>2, <3>1, SeqSetInduction
  <2> QED
    BY <2>3 DEF T
<1>2. ASSUME NEW x \in S PROVE F[<<x>>] = G[x]
  <2>1. Append(<<>>, x) = <<x>> /\ <<>> \in Seq(S)
    BY EmptySeq, OneElement
  <2>2. F[<<x>>] = <<>> \o G[x]
    BY <1>0, <2>1 DEF OneByOne
  <2>3. G[x] \in Seq(R)
    BY <1>0
  <2> QED
    BY <2>2, <2>3, ConcatEmptySeq
<1> QED
  BY <1>1, <1>2 DEF JoinsParts

\* The sequences that the elements of a list give, one behind the other.
Mapped(G, list) == FlattenSeq([i \in DOMAIN list |-> G[list[i]]])

\* The list of what the elements of a list give.
LEMMA ImageTyped ==
  ASSUME NEW S, NEW R, NEW G \in [S -> R], NEW list \in Seq(S)
  PROVE  /\ [i \in DOMAIN list |-> G[list[i]]] \in Seq(R)
         /\ Len([i \in DOMAIN list |-> G[list[i]]]) = Len(list)
<1>1. PICK n \in Nat : n = Len(list) /\ DOMAIN list = 1 .. n
  BY LenProperties
<1>2. \A i \in 1 .. n : list[i] \in S
  BY <1>1, ElementOfSeq
<1>3. PICK u : u = [i \in 1 .. n |-> G[list[i]]]
  OBVIOUS
<1>4. u \in [1 .. n -> R]
  BY <1>2, <1>3
<1> QED
  BY <1>1, <1>3, <1>4

LEMMA OneLonger ==
  ASSUME NEW S, NEW list \in Seq(S), NEW n \in Nat, n = Len(list), NEW x \in S,
         NEW longer, longer = Append(list, x)
  PROVE  /\ longer \in Seq(S) /\ Len(longer) = n + 1 /\ longer[n + 1] = x
         /\ \A i \in 1 .. n : longer[i] = list[i]
<1>1. /\ Append(list, x) \in Seq(S) /\ Len(Append(list, x)) = n + 1 /\ Append(list, x)[n + 1] = x
      /\ \A i \in 1 .. n : Append(list, x)[i] = list[i]
  BY AppendProperties
<1> QED
  BY <1>1

LEMMA OneMoreMapped ==
  ASSUME NEW S, NEW R, NEW G \in [S -> R], NEW list \in Seq(S), NEW x \in S
  PROVE  [i \in DOMAIN Append(list, x) |-> G[Append(list, x)[i]]]
           = Append([i \in DOMAIN list |-> G[list[i]]], G[x])
<1>1. PICK n \in Nat : n = Len(list) /\ DOMAIN list = 1 .. n
  BY LenProperties
<1>2a. PICK longer : longer = Append(list, x)
  OBVIOUS
<1>2. /\ longer \in Seq(S) /\ longer = Append(list, x) /\ Len(longer) = n + 1 /\ longer[n + 1] = x
      /\ \A i \in 1 .. n : longer[i] = list[i]
  BY <1>1, <1>2a, OneLonger
<1>3. DOMAIN longer = 1 .. n + 1
  BY <1>2, LenProperties
<1>4. PICK u : u = [i \in DOMAIN list |-> G[list[i]]]
  OBVIOUS
<1>5. u \in Seq(R) /\ Len(u) = n /\ \A i \in 1 .. n : u[i] = G[list[i]]
  BY <1>1, <1>4, ImageTyped
<1>6. PICK v : v = [i \in DOMAIN longer |-> G[longer[i]]]
  OBVIOUS
<1>7. v \in Seq(R) /\ Len(v) = n + 1 /\ \A i \in 1 .. n + 1 : v[i] = G[longer[i]]
  <2>1. longer \in Seq(S) /\ Len(longer) = n + 1
    BY <1>2
  <2>2. v \in Seq(R) /\ Len(v) = Len(longer)
    BY <1>6, <2>1, ImageTyped
  <2>3. \A i \in 1 .. n + 1 : v[i] = G[longer[i]]
    BY <1>3, <1>6
  <2> QED
    BY <2>1, <2>2, <2>3
<1>8. PICK e \in R : e = G[x]
  OBVIOUS
<1>9a. PICK w : w = Append(u, e)
  OBVIOUS
<1>9. /\ w \in Seq(R) /\ w = Append(u, e) /\ Len(w) = n + 1 /\ w[n + 1] = e
      /\ \A i \in 1 .. n : w[i] = u[i]
  BY <1>5, <1>9a, OneLonger
<1>10. \A i \in 1 .. n + 1 : v[i] = w[i]
  <2> TAKE i \in 1 .. n + 1
  <2>1. CASE i = n + 1
    BY <1>2, <1>7, <1>8, <1>9, <2>1
  <2>2. CASE i # n + 1
    <3>1. i \in 1 .. n
      BY <2>2
    <3> QED
      BY <1>2, <1>5, <1>7, <1>9, <3>1
  <2> QED
    BY <2>1, <2>2
<1>11. v = w
  BY <1>7, <1>9, <1>10, SeqEqual
<1> QED
  BY <1>2, <1>4, <1>6, <1>8, <1>9, <1>11

\* What FlattenSeq makes of the sequences that the elements give is made of its parts.
LEMMA MappedOneByOne ==
  ASSUME NEW S, NEW R, NEW G \in [S -> Seq(R)], NEW F, F = [list \in Seq(S) |-> Mapped(G, list)]
  PROVE  OneByOne(S, R, F, G)
<1>1. ASSUME NEW list \in Seq(S) PROVE F[list] \in Seq(R)
  <2>1. PICK u : u = [i \in DOMAIN list |-> G[list[i]]]
    OBVIOUS
  <2>2. u \in Seq(Seq(R))
    BY <2>1, ImageTyped
  <2>3. F[list] = FlattenSeq(u)
    BY <2>1 DEF Mapped
  <2> QED
    BY <2>2, <2>3, FlattenTyped DEF Lists
<1>2. ASSUME NEW list \in Seq(S), NEW x \in S PROVE F[Append(list, x)] = F[list] \o G[x]
  <2>1. PICK u : u = [i \in DOMAIN list |-> G[list[i]]]
    OBVIOUS
  <2>2. u \in Lists(R)
    BY <2>1, ImageTyped DEF Lists
  <2>3. PICK e \in Seq(R) : e = G[x]
    OBVIOUS
  <2>4. PICK longer \in Seq(S) : longer = Append(list, x)
    BY AppendProperties
  <2>5. [i \in DOMAIN longer |-> G[longer[i]]] = Append(u, e)
    BY <2>1, <2>3, <2>4, OneMoreMapped
  <2>6. F[longer] = FlattenSeq(Append(u, e))
    BY <2>5 DEF Mapped
  <2>7. F[list] = FlattenSeq(u)
    BY <2>1 DEF Mapped
  <2> QED
    BY <2>2, <2>3, <2>4, <2>6, <2>7, FlattenAppend
<1>3. F[<<>>] = <<>>
  <2>1. <<>> \in Seq(S)
    BY EmptySeq
  <2>2. [i \in DOMAIN <<>> |-> G[<<>>[i]]] = <<>>
    OBVIOUS
  <2>3. FlattenSeq(<<>>) = <<>>
    BY DEF FlattenSeq
  <2> QED
    BY <2>1, <2>2, <2>3 DEF Mapped
<1>4. F \in [Seq(S) -> Seq(R)]
  <2>1. \A list \in Seq(S) : Mapped(G, list) \in Seq(R)
    BY <1>1
  <2> QED
    BY <2>1
<1> QED
  BY <1>2, <1>3, <1>4 DEF OneByOne

LEMMA MappedParts ==
  ASSUME NEW S, NEW R, NEW G \in [S -> Seq(R)]
  PROVE  /\ \A a \in Seq(S) : Mapped(G, a) \in Seq(R)
         /\ \A a, b \in Seq(S) : Mapped(G, a \o b) = Mapped(G, a) \o Mapped(G, b)
         /\ Mapped(G, <<>>) = <<>>
         /\ \A x \in S : Mapped(G, <<x>>) = G[x]
<1>1. PICK F : F = [list \in Seq(S) |-> Mapped(G, list)]
  OBVIOUS
<1>2. OneByOne(S, R, F, G)
  BY <1>1, MappedOneByOne
<1>3. JoinsParts(S, F, G)
  BY <1>2, MadeOfParts
<1>4. F \in [Seq(S) -> Seq(R)] /\ F[<<>>] = <<>>
  BY <1>2 DEF OneByOne
<1>5. \A a, b \in Seq(S) : a \o b \in Seq(S)
  BY ConcatProperties
<1>6. \A x \in S : <<x>> \in Seq(S)
  BY OneElement
<1>7. <<>> \in Seq(S)
  BY EmptySeq
<1>8. \A a \in Seq(S) : F[a] = Mapped(G, a)
  BY <1>1
<1> QED
  BY <1>3, <1>4, <1>5, <1>6, <1>7, <1>8 DEF JoinsParts

\* A function that gives a sequence for each element.
Gives(G, S, R) == G \in [S -> Seq(R)]

MapsParts(G, a, b) == Mapped(G, a \o b) = Mapped(G, a) \o Mapped(G, b)

LEMMA MappedJoin ==
  ASSUME NEW S, NEW R, NEW G, Gives(G, S, R), NEW a \in Seq(S), NEW b \in Seq(S)
  PROVE  MapsParts(G, a, b) /\ Mapped(G, a) \in Seq(R)
<1>1. G \in [S -> Seq(R)]
  BY DEF Gives
<1> QED
  BY <1>1, MappedParts DEF MapsParts

LEMMA MappedOne ==
  ASSUME NEW S, NEW R, NEW G, Gives(G, S, R), NEW x \in S
  PROVE  Mapped(G, <<x>>) = G[x]
<1>1. G \in [S -> Seq(R)]
  BY DEF Gives
<1> QED
  BY <1>1, MappedParts

LEMMA MappedNone ==
  ASSUME NEW G
  PROVE  Mapped(G, <<>>) = <<>>
BY DEF Mapped, FlattenSeq

\* Two functions that agree on the elements of a list make the same of it.
LEMMA MappedAlike ==
  ASSUME NEW S, NEW list \in Seq(S), NEW G, NEW H, \A x \in S : G[x] = H[x]
  PROVE  Mapped(G, list) = Mapped(H, list)
<1>1. \A i \in DOMAIN list : list[i] \in S
  BY LenProperties, ElementOfSeq
<1> QED
  BY <1>1 DEF Mapped

\* Sequences over a set are sequences over a larger one.
LEMMA SeqOver ==
  ASSUME NEW S, NEW R, \A x \in S : x \in R, NEW list \in Seq(S)
  PROVE  list \in Seq(R)
OBVIOUS

LEMMA Tuples ==
  ASSUME NEW L, NEW a \in L, NEW b \in L, NEW c \in L, NEW d \in L, NEW e \in L
  PROVE  /\ <<a>> \in Seq(L) /\ <<a, b>> \in Seq(L) /\ <<a, b, c>> \in Seq(L)
         /\ <<a, b, c, d>> \in Seq(L) /\ <<a, b, c, d, e>> \in Seq(L)
OBVIOUS

\* What is left of a line behind a statement that was read.
Blank == [kind |-> "blank"]
Items == Statements \union {Blank}
Servs == [kind : {"server"}, body : Seq(Lines)]

\* A statement is of one kind.
LEMMA KindOfItem ==
  ASSUME NEW s \in Items
  PROVE  \/ s = Blank /\ s.kind = "blank"
         \/ s \in Parameters /\ s.kind = "param" /\ s.name \in Words \ {"include"} /\ s.value \in Seq(Lexeme)
         \/ s \in Comments /\ s.kind = "comment" /\ s.indented \in BOOLEAN /\ s.value \in Seq(Lexeme)
         \/ s \in Includes /\ s.kind = "include" /\ s.file \in Words
         \/ s \in Servs /\ s.kind = "server" /\ s.body \in Seq(Lines)
<1>1. CASE s = Blank
  BY <1>1 DEF Blank
<1>2. CASE s \in Parameters
  <2>1. s.value \in Seq(Lexeme \ {";", "{", "}"})
    BY <1>2 DEF Parameters
  <2>2. s.value \in Seq(Lexeme)
    BY <2>1, SeqOver
  <2> QED
    BY <1>2, <2>2 DEF Parameters
<1>3. CASE s \in Comments
  <2>1. s.value \in Seq(Lexeme \ {"nl"})
    BY <1>3 DEF Comments
  <2>2. s.value \in Seq(Lexeme)
    BY <2>1, SeqOver
  <2> QED
    BY <1>3, <2>2 DEF Comments
<1>4. CASE s \in Includes
  BY <1>4 DEF Includes
<1>5. CASE s \in Servs
  BY <1>5 DEF Servs
<1> QED
  BY <1>1, <1>2, <1>3, <1>4, <1>5 DEF Items, Statements, Lines, Servs

LEMMA KindOfLine ==
  ASSUME NEW s \in Lines
  PROVE  s \in Items /\ s \in Statements /\ s.kind \in {"param", "comment", "include"}
<1>1. s \in Items /\ s \in Statements
  BY DEF Items, Statements
<1>2. s \in Parameters \/ s \in Comments \/ s \in Includes
  BY DEF Lines
<1> QED
  BY <1>1, <1>2 DEF Parameters, Comments, Includes

LEMMA KindOfStatement ==
  ASSUME NEW s \in Statements
  PROVE  s \in Items /\ s.kind \in {"param", "comment", "include", "server"} /\ s # Blank
<1>1. s \in Items
  BY DEF Items
<1>2. s \in Lines \/ s \in Servs
  BY DEF Statements, Servs
<1>3. s.kind \in {"param", "comment", "include", "server"}
  BY <1>2, KindOfLine DEF Servs
<1> QED
  BY <1>1, <1>3 DEF Blank

\* The signs that stand around the words.
LEMMA SignsTyped ==
  /\ <<"nl">> \in Seq(Lexeme) /\ <<";", "nl">> \in Seq(Lexeme) /\ <<"}", "nl">> \in Seq(Lexeme)
  /\ <<"sp", "#", "sp">> \in Seq(Lexeme) /\ <<"#", "sp">> \in Seq(Lexeme)
  /\ <<"server", "sp", "{", "nl">> \in Seq(Lexeme)
  /\ \A w \in Words : /\ w \in Lexeme /\ <<w, "sp">> \in Seq(Lexeme)
                      /\ <<"include", "sp", w, ";", "nl">> \in Seq(Lexeme)
<1>1. /\ "sp" \in Lexeme /\ "nl" \in Lexeme /\ ";" \in Lexeme /\ "{" \in Lexeme /\ "}" \in Lexeme
      /\ "#" \in Lexeme
  BY DEF Lexeme, Signs, Space
<1>2. "server" \in Lexeme /\ "include" \in Lexeme /\ \A w \in Words : w \in Lexeme
  BY ConfigsAssumption DEF Lexeme
<1>3. /\ <<"nl">> \in Seq(Lexeme) /\ <<";", "nl">> \in Seq(Lexeme) /\ <<"}", "nl">> \in Seq(Lexeme)
      /\ <<"sp", "#", "sp">> \in Seq(Lexeme) /\ <<"#", "sp">> \in Seq(Lexeme)
      /\ <<"server", "sp", "{", "nl">> \in Seq(Lexeme)
  <2>1. <<"nl">> \in Seq(Lexeme) /\ <<";", "nl">> \in Seq(Lexeme) /\ <<"}", "nl">> \in Seq(Lexeme)
    BY <1>1, Tuples
  <2>2. <<"sp", "#", "sp">> \in Seq(Lexeme) /\ <<"#", "sp">> \in Seq(Lexeme)
    BY <1>1, Tuples
  <2>3. <<"server", "sp", "{", "nl">> \in Seq(Lexeme)
    BY <1>1, <1>2, Tuples
  <2> QED
    BY <2>1, <2>2, <2>3
<1>4. ASSUME NEW w \in Words
      PROVE  <<w, "sp">> \in Seq(Lexeme) /\ <<"include", "sp", w, ";", "nl">> \in Seq(Lexeme)
  <2>1. w \in Lexeme
    BY <1>2
  <2>2. <<w, "sp">> \in Seq(Lexeme)
    BY <1>1, <2>1, Tuples
  <2>3. <<"include", "sp", w, ";", "nl">> \in Seq(Lexeme)
    BY <1>1, <1>2, <2>1, Tuples
  <2> QED
    BY <2>2, <2>3
<1> QED
  BY <1>2, <1>3, <1>4

LEMMA LineTyped ==
  ASSUME NEW s \in Lines
  PROVE  Line(s) \in Seq(Lexeme)
<1>1. CASE s \in Parameters
  <2>1. s.kind = "param" /\ s.name \in Words /\ s.value \in Seq(Lexeme)
    BY <1>1, KindOfItem, KindOfLine DEF Parameters
  <2>2. PICK a \in Seq(Lexeme), b \in Seq(Lexeme), c \in Seq(Lexeme) :
          a = <<s.name, "sp">> /\ b = s.value /\ c = <<";", "nl">>
    BY <2>1, SignsTyped
  <2>3. Line(s) = a \o b \o c
    BY <2>1, <2>2 DEF Line
  <2> QED
    BY <2>3, ConcatProperties
<1>2. CASE s \in Comments
  <2>1. s.kind = "comment" /\ s.value \in Seq(Lexeme)
    BY <1>2, KindOfItem, KindOfLine DEF Comments
  <2>2. PICK a \in Seq(Lexeme), b \in Seq(Lexeme), c \in Seq(Lexeme) :
          /\ a = (IF s.indented THEN <<"sp", "#", "sp">> ELSE <<"#", "sp">>)
          /\ b = s.value /\ c = <<"nl">>
    BY <2>1, SignsTyped
  <2>3. Line(s) = a \o b \o c
    BY <2>1, <2>2 DEF Line
  <2> QED
    BY <2>3, ConcatProperties
<1>3. CASE s \in Includes
  <2>1. s.kind = "include" /\ s.file \in Words
    BY <1>3 DEF Includes
  <2>2. Line(s) = <<"include", "sp", s.file, ";", "nl">>
    BY <2>1 DEF Line
  <2> QED
    BY <2>1, <2>2, SignsTyped
<1> QED
  BY <1>1, <1>2, <1>3 DEF Lines

\* The text of a list of statements, and of the lines of a block.
TextG     == [s \in Items |-> IF s = Blank THEN <<"nl">> ELSE Block(s)]
TextOf(l) == Mapped(TextG, l)

LEMMA TextTyped ==
  /\ Gives(TextG, Items, Lexeme)
  /\ \A l \in Seq(Lines) : FlattenSeq([i \in DOMAIN l |-> Line(l[i])]) = TextOf(l)
<1> DEFINE G == [s \in Lines |-> Line(s)]
<1>1. G \in [Lines -> Seq(Lexeme)]
  BY LineTyped
<1>2. ASSUME NEW l \in Seq(Lines)
      PROVE  /\ FlattenSeq([i \in DOMAIN l |-> Line(l[i])]) = Mapped(G, l)
             /\ Mapped(G, l) \in Seq(Lexeme)
  <2>1. \A i \in DOMAIN l : l[i] \in Lines
    BY ElementOfSeq
  <2>2. \A i \in DOMAIN l : G[l[i]] = Line(l[i])
    BY <2>1
  <2>3. FlattenSeq([i \in DOMAIN l |-> Line(l[i])]) = Mapped(G, l)
    BY <2>2 DEF Mapped
  <2> HIDE DEF G
  <2> QED
    BY <1>1, <2>3, MappedParts
<1>3. ASSUME NEW s \in Statements PROVE Block(s) \in Seq(Lexeme)
  <2>1. CASE s \in Lines
    <3>1. Block(s) = Line(s)
      BY <2>1, KindOfLine DEF Block
    <3> QED
      BY <2>1, <3>1, LineTyped
  <2>2. CASE s \in Servs
    <3>1. s.kind = "server" /\ s.body \in Seq(Lines)
      BY <2>2 DEF Servs
    <3>2. PICK a \in Seq(Lexeme), b \in Seq(Lexeme), c \in Seq(Lexeme) :
            /\ a = <<"server", "sp", "{", "nl">> /\ c = <<"}", "nl">>
            /\ b = FlattenSeq([i \in DOMAIN s.body |-> Line(s.body[i])])
      <4>1. FlattenSeq([i \in DOMAIN s.body |-> Line(s.body[i])]) \in Seq(Lexeme)
        BY <1>2, <3>1
      <4> QED
        BY <4>1, SignsTyped
    <3>3. Block(s) = a \o b \o c
      BY <3>1, <3>2 DEF Block
    <3> QED
      BY <3>3, ConcatProperties
  <2> QED
    BY <2>1, <2>2 DEF Statements, Servs
<1>4. TextG \in [Items -> Seq(Lexeme)]
  <2>1. \A s \in Items : (IF s = Blank THEN <<"nl">> ELSE Block(s)) \in Seq(Lexeme)
    BY <1>3, SignsTyped DEF Items
  <2> QED
    BY <2>1 DEF TextG
<1>5. \A s \in Lines : G[s] = TextG[s]
  <2> TAKE s \in Lines
  <2>1. s \in Items /\ s # Blank /\ Block(s) = Line(s)
    BY KindOfLine, KindOfStatement DEF Block
  <2> QED
    BY <2>1 DEF TextG
<1> HIDE DEF G
<1>6. \A l \in Seq(Lines) : Mapped(G, l) = TextOf(l)
  BY <1>5, MappedAlike DEF TextOf
<1> QED
  BY <1>2, <1>4, <1>6 DEF Gives

-----------------------------------------------------------------------------
(* What a list of statements says                                           *)

Entries       == [name : { <<w>> : w \in Words }, value : Seq(Lexeme)]
GivenG(conf)  == [s \in Items |-> Given(conf, s)]
ParamG        == [s \in Items |-> ParamOf(s)]
ServerG(conf) == [s \in Items |-> ServerOf(conf, s)]

\* The parameters of a list with what it includes, and its servers.
Told(conf, l)   == Params(Expand(conf, l))
Hosted(conf, l) == ServersOf(conf, Expand(conf, l))

LEMMA AnyLexeme ==
  ASSUME NEW l \in Seq(Lines)
  PROVE  l \in Seq(Items)
BY KindOfLine, SeqOver

LEMMA FilesTyped ==
  ASSUME NEW conf \in Configs, NEW file \in DOMAIN conf.files
  PROVE  conf.files[file] \in Seq(Statements) /\ conf.files[file] \in Seq(Items)
<1>1. conf.files[file] \in Seq(Statements)
  BY ConfigsAssumption
<1> QED
  BY <1>1, KindOfStatement, SeqOver

LEMMA IncludedTyped ==
  ASSUME NEW conf \in Configs, NEW s
  PROVE  Included(conf, s) \in Seq(Statements) /\ Included(conf, s) \in Seq(Items)
<1>1. CASE s.kind = "include" /\ s.file \in DOMAIN conf.files
  BY <1>1, FilesTyped DEF Included
<1>2. CASE ~(s.kind = "include" /\ s.file \in DOMAIN conf.files)
  <2>1. Included(conf, s) = <<>>
    BY <1>2 DEF Included
  <2> QED
    BY <2>1, EmptySeq
<1> QED
  BY <1>1, <1>2

LEMMA GivenTyped ==
  ASSUME NEW conf \in Configs
  PROVE  Gives(GivenG(conf), Items, Items)
<1>1. ASSUME NEW s \in Items PROVE Given(conf, s) \in Seq(Items)
  <2>1. <<s>> \in Seq(Items)
    BY OneElement
  <2> QED
    BY <2>1, IncludedTyped DEF Given
<1> QED
  BY <1>1 DEF GivenG, Gives

LEMMA ParamTyped == Gives(ParamG, Items, Entries)
<1>1. ASSUME NEW s \in Items PROVE ParamOf(s) \in Seq(Entries)
  <2>1. CASE s.kind = "param"
    <3>1. s.name \in Words /\ s.value \in Seq(Lexeme)
      BY <2>1, KindOfItem
    <3>2. PICK e : e = [name |-> <<s.name>>, value |-> s.value]
      OBVIOUS
    <3>3. e \in Entries
      BY <3>1, <3>2 DEF Entries
    <3>4. ParamOf(s) = <<e>>
      BY <2>1, <3>2 DEF ParamOf
    <3> QED
      BY <3>3, <3>4, OneElement
  <2>2. CASE s.kind # "param"
    <3>1. ParamOf(s) = <<>>
      BY <2>2 DEF ParamOf
    <3> QED
      BY <3>1, EmptySeq
  <2> QED
    BY <2>1, <2>2
<1> QED
  BY <1>1 DEF ParamG, Gives

\* The definitions as images of the list.
LEMMA MappedIs ==
  ASSUME NEW conf, NEW l \in Seq(Items)
  PROVE  /\ Expand(conf, l) = Mapped(GivenG(conf), l)
         /\ Params(l) = Mapped(ParamG, l)
         /\ ServersOf(conf, l) = Mapped(ServerG(conf), l)
<1>1. \A i \in DOMAIN l : l[i] \in Items
  BY ElementOfSeq
<1>2. \A i \in DOMAIN l : GivenG(conf)[l[i]] = Given(conf, l[i])
  BY <1>1 DEF GivenG
<1>3. \A i \in DOMAIN l : ParamG[l[i]] = ParamOf(l[i])
  BY <1>1 DEF ParamG
<1>4. \A i \in DOMAIN l : ServerG(conf)[l[i]] = ServerOf(conf, l[i])
  BY <1>1 DEF ServerG
<1>5. Expand(conf, l) = Mapped(GivenG(conf), l)
  BY <1>2 DEF Expand, Mapped
<1>6. Params(l) = Mapped(ParamG, l)
  BY <1>3 DEF Params, Mapped
<1>7. ServersOf(conf, l) = Mapped(ServerG(conf), l)
  BY <1>4 DEF ServersOf, Mapped
<1> QED
  BY <1>5, <1>6, <1>7

LEMMA ToldTyped ==
  ASSUME NEW conf \in Configs, NEW l \in Seq(Items)
  PROVE  Expand(conf, l) \in Seq(Items) /\ Told(conf, l) \in Seq(Entries)
<1>1. Expand(conf, l) \in Seq(Items)
  BY GivenTyped, MappedIs, MappedJoin
<1>2. PICK x \in Seq(Items) : x = Expand(conf, l)
  BY <1>1
<1>3. Mapped(ParamG, x) \in Seq(Entries)
  BY ParamTyped, MappedJoin
<1>4. Params(x) \in Seq(Entries)
  BY <1>3, MappedIs
<1> QED
  BY <1>1, <1>2, <1>4 DEF Told

LEMMA ServerTyped ==
  ASSUME NEW conf \in Configs
  PROVE  Gives(ServerG(conf), Items, Seq(Entries))
<1>1. ASSUME NEW s \in Items PROVE ServerOf(conf, s) \in Seq(Seq(Entries))
  <2>1. CASE s.kind = "server"
    <3>1. s.body \in Seq(Items)
      BY <2>1, KindOfItem, AnyLexeme
    <3>2. PICK e \in Seq(Entries) : e = Told(conf, s.body)
      BY <3>1, ToldTyped
    <3>3. ServerOf(conf, s) = <<e>>
      BY <2>1, <3>2 DEF ServerOf, Told
    <3> QED
      BY <3>3, OneElement
  <2>2. CASE s.kind # "server"
    <3>1. ServerOf(conf, s) = <<>>
      BY <2>2 DEF ServerOf
    <3> QED
      BY <3>1, EmptySeq
  <2> QED
    BY <2>1, <2>2
<1> QED
  BY <1>1 DEF ServerG, Gives

\* What two lists say together is what they say one behind the other.
LEMMA ToldJoined ==
  ASSUME NEW conf \in Configs, NEW a \in Seq(Items), NEW b \in Seq(Items)
  PROVE  /\ a \o b \in Seq(Items)
         /\ Told(conf, a \o b) = Told(conf, a) \o Told(conf, b)
         /\ Hosted(conf, a \o b) = Hosted(conf, a) \o Hosted(conf, b)
         /\ Hosted(conf, a) \in Seq(Seq(Entries))
         /\ TextOf(a \o b) = TextOf(a) \o TextOf(b)
         /\ TextOf(a) \in Seq(Lexeme)
<1>1. PICK c \in Seq(Items) : c = a \o b
  BY ConcatProperties
<1>2. PICK x \in Seq(Items), y \in Seq(Items), z \in Seq(Items) :
        x = Expand(conf, a) /\ y = Expand(conf, b) /\ z = Expand(conf, c)
  BY ToldTyped
<1>0. PICK G, P, V, L :
        /\ G = GivenG(conf) /\ P = ParamG /\ V = ServerG(conf) /\ L = TextG
        /\ Gives(G, Items, Items) /\ Gives(P, Items, Entries) /\ Gives(V, Items, Seq(Entries))
        /\ Gives(L, Items, Lexeme)
  BY GivenTyped, ParamTyped, ServerTyped, TextTyped
<1>3. z = x \o y
  <2>1. z = Mapped(G, c) /\ x = Mapped(G, a) /\ y = Mapped(G, b)
    BY <1>0, <1>2, MappedIs
  <2>2. MapsParts(G, a, b)
    BY <1>0, MappedJoin
  <2> QED
    BY <1>1, <2>1, <2>2 DEF MapsParts
<1>4. Params(z) = Params(x) \o Params(y)
  <2>1. Params(z) = Mapped(P, z) /\ Params(x) = Mapped(P, x) /\ Params(y) = Mapped(P, y)
    BY <1>0, MappedIs
  <2>2. MapsParts(P, x, y)
    BY <1>0, MappedJoin
  <2> QED
    BY <1>3, <2>1, <2>2 DEF MapsParts
<1>5. ServersOf(conf, z) = ServersOf(conf, x) \o ServersOf(conf, y)
  <2>1. /\ ServersOf(conf, z) = Mapped(V, z) /\ ServersOf(conf, x) = Mapped(V, x)
        /\ ServersOf(conf, y) = Mapped(V, y)
    BY <1>0, MappedIs
  <2>2. MapsParts(V, x, y)
    BY <1>0, MappedJoin
  <2> QED
    BY <1>3, <2>1, <2>2 DEF MapsParts
<1>6. ServersOf(conf, x) \in Seq(Seq(Entries))
  <2>1. Mapped(V, x) \in Seq(Seq(Entries))
    BY <1>0, MappedJoin
  <2> QED
    BY <1>0, <2>1, MappedIs
<1>7. /\ TextOf(a \o b) = TextOf(a) \o TextOf(b)
      /\ TextOf(a) \in Seq(Lexeme)
  <2>1. MapsParts(L, a, b) /\ Mapped(L, a) \in Seq(Lexeme)
    BY <1>0, MappedJoin
  <2> QED
    BY <1>0, <2>1 DEF TextOf, MapsParts
<1> QED
  BY <1>1, <1>2, <1>3, <1>4, <1>5, <1>6, <1>7 DEF Told, Hosted

LEMMA ToldNothing ==
  ASSUME NEW conf \in Configs
  PROVE  /\ <<>> \in Seq(Items) /\ Told(conf, <<>>) = <<>> /\ Hosted(conf, <<>>) = <<>>
         /\ TextOf(<<>>) = <<>> /\ Params(<<>>) = <<>> /\ ServersOf(conf, <<>>) = <<>>
<1>1. <<>> \in Seq(Items)
  BY EmptySeq
<1>2. Expand(conf, <<>>) = <<>> /\ Params(<<>>) = <<>> /\ ServersOf(conf, <<>>) = <<>>
  BY DEF Expand, Params, ServersOf, FlattenSeq
<1>3. TextOf(<<>>) = <<>>
  BY DEF TextOf, Mapped, FlattenSeq
<1> QED
  BY <1>1, <1>2, <1>3 DEF Told, Hosted

\* What one statement says.
LEMMA ToldOne ==
  ASSUME NEW conf \in Configs, NEW s \in Items
  PROVE  /\ <<s>> \in Seq(Items)
         /\ Told(conf, <<s>>) = Params(Given(conf, s)) /\ Hosted(conf, <<s>>) = ServersOf(conf, Given(conf, s))
         /\ s.kind # "include" => Told(conf, <<s>>) = ParamOf(s) /\ Hosted(conf, <<s>>) = ServerOf(conf, s)
         /\ s # Blank => TextOf(<<s>>) = Block(s)
         /\ TextOf(<<Blank>>) = <<"nl">>
<1>1. <<s>> \in Seq(Items)
  BY OneElement
<1>2. Expand(conf, <<s>>) = Given(conf, s)
  <2>1. Mapped(GivenG(conf), <<s>>) = GivenG(conf)[s]
    BY GivenTyped, MappedOne
  <2> QED
    BY <1>1, <2>1, MappedIs DEF GivenG
<1>3. Params(<<s>>) = ParamOf(s)
  <2>1. Mapped(ParamG, <<s>>) = ParamG[s]
    BY ParamTyped, MappedOne
  <2> QED
    BY <1>1, <2>1, MappedIs DEF ParamG
<1>4. ServersOf(conf, <<s>>) = ServerOf(conf, s)
  <2>1. Mapped(ServerG(conf), <<s>>) = ServerG(conf)[s]
    BY ServerTyped, MappedOne
  <2> QED
    BY <1>1, <2>1, MappedIs DEF ServerG
<1>5. ASSUME NEW t \in Items PROVE TextOf(<<t>>) = TextG[t]
  BY TextTyped, MappedOne DEF TextOf
<1>6. Blank \in Items
  BY DEF Items
<1>7. s.kind # "include" => Given(conf, s) = <<s>>
  BY DEF Given
<1>8. s # Blank => TextG[s] = Block(s)
  BY DEF TextG
<1>9. TextG[Blank] = <<"nl">>
  BY <1>6 DEF TextG
<1> QED
  BY <1>1, <1>2, <1>3, <1>4, <1>5, <1>6, <1>7, <1>8, <1>9 DEF Told, Hosted

\* A list without includes says what it is.
LEMMA ExpandPlain ==
  ASSUME NEW conf \in Configs, NEW l \in Seq({ s \in Items : s.kind # "include" })
  PROVE  Expand(conf, l) = l
<1> DEFINE S == { s \in Items : s.kind # "include" }
           T == { a \in Seq(S) : Mapped(GivenG(conf), a) = a }
<1>0. \A a \in Seq(S) : a \in Seq(Items)
  BY SeqOver
<1>1. <<>> \in T
  BY EmptySeq, MappedNone
<1>2. ASSUME NEW a \in T, NEW x \in S PROVE Append(a, x) \in T
  <2>1. a \in Seq(S) /\ a \in Seq(Items) /\ Mapped(GivenG(conf), a) = a /\ x \in Items /\ x.kind # "include"
    BY <1>0
  <2>2. <<x>> \in Seq(Items) /\ Append(a, x) = a \o <<x>> /\ Append(a, x) \in Seq(S)
    BY <2>1, OneElement, AppendIsConcat, AppendProperties
  <2>3. Mapped(GivenG(conf), <<x>>) = <<x>>
    <3>1. Mapped(GivenG(conf), <<x>>) = GivenG(conf)[x]
      BY <2>1, GivenTyped, MappedOne
    <3> QED
      BY <2>1, <3>1 DEF GivenG, Given
  <2>4. Mapped(GivenG(conf), a \o <<x>>) = a \o <<x>>
    <3>1. MapsParts(GivenG(conf), a, <<x>>)
      BY <2>1, <2>2, GivenTyped, MappedJoin
    <3> QED
      BY <2>1, <2>3, <3>1 DEF MapsParts
  <2> QED
    BY <2>2, <2>4
<1> HIDE DEF T, S
<1>3. T = Seq(S)
  <2>1. T \in SUBSET Seq(S)
    BY DEF T
  <2> QED
    BY <1>1, <1>2, <2>1, SeqSetInduction
<1>4. l \in T /\ l \in Seq(Items)
  BY <1>0, <1>3 DEF S
<1> QED
  BY <1>4, MappedIs DEF T

-----------------------------------------------------------------------------
(* Searches                                                                 *)

\* Of some numbers one is the least.
LEMMA LeastPlace ==
  ASSUME NEW places \in SUBSET Nat, places # {}
  PROVE  Min(places) \in places /\ \A i \in places : Min(places) <= i
<1>1. PICK x \in places : \A y \in places : ~(<<y, x>> \in OpToRel(<, Nat))
  BY NatLessThanWellFounded, WFMin
<1>2. \A y \in places : x <= y
  <2> TAKE y \in places
  <2>1. x \in Nat /\ y \in Nat /\ ~(<<y, x>> \in OpToRel(<, Nat))
    BY <1>1
  <2>2. ~(y < x)
    BY <2>1 DEF OpToRel
  <2>3. x \in Nat /\ y \in Nat
    OBVIOUS
  <2> QED
    BY <2>2, <2>3
<1>3. \E z \in places : \A y \in places : z <= y
  BY <1>2
<1>4. PICK m : m = CHOOSE z \in places : \A y \in places : z <= y
  OBVIOUS
<1>5. m \in places /\ \A y \in places : m <= y
  BY <1>3, <1>4
<1> QED
  BY <1>4, <1>5 DEF Min

\* The first place of a string where something holds, or the one behind it.
FirstPlace(str, places, q) ==
  \/ places = {} /\ q = Len(str) + 1
  \/ q \in places /\ \A i \in places : q <= i

LEMMA AtTyped ==
  ASSUME NEW str, NEW places \in SUBSET Nat
  PROVE  FirstPlace(str, places, At(str, places))
BY LeastPlace DEF FirstPlace, At, Npos

LEMMA FirstTyped ==
  ASSUME NEW str \in Seq(Lexeme), NEW chars, NEW pos \in Nat \ {0}, NEW len \in Nat, len = Len(str)
  PROVE  \E q \in Nat : /\ q = FirstOf(str, chars, pos)
                        /\ q <= len => pos <= q /\ str[q] \in chars
                        /\ q <= len \/ q = len + 1
                        /\ \A i \in pos .. len : i < q => str[i] \notin chars
<1>1. PICK places : places = { i \in pos .. len : str[i] \in chars }
  OBVIOUS
<1>2. PICK q : q = FirstOf(str, chars, pos)
  OBVIOUS
<1>3. FirstPlace(str, places, q)
  <2>1. places \in SUBSET Nat
    BY <1>1
  <2>2. q = At(str, places)
    BY <1>1, <1>2 DEF FirstOf
  <2> QED
    BY <2>1, <2>2, AtTyped
<1>4. CASE places = {} /\ q = len + 1
  BY <1>1, <1>2, <1>4
<1>5. CASE q \in places /\ \A i \in places : q <= i
  <2>1. q \in Nat /\ pos <= q /\ q <= len /\ str[q] \in chars
    BY <1>1, <1>5
  <2>2. \A i \in pos .. len : i < q => str[i] \notin chars
    BY <1>1, <1>5, <2>1
  <2> QED
    BY <1>2, <2>1, <2>2
<1> QED
  BY <1>3, <1>4, <1>5 DEF FirstPlace

\* The first sign that is not one of some.
LEMMA FirstNotIsFirst ==
  ASSUME NEW str \in Seq(Lexeme), NEW chars, NEW pos \in Nat \ {0}
  PROVE  FirstNotOf(str, chars, pos) = FirstOf(str, Lexeme \ chars, pos)
<1>1. PICK len \in Nat : len = Len(str)
  BY LenProperties
<1>2. \A i \in pos .. len : str[i] \in Lexeme
  BY <1>1, ElementOfSeq
<1>3. { i \in pos .. len : str[i] \notin chars } = { i \in pos .. len : str[i] \in Lexeme \ chars }
  BY <1>2
<1> QED
  BY <1>1, <1>3 DEF FirstNotOf, FirstOf

\* In a part of a string some signs are not there, or only they are.
Without(str, from, to, chars) == \A i \in from .. to : str[i] \notin chars
Within(str, from, to, chars)  == \A i \in from .. to : str[i] \in chars

LEMMA FirstIs ==
  ASSUME NEW str \in Seq(Lexeme), NEW chars, NEW pos \in Nat \ {0}, NEW p \in Nat, pos <= p,
         p <= Len(str), str[p] \in chars, Without(str, pos, p - 1, chars)
  PROVE  FirstOf(str, chars, pos) = p
<1>1. PICK len \in Nat : len = Len(str)
  BY LenProperties
<1>2. PICK q \in Nat : /\ q = FirstOf(str, chars, pos)
                       /\ q <= len => pos <= q /\ str[q] \in chars
                       /\ q <= len \/ q = len + 1
                       /\ \A i \in pos .. len : i < q => str[i] \notin chars
  BY <1>1, FirstTyped
<1>3. ~(q < p)
  <2> SUFFICES ASSUME q < p PROVE FALSE
    OBVIOUS
  <2>1. q <= len
    BY <1>1
  <2>2. q \in pos .. p - 1
    BY <1>2, <2>1
  <2> QED
    BY <1>2, <2>1, <2>2 DEF Without
<1>4. ~(p < q)
  <2> SUFFICES ASSUME p < q PROVE FALSE
    OBVIOUS
  <2>1. p \in pos .. len
    BY <1>1
  <2> QED
    BY <1>2, <2>1
<1> QED
  BY <1>2, <1>3, <1>4

LEMMA FirstNotIs ==
  ASSUME NEW str \in Seq(Lexeme), NEW chars, NEW pos \in Nat \ {0}, NEW p \in Nat, pos <= p,
         p <= Len(str), str[p] \notin chars, Within(str, pos, p - 1, chars)
  PROVE  FirstNotOf(str, chars, pos) = p
<1>1. str[p] \in Lexeme \ chars
  <2>1. p \in 1 .. Len(str)
    BY LenProperties
  <2> QED
    BY <2>1, ElementOfSeq
<1>2. Without(str, pos, p - 1, Lexeme \ chars)
  BY DEF Within, Without
<1>3. FirstOf(str, Lexeme \ chars, pos) = p
  BY <1>1, <1>2, FirstIs
<1> QED
  BY <1>3, FirstNotIsFirst

\* There is none up to a place.
LEMMA FirstBehind ==
  ASSUME NEW str \in Seq(Lexeme), NEW chars, NEW pos \in Nat \ {0}, NEW p \in Nat,
         p <= Len(str), pos <= p + 1, Without(str, pos, p, chars)
  PROVE  FirstOf(str, chars, pos) \in Nat /\ p < FirstOf(str, chars, pos)
<1>1. PICK len \in Nat : len = Len(str)
  BY LenProperties
<1>2. PICK q \in Nat : /\ q = FirstOf(str, chars, pos)
                       /\ q <= len => pos <= q /\ str[q] \in chars
                       /\ q <= len \/ q = len + 1
                       /\ \A i \in pos .. len : i < q => str[i] \notin chars
  BY <1>1, FirstTyped
<1>3. ~(q <= p)
  <2> SUFFICES ASSUME q <= p PROVE FALSE
    OBVIOUS
  <2>1. q <= len
    BY <1>1
  <2>2. q \in pos .. p
    BY <1>2, <2>1
  <2> QED
    BY <1>2, <2>1, <2>2 DEF Without
<1> QED
  BY <1>2, <1>3

\* A string has another behind a place.
Holds(str, n, b) == \A i \in 1 .. Len(b) : str[n + i] = b[i]

\* A part of a string, by what stands in it.
LEMMA PartIs ==
  ASSUME NEW S, NEW str, NEW b \in Seq(S), NEW n \in Nat, Holds(str, n, b), NEW m \in Nat, m = Len(b)
  PROVE  SubSeq(str, n + 1, n + m) = b
<1>0. \A i \in 1 .. m : str[n + i] = b[i]
  BY DEF Holds
<1>1. \A i \in 1 .. m : b[i] \in S
  BY ElementOfSeq
<1>2. \A i \in n + 1 .. n + m : str[i] \in S
  <2> TAKE i \in n + 1 .. n + m
  <2>1. PICK j \in 1 .. m : i = n + j
    <3>1. i - n \in 1 .. m /\ i = n + (i - n)
      OBVIOUS
    <3> QED
      BY <3>1
  <2>2. str[n + j] = b[j]
    BY <1>0
  <2> QED
    BY <1>1, <2>1, <2>2
<1>3. PICK d : d = SubSeq(str, n + 1, n + m)
  OBVIOUS
<1>4. PICK p \in Int, q \in Int : p = n + 1 /\ q = n + m
  OBVIOUS
<1>5. /\ d \in Seq(S) /\ Len(d) = (IF p <= q THEN q - p + 1 ELSE 0)
      /\ \A i \in 1 .. q - p + 1 : d[i] = str[p + i - 1]
  <2>1. \A i \in p .. q : str[i] \in S
    BY <1>2, <1>4
  <2>2. d = SubSeq(str, p, q)
    BY <1>3, <1>4
  <2> QED
    BY <2>1, <2>2, SubSeqProperties
<1>6. (IF p <= q THEN q - p + 1 ELSE 0) = m /\ q - p + 1 = m /\ \A i \in 1 .. m : p + i - 1 = n + i
  BY <1>4
<1>7. Len(d) = m /\ \A i \in 1 .. m : d[i] = b[i]
  BY <1>0, <1>5, <1>6
<1>8. d = b
  BY <1>5, <1>7, SeqEqual
<1> QED
  BY <1>3, <1>8

\* What is behind a first part.
LEMMA RestIs ==
  ASSUME NEW S, NEW a \in Seq(S), NEW b \in Seq(S), NEW n \in Nat, n = Len(a)
  PROVE  Rest(a \o b, n + 1) = b
<1>1. PICK c : c = a \o b
  OBVIOUS
<1>2. PICK m \in Nat : m = Len(b)
  BY LenProperties
<1>3. /\ c \in Seq(S) /\ Len(c) = n + m
      /\ \A i \in 1 .. n + m : c[i] = IF i <= n THEN a[i] ELSE b[i - n]
  BY <1>1, <1>2, ConcatProperties
<1>4. ASSUME NEW i \in 1 .. m PROVE c[n + i] = b[i]
  <2>1. n + i \in 1 .. n + m /\ ~(n + i <= n) /\ (n + i) - n = i
    OBVIOUS
  <2> QED
    BY <1>3, <2>1
<1>5. SubSeq(c, n + 1, n + m) = b
  <2>1. Holds(c, n, b)
    BY <1>2, <1>4 DEF Holds
  <2> QED
    BY <1>2, <2>1, PartIs
<1> QED
  BY <1>1, <1>3, <1>5 DEF Rest

\* Three strings behind one another, and where each of them is.
Join3(c, a, t, u) == c = a \o (t \o u)

Placed3(S, a, t, u, n, m, l, c) ==
  /\ n \in Nat /\ m \in Nat /\ l \in Nat /\ c \in Seq(S)
  /\ n = Len(a) /\ m = Len(t) /\ l = Len(u) /\ Join3(c, a, t, u)
  /\ Len(c) = n + m + l /\ Holds(c, 0, a) /\ Holds(c, n, t) /\ Holds(c, n + m, u)
  /\ Rest(c, n + m + 1) = u

LEMMA Made3Of ==
  ASSUME NEW S, NEW a \in Seq(S), NEW t \in Seq(S), NEW u \in Seq(S)
  PROVE  \E n, m, l, c : Placed3(S, a, t, u, n, m, l, c)
<1>1. PICK n \in Nat, m \in Nat, l \in Nat : n = Len(a) /\ m = Len(t) /\ l = Len(u)
  BY LenProperties
<1>2. PICK b \in Seq(S) : b = t \o u
  BY ConcatProperties
<1>3. Len(b) = m + l /\ \A i \in 1 .. m + l : b[i] = IF i <= m THEN t[i] ELSE u[i - m]
  BY <1>1, <1>2, ConcatProperties
<1>4. PICK c \in Seq(S) : c = a \o b
  BY ConcatProperties
<1>4a. \A k \in Nat : k = Len(b) => Len(c) = n + k /\ \A i \in 1 .. n + k : c[i] = IF i <= n THEN a[i] ELSE b[i - n]
  BY <1>1, <1>4, ConcatProperties
<1>5. Len(c) = n + (m + l) /\ \A i \in 1 .. n + (m + l) : c[i] = IF i <= n THEN a[i] ELSE b[i - n]
  <2>1. PICK k \in Nat : k = m + l /\ k = Len(b)
    BY <1>3
  <2>2. Len(c) = n + k /\ \A i \in 1 .. n + k : c[i] = IF i <= n THEN a[i] ELSE b[i - n]
    BY <1>4a, <2>1
  <2> QED
    BY <2>1, <2>2
<1>6. ASSUME NEW i \in 1 .. n PROVE c[i] = a[i]
  BY <1>5
<1>7. ASSUME NEW i \in 1 .. m + l PROVE c[n + i] = b[i]
  <2>1. n + i \in 1 .. n + (m + l) /\ ~(n + i <= n) /\ (n + i) - n = i
    OBVIOUS
  <2> QED
    BY <1>5, <2>1
<1>8. ASSUME NEW i \in 1 .. m PROVE c[n + i] = t[i]
  BY <1>3, <1>7
<1>9. ASSUME NEW i \in 1 .. l PROVE c[n + m + i] = u[i]
  <2>1. m + i \in 1 .. m + l /\ ~(m + i <= m) /\ (m + i) - m = i /\ n + (m + i) = n + m + i
    OBVIOUS
  <2>2. c[n + (m + i)] = b[m + i]
    BY <1>7, <2>1
  <2> QED
    BY <1>3, <2>1, <2>2
<1>10. Len(c) = n + m + l
  BY <1>5
<1>11. Holds(c, 0, a) /\ Holds(c, n, t) /\ Holds(c, n + m, u)
  <2>1. \A i \in 1 .. n : c[0 + i] = a[i]
    BY <1>6
  <2> QED
    BY <1>1, <1>8, <1>9, <2>1 DEF Holds
<1>12. Rest(c, n + m + 1) = u
  <2>1. PICK e \in Seq(S) : e = a \o t /\ Len(e) = n + m
    BY <1>1, ConcatProperties
  <2>2. c = e \o u
    BY <1>2, <1>4, <2>1, InGroups
  <2>3. PICK k \in Nat : k = n + m
    OBVIOUS
  <2>4. Rest(e \o u, k + 1) = u
    BY <2>1, <2>3, RestIs
  <2> QED
    BY <2>2, <2>3, <2>4
<1>13. Placed3(S, a, t, u, n, m, l, c)
  BY <1>1, <1>2, <1>4, <1>10, <1>11, <1>12 DEF Placed3, Join3
<1> QED
  BY <1>13

\* The length of a string.
Long(b, m) == m \in Nat /\ m = Len(b)

LEMMA LongIs ==
  ASSUME NEW S, NEW b \in Seq(S)
  PROVE  \E m \in Nat : Long(b, m)
<1>1. Len(b) \in Nat
  BY LenProperties
<1> QED
  BY <1>1 DEF Long

LEMMA Made3Is ==
  ASSUME NEW a \in Seq(Lexeme), NEW t \in Seq(Lexeme), NEW u \in Seq(Lexeme), NEW str, Join3(str, a, t, u),
         NEW n \in Nat, Long(a, n), NEW m \in Nat, Long(t, m), NEW l \in Nat, Long(u, l)
  PROVE  /\ str \in Seq(Lexeme) /\ Long(str, n + m + l)
         /\ Holds(str, 0, a) /\ Holds(str, n, t) /\ Holds(str, n + m, u)
         /\ Rest(str, n + m + 1) = u
<1>1. PICK p, q, r, c : Placed3(Lexeme, a, t, u, p, q, r, c)
  BY Made3Of
<1>2. /\ p = n /\ q = m /\ r = l /\ c \in Seq(Lexeme) /\ Join3(c, a, t, u)
      /\ n \in Nat /\ m \in Nat /\ l \in Nat
      /\ Len(c) = n + m + l /\ Holds(c, 0, a) /\ Holds(c, n, t) /\ Holds(c, n + m, u)
      /\ Rest(c, n + m + 1) = u
  BY <1>1 DEF Placed3, Long
<1>3. c = str
  BY <1>2 DEF Join3
<1> QED
  BY <1>2, <1>3 DEF Long

LEMMA HeldAt ==
  ASSUME NEW str, NEW n \in Nat, NEW b, Holds(str, n, b), NEW m \in Nat, Long(b, m), NEW i \in 1 .. m
  PROVE  str[n + i] = b[i]
BY DEF Holds, Long

\* A string that another has has what stands in it.
LEMMA HeldIn ==
  ASSUME NEW str, NEW n \in Nat, NEW b, Holds(str, n, b), NEW m \in Nat, Long(b, m),
         NEW k \in Nat, NEW d, Holds(b, k, d), NEW l \in Nat, Long(d, l), k + l <= m
  PROVE  Holds(str, n + k, d)
<1>1. ASSUME NEW i \in 1 .. l PROVE str[n + k + i] = d[i]
  <2>0. m \in Nat /\ m = Len(b) /\ l \in Nat /\ l = Len(d)
    BY DEF Long
  <2>1. k + i \in 1 .. m /\ n + (k + i) = n + k + i
    BY <2>0
  <2>2. str[n + (k + i)] = b[k + i]
    BY <2>0, <2>1 DEF Holds
  <2>3. b[k + i] = d[i]
    BY <2>0 DEF Holds
  <2> QED
    BY <2>1, <2>2, <2>3
<1> QED
  BY <1>1 DEF Holds, Long

\* A part of a string, by what stands in it.
LEMMA CutIs ==
  ASSUME NEW str, NEW b \in Seq(Lexeme), NEW n \in Nat, Holds(str, n, b), NEW m \in Nat, Long(b, m)
  PROVE  SubSeq(str, n + 1, n + m) = b
BY PartIs DEF Long

-----------------------------------------------------------------------------
(* What the parser finds at the beginning of a text                         *)

\* A parameter or an include.
ReadsParam(str, name, value, v) ==
  LET end       == FirstOf(str, {";"}, 1)
      start     == FirstNotOf(str, Space, 1)
      delimiter == FirstOf(str, Space, start)
  IN  /\ end \in Nat /\ delimiter \in Nat /\ start \in Nat
      /\ end = Len(str) - Len(v) /\ Len(v) \in Nat /\ end < FirstOf(str, {"{"}, 1) /\ FirstOf(str, {"{"}, 1) \in Nat
      /\ delimiter < end /\ str[start] = name /\ SubSeq(str, start, delimiter - 1) = <<name>>
      /\ SubSeq(str, FirstNotOf(str, Space, delimiter + 1), end - 1) = value
      /\ Rest(str, end + 1) = v

\* A name, a value and a sign behind it.
ParamText(t, name, value) == Join3(t, <<name, "sp">>, value, <<";">>)

\* A value has no sign that ends it and begins with a word; blank lines are ends of lines.
Signless(value) ==
  /\ \A i \in 1 .. Len(value) : value[i] \notin {";", "{", "}"}
  /\ value # <<>> => value[1] \notin Space
BlankLines(a) == a \in Seq({"nl"})

LEMMA ParamTextIs ==
  ASSUME NEW name \in Words, NEW value \in Seq(Lexeme), NEW t, ParamText(t, name, value),
         NEW m \in Nat, Long(value, m)
  PROVE  /\ t \in Seq(Lexeme) /\ Long(t, m + 3)
         /\ t[1] = name /\ t[2] = "sp" /\ t[m + 3] = ";" /\ Holds(t, 2, value)
<1>0. m \in Nat
  BY DEF Long
<1>1. PICK d \in Seq(Lexeme) : d = <<name, "sp">> /\ Long(d, 2) /\ d[1] = name /\ d[2] = "sp"
  BY SignsTyped DEF Long
<1>2. ";" \in Lexeme
  BY DEF Lexeme, Signs
<1>3. PICK e \in Seq(Lexeme) : e = <<";">> /\ Long(e, 1) /\ e[1] = ";"
  BY <1>2, OneElement DEF Long
<1>4. Join3(t, d, value, e)
  BY <1>1, <1>3 DEF ParamText
<1>5. d \in Seq(Lexeme) /\ Long(d, 2) /\ e \in Seq(Lexeme) /\ Long(e, 1)
  BY <1>1, <1>3
<1>6. /\ t \in Seq(Lexeme) /\ Long(t, 2 + m + 1)
      /\ Holds(t, 0, d) /\ Holds(t, 2, value) /\ Holds(t, 2 + m, e)
  BY <1>4, <1>5, Made3Is
<1>7. t[0 + 1] = d[1] /\ t[0 + 2] = d[2]
  <2>1. 1 \in 1 .. 2 /\ 2 \in 1 .. 2
    OBVIOUS
  <2> QED
    BY <1>5, <1>6, <2>1, HeldAt
<1>8. t[2 + m + 1] = e[1]
  <2>1. 1 \in 1 .. 1
    OBVIOUS
  <2> QED
    BY <1>5, <1>6, <2>1, HeldAt
<1>9. 2 + m + 1 = m + 3 /\ 0 + 1 = 1 /\ 0 + 2 = 2
  BY <1>0
<1> QED
  BY <1>1, <1>3, <1>6, <1>7, <1>8, <1>9

LEMMA WordIs ==
  ASSUME NEW w \in Words
  PROVE  w \notin {";"} /\ w \notin {"{"} /\ w \notin {"}"} /\ w \notin Space /\ w # "#" /\ w # "nl" /\ w \in Lexeme
BY ConfigsAssumption DEF Signs, Space, Lexeme

LEMMA WordCut ==
  ASSUME NEW name \in Lexeme, NEW c, NEW n \in Nat, c[n + 1] = name
  PROVE  SubSeq(c, n + 1, n + 1) = <<name>>
<1>1. PICK b \in Seq(Lexeme) : b = <<name>> /\ Len(b) = 1 /\ b[1] = name
  BY OneElement
<1>2. Holds(c, n, b)
  <2>1. ASSUME NEW i \in 1 .. 1 PROVE c[n + i] = b[i]
    <3>1. i = 1
      OBVIOUS
    <3> QED
      BY <1>1, <3>1
  <2> QED
    BY <1>1, <2>1 DEF Holds
<1>3. PICK x \in Nat : x = 1
  OBVIOUS
<1>4. Long(b, x)
  BY <1>1, <1>3 DEF Long
<1>5. SubSeq(c, n + 1, n + x) = b
  BY <1>2, <1>4, CutIs
<1> QED
  BY <1>1, <1>3, <1>5

LEMMA ValueCut ==
  ASSUME NEW value \in Seq(Lexeme), NEW m \in Nat, Long(value, m), NEW c, NEW p \in Nat,
         Holds(c, p, value)
  PROVE  SubSeq(c, p + 1, p + m) = value
BY CutIs

LEMMA ParamReads ==
  ASSUME NEW a, BlankLines(a), NEW name \in Words, NEW value \in Seq(Lexeme), Signless(value),
         NEW t, ParamText(t, name, value),
         NEW v \in Seq(Lexeme), NEW str, Join3(str, a, t, v)
  PROVE  ReadsParam(str, name, value, v) /\ str \in Seq(Lexeme)
<1>3. a \in Seq(Lexeme)
  <2>1. \A x \in {"nl"} : x \in Lexeme
    BY DEF Lexeme, Signs, Space
  <2> QED
    BY <2>1, SeqOver DEF BlankLines
<1>1. PICK m \in Nat, n \in Nat, l \in Nat : Long(value, m) /\ Long(a, n) /\ Long(v, l)
  BY <1>3, LongIs
<1>2. /\ t \in Seq(Lexeme) /\ Long(t, m + 3)
      /\ t[1] = name /\ t[2] = "sp" /\ t[m + 3] = ";" /\ Holds(t, 2, value)
  BY <1>1, ParamTextIs
<1>4a. PICK k \in Nat : k = m + 3
  BY <1>1
<1>4. k \in Nat /\ k = m + 3 /\ Long(t, k)
  BY <1>2, <1>4a
<1>5. PICK end \in Nat : end = n + k
  BY <1>1, <1>4
<1>5b. PICK c : c = str
  OBVIOUS
<1>6. /\ c \in Seq(Lexeme) /\ Long(c, n + k + l)
      /\ Holds(c, 0, a) /\ Holds(c, n, t) /\ Holds(c, n + k, v) /\ Rest(c, n + k + 1) = v
  <2>1. t \in Seq(Lexeme) /\ Join3(c, a, t, v) /\ k \in Nat /\ Long(t, k)
    BY <1>2, <1>4, <1>5b
  <2> QED
    BY <1>1, <1>3, <2>1, Made3Is
<1>6a. Len(c) = end + l
  BY <1>1, <1>4, <1>5, <1>6 DEF Long
<1>5a. \A i \in 1 .. n : c[i] = "nl"
  <2>1. \A i \in 1 .. n : a[i] \in {"nl"}
    BY <1>1, ElementOfSeq DEF Long, BlankLines
  <2>2. \A i \in 1 .. n : c[0 + i] = a[i] /\ 0 + i = i
    BY <1>1, <1>6 DEF Holds, Long
  <2> QED
    BY <2>1, <2>2
<1>7. c[n + 1] = name /\ c[n + 2] = "sp" /\ c[end] = ";"
  <2>1. 1 \in 1 .. k /\ 2 \in 1 .. k /\ k \in 1 .. k
    BY <1>4
  <2>2a. ASSUME NEW i \in 1 .. k PROVE c[n + i] = t[i]
    BY <1>1, <1>4, <1>6, HeldAt
  <2>2. c[n + 1] = t[1] /\ c[n + 2] = t[2] /\ c[n + k] = t[k]
    BY <2>1, <2>2a
  <2> QED
    BY <1>2, <1>4, <1>5, <2>2
<1>7a. Holds(c, n + 2, value)
  <2>1. PICK x \in Nat : x = 2 /\ x + m <= k
    BY <1>4
  <2>2. Holds(c, n + x, value)
    BY <1>1, <1>2, <1>4, <1>6, <2>1, HeldIn
  <2> QED
    BY <2>1, <2>2
<1>8. ASSUME NEW j \in 1 .. m PROVE c[n + 2 + j] = value[j]
  <2>1. PICK p \in Nat : p = n + 2
    BY <1>1
  <2>2. c[p + j] = value[j]
    <3>1. Holds(c, p, value) /\ p \in Nat
      BY <1>7a, <2>1
    <3> QED
      BY <1>1, <3>1, HeldAt
  <2> QED
    BY <2>1, <2>2
<1>9. \A i \in 1 .. end - 1 : c[i] \notin {";", "{"}
  <2> TAKE i \in 1 .. end - 1
  <2>1. CASE i \in 1 .. n
    BY <1>5a, <2>1
  <2>2. CASE i = n + 1
    BY <1>7, <2>2, WordIs
  <2>3. CASE i = n + 2
    BY <1>7, <2>3
  <2>4. CASE ~(i <= n + 2)
    <3>1. PICK j \in 1 .. m : i = n + 2 + j
      <4>1. i - (n + 2) \in 1 .. m /\ i = n + 2 + (i - (n + 2))
        BY <1>4, <1>5, <2>4
      <4> QED
        BY <4>1
    <3>2. value[j] \notin {";", "{", "}"}
      BY <1>1, <3>1 DEF Signless, Long
    <3> QED
      BY <1>8, <3>1, <3>2
  <2>5. i \in 1 .. n \/ i = n + 1 \/ i = n + 2 \/ ~(i <= n + 2)
    OBVIOUS
  <2> QED
    BY <2>1, <2>2, <2>3, <2>4, <2>5
<1>9a. n + 3 <= end /\ end <= Len(c) /\ 1 <= end
  BY <1>1, <1>4, <1>5, <1>6a
<1>10. FirstOf(c, {";"}, 1) = end
  <2>1. Without(c, 1, end - 1, {";"})
    BY <1>9 DEF Without
  <2>2. c[end] \in {";"}
    BY <1>7, Zenon
  <2>3. 1 \in Nat \ {0}
    OBVIOUS
  <2> QED
    BY <1>5, <1>6, <1>9a, <2>1, <2>2, <2>3, FirstIs
<1>11. FirstOf(c, {"{"}, 1) \in Nat /\ end < FirstOf(c, {"{"}, 1)
  <2>1. \A i \in 1 .. end : c[i] \notin {"{"}
    <3> TAKE i \in 1 .. end
    <3>1. CASE i = end
      BY <1>5, <1>7, <3>1
    <3>2. CASE i # end
      <4>1. i \in 1 .. end - 1
        BY <3>2
      <4> QED
        BY <1>9, <4>1
    <3> QED
      BY <3>1, <3>2
  <2>2. 1 <= end + 1 /\ 1 \in Nat \ {0}
    OBVIOUS
  <2>3. Without(c, 1, end, {"{"})
    BY <2>1 DEF Without
  <2> QED
    BY <1>6, <1>9a, <2>2, <2>3, FirstBehind
<1>12. FirstNotOf(c, Space, 1) = n + 1
  <2>1. Within(c, 1, (n + 1) - 1, Space)
    BY <1>5a DEF Space, Within
  <2>2. 1 <= n + 1 /\ n + 1 <= Len(c) /\ n + 1 \in Nat /\ 1 \in Nat \ {0}
    BY <1>1, <1>6, <1>9a
  <2>3. c[n + 1] \notin Space
    BY <1>7, WordIs
  <2> QED
    BY <1>6, <2>1, <2>2, <2>3, FirstNotIs
<1>13. FirstOf(c, Space, n + 1) = n + 2
  <2>1. Without(c, n + 1, (n + 2) - 1, Space)
    <3> SUFFICES \A i \in n + 1 .. (n + 2) - 1 : c[i] \notin Space
      BY DEF Without
    <3> TAKE i \in n + 1 .. (n + 2) - 1
    <3>1. i = n + 1
      OBVIOUS
    <3> QED
      BY <1>7, <3>1, WordIs
  <2>2. n + 1 <= n + 2 /\ n + 2 <= Len(c) /\ n + 2 \in Nat /\ n + 1 \in Nat \ {0}
    BY <1>1, <1>6, <1>9a
  <2>3. c[n + 2] \in Space
    BY <1>7 DEF Space
  <2> QED
    BY <1>6, <2>1, <2>2, <2>3, FirstIs
<1>14. FirstNotOf(c, Space, n + 2 + 1) = n + 3
  <2>1. c[n + 3] \notin Space
    <3>1. CASE m = 0
      <4>1. n + 3 = end
        BY <1>4, <1>5, <3>1
      <4> QED
        BY <1>7, <4>1 DEF Space
    <3>2. CASE m # 0
      <4>1. value # <<>>
        BY <1>1, <3>2, EmptySeq DEF Long
      <4>2. 1 \in 1 .. m /\ n + 2 + 1 = n + 3
        BY <3>2
      <4>3. c[n + 2 + 1] = value[1]
        BY <1>8, <4>2
      <4> QED
        BY <4>1, <4>2, <4>3 DEF Signless
    <3> QED
      BY <3>1, <3>2
  <2>2. n + 3 <= n + 3 /\ n + 3 <= Len(c) /\ n + 3 \in Nat \ {0} /\ n + 2 + 1 = n + 3
    BY <1>1, <1>6, <1>9a
  <2>3. Within(c, n + 3, (n + 3) - 1, Space)
    BY DEF Within
  <2> QED
    BY <1>6, <2>1, <2>2, <2>3, FirstNotIs
<1>15. SubSeq(c, n + 1, (n + 2) - 1) = <<name>>
  <2>1. (n + 2) - 1 = n + 1
    BY <1>1
  <2>2. SubSeq(c, n + 1, n + 1) = <<name>>
    BY <1>1, <1>7, WordIs, WordCut
  <2> QED
    BY <2>1, <2>2
<1>16. SubSeq(c, n + 3, end - 1) = value
  <2>1. PICK p \in Nat : p = n + 2
    BY <1>1
  <2>2. SubSeq(c, p + 1, p + m) = value
    <3>1. Holds(c, p, value) /\ p \in Nat
      BY <1>7a, <2>1
    <3> QED
      BY <1>1, <3>1, ValueCut
  <2>3. p + 1 = n + 3 /\ p + m = end - 1
    BY <1>1, <1>4, <1>5, <2>1
  <2> QED
    BY <2>2, <2>3
<1>17. Rest(c, end + 1) = v
  BY <1>5, <1>6
<1>18. n + 2 < end /\ n + 2 \in Nat /\ n + 1 \in Nat /\ end = Len(c) - Len(v) /\ Len(v) \in Nat
  BY <1>1, <1>6a, <1>9a DEF Long
<1>19. ReadsParam(c, name, value, v)
  BY <1>7, <1>10, <1>11, <1>12, <1>13, <1>14, <1>15, <1>16, <1>17, <1>18 DEF ReadsParam
<1> QED
  BY <1>5b, <1>6, <1>19

SignsAre ==
  /\ "sp" \in Lexeme /\ "nl" \in Lexeme /\ ";" \in Lexeme /\ "{" \in Lexeme /\ "}" \in Lexeme
  /\ "#" \in Lexeme /\ Space \subseteq Lexeme

LEMMA SignsHere == SignsAre
BY DEF SignsAre, Lexeme, Signs, Space

\* A comment: what the parser finds, and where it goes on.
ReadsComment(str, u) ==
  LET start     == FirstNotOf(str, Space, 1)
      delimiter == FirstOf(str, Space, start)
      close     == FirstOf(str, {"nl"}, start)
  IN  /\ str[start] = "#" /\ delimiter \in Nat /\ FirstOf(str, {";"}, 1) \in Nat
      /\ delimiter < FirstOf(str, {";"}, 1)
      /\ SubSeq(str, start, delimiter - 1) = <<"#">>
      /\ Rest(str, close) = <<"nl">> \o u /\ Rest(str, close + 1) = u

CommentText(t, value) == Join3(t, <<"#">>, <<"sp">>, value)
OneLine(value)        == \A i \in 1 .. Len(value) : value[i] # "nl"
Margin(a)             == a \in Seq(Space)

LEMMA CommentTextIs ==
  ASSUME NEW value \in Seq(Lexeme), NEW t, CommentText(t, value), NEW m \in Nat, Long(value, m)
  PROVE  t \in Seq(Lexeme) /\ Long(t, m + 2) /\ t[1] = "#" /\ t[2] = "sp" /\ Holds(t, 2, value)
<1>0. "#" \in Lexeme /\ "sp" \in Lexeme
  BY SignsHere DEF SignsAre
<1>1. PICK d \in Seq(Lexeme) : d = <<"#">> /\ Long(d, 1) /\ d[1] = "#"
  BY <1>0, OneElement DEF Long
<1>2. PICK e \in Seq(Lexeme) : e = <<"sp">> /\ Long(e, 1) /\ e[1] = "sp"
  BY <1>0, OneElement DEF Long
<1>3. Join3(t, d, e, value)
  BY <1>1, <1>2 DEF CommentText
<1>4. d \in Seq(Lexeme) /\ Long(d, 1) /\ e \in Seq(Lexeme) /\ Long(e, 1)
  BY <1>1, <1>2
<1>5. /\ t \in Seq(Lexeme) /\ Long(t, 1 + 1 + m)
      /\ Holds(t, 0, d) /\ Holds(t, 1, e) /\ Holds(t, 1 + 1, value)
  BY <1>3, <1>4, Made3Is
<1>6. t[0 + 1] = d[1] /\ t[1 + 1] = e[1]
  <2>1. 1 \in 1 .. 1
    OBVIOUS
  <2> QED
    BY <1>4, <1>5, <2>1, HeldAt
<1>7. 1 + 1 + m = m + 2 /\ 0 + 1 = 1 /\ 1 + 1 = 2
  OBVIOUS
<1> QED
  BY <1>1, <1>2, <1>5, <1>6, <1>7

\* The first word of a text, behind white space.
LEMMA StartReads ==
  ASSUME NEW str \in Seq(Lexeme), NEW len \in Nat, Long(str, len), NEW n \in Nat, n + 2 <= len,
         Within(str, 1, n, Space), NEW w \in Lexeme, w \notin Space, str[n + 1] = w, str[n + 2] = "sp"
  PROVE  /\ FirstNotOf(str, Space, 1) = n + 1 /\ FirstOf(str, Space, n + 1) = n + 2
         /\ SubSeq(str, n + 1, (n + 2) - 1) = <<w>>
<1>0. PICK p \in Nat, q \in Nat : p = n + 1 /\ q = n + 2 /\ 1 <= p /\ p <= q /\ q <= len /\ p - 1 = n
  OBVIOUS
<1>1. FirstNotOf(str, Space, 1) = p
  <2>1. Within(str, 1, p - 1, Space) /\ str[p] \notin Space
    BY <1>0
  <2>2. 1 \in Nat \ {0} /\ p <= Len(str)
    BY <1>0 DEF Long
  <2> QED
    BY <1>0, <2>1, <2>2, FirstNotIs
<1>2. FirstOf(str, Space, p) = q
  <2>1. Without(str, p, q - 1, Space)
    <3>1. ASSUME NEW i \in p .. q - 1 PROVE str[i] \notin Space
      <4>1. i = n + 1
        BY <1>0
      <4> QED
        BY <4>1
    <3> QED
      BY <3>1 DEF Without
  <2>2. p \in Nat \ {0} /\ q <= Len(str)
    BY <1>0 DEF Long
  <2>3. str[q] \in Space
    BY <1>0 DEF Space
  <2> QED
    BY <1>0, <2>1, <2>2, <2>3, FirstIs
<1>3. SubSeq(str, n + 1, n + 1) = <<w>>
  BY WordCut
<1>4. (n + 2) - 1 = n + 1
  OBVIOUS
<1> QED
  BY <1>0, <1>1, <1>2, <1>3, <1>4

\* The end of the second part goes to the third.
LEMMA Regrouped ==
  ASSUME NEW a \in Seq(Lexeme), NEW t \in Seq(Lexeme), NEW x \in Seq(Lexeme), NEW u \in Seq(Lexeme),
         NEW str, Join3(str, a, t, x \o u)
  PROVE  /\ Join3(str, a, t \o x, u) /\ t \o x \in Seq(Lexeme) /\ x \o u \in Seq(Lexeme)
         /\ Len(t \o x) = Len(t) + Len(x)
<1>1. (t \o x) \o u = t \o (x \o u)
  BY InGroups
<1>2. t \o x \in Seq(Lexeme) /\ x \o u \in Seq(Lexeme) /\ Len(t \o x) = Len(t) + Len(x)
  BY ConcatProperties
<1> QED
  BY <1>1, <1>2 DEF Join3

CommentLine(str, a, t, u) == Join3(str, a, t, <<"nl">> \o u)

LEMMA CommentReads ==
  ASSUME NEW a, Margin(a), NEW value \in Seq(Lexeme), OneLine(value), NEW t, CommentText(t, value),
         NEW u \in Seq(Lexeme), NEW str, CommentLine(str, a, t, u)
  PROVE  ReadsComment(str, u) /\ str \in Seq(Lexeme)
<1>0. a \in Seq(Lexeme)
  <2>1. \A x \in Space : x \in Lexeme
    BY SignsHere DEF SignsAre
  <2> QED
    BY <2>1, SeqOver DEF Margin
<1>1. PICK m \in Nat, n \in Nat, l \in Nat : Long(value, m) /\ Long(a, n) /\ Long(u, l)
  BY <1>0, LongIs
<1>2. /\ t \in Seq(Lexeme) /\ Long(t, m + 2) /\ t[1] = "#" /\ t[2] = "sp" /\ Holds(t, 2, value)
  BY <1>1, CommentTextIs
<1>3. PICK k \in Nat : k = m + 2
  BY <1>1
<1>4. Long(t, k) /\ t \in Seq(Lexeme) /\ k \in Nat
  BY <1>2, <1>3
<1>5. PICK x \in Seq(Lexeme) : x = <<"nl">> /\ Long(x, 1) /\ x[1] = "nl"
  BY SignsHere, OneElement DEF Long, SignsAre
<1>6. Join3(str, a, t, x \o u) /\ x \in Seq(Lexeme) /\ Long(x, 1)
  BY <1>5 DEF CommentLine
<1>7. PICK w \in Seq(Lexeme), y \in Seq(Lexeme), p \in Nat, q \in Nat :
        /\ w = x \o u /\ y = t \o x /\ p = 1 + l /\ q = k + 1
        /\ Join3(str, a, t, w) /\ Join3(str, a, y, u) /\ Long(w, p) /\ Long(y, q)
  <2>1. /\ Join3(str, a, t \o x, u) /\ t \o x \in Seq(Lexeme) /\ x \o u \in Seq(Lexeme)
        /\ Len(t \o x) = Len(t) + Len(x)
    BY <1>0, <1>4, <1>6, Regrouped
  <2>2. Len(x \o u) = Len(x) + Len(u)
    BY <1>6, ConcatProperties
  <2>3. Len(x) = 1 /\ Len(u) = l /\ Len(t) = k /\ 1 + l \in Nat /\ k + 1 \in Nat
    BY <1>1, <1>3, <1>4, <1>6 DEF Long
  <2>4. Long(x \o u, 1 + l) /\ Long(t \o x, k + 1)
    BY <2>1, <2>2, <2>3 DEF Long
  <2> QED
    BY <1>6, <2>1, <2>3, <2>4
<1>8. /\ Join3(str, a, t, w) /\ Join3(str, a, y, u) /\ Long(w, p) /\ Long(y, q)
      /\ w \in Seq(Lexeme) /\ y \in Seq(Lexeme) /\ p \in Nat /\ q \in Nat
  BY <1>7
<1>9. /\ str \in Seq(Lexeme) /\ Long(str, n + k + p) /\ Holds(str, 0, a) /\ Holds(str, n, t)
      /\ Holds(str, n + k, w) /\ Rest(str, n + k + 1) = w
  BY <1>0, <1>1, <1>4, <1>8, Made3Is
<1>10. Rest(str, n + q + 1) = u
  BY <1>0, <1>1, <1>8, Made3Is
<1>11. PICK len \in Nat, close \in Nat : len = n + k + p /\ close = n + k + 1 /\ close = n + m + 3 /\ close <= len
                                           /\ close + 1 = n + q + 1 /\ n + 2 <= len
  BY <1>1, <1>3, <1>7
<1>12. Within(str, 1, n, Space)
  <2>1. Within(a, 1, n, Space)
    <3>1. \A i \in 1 .. n : a[i] \in Space
      BY <1>1, ElementOfSeq DEF Margin, Long
    <3> QED
      BY <3>1 DEF Within
  <2>2. \A i \in 1 .. n : str[0 + i] = a[i] /\ 0 + i = i
    BY <1>1, <1>9 DEF Holds, Long
  <2> QED
    BY <2>1, <2>2 DEF Within
<1>13. str[n + 1] = "#" /\ str[n + 2] = "sp"
  <2>1. 1 \in 1 .. k /\ 2 \in 1 .. k
    BY <1>1, <1>3
  <2>2. ASSUME NEW i \in 1 .. k PROVE str[n + i] = t[i]
    BY <1>1, <1>3, <1>4, <1>9, HeldAt
  <2> QED
    BY <1>2, <2>1, <2>2
<1>14. str[close] = "nl"
  <2>1. PICK e \in Nat : e = n + k /\ close = e + 1
    BY <1>1, <1>3, <1>11
  <2>2. str[e + 1] = w[1]
    <3>1. Holds(str, e, w) /\ Long(w, p) /\ 1 \in 1 .. p /\ e \in Nat /\ p \in Nat
      BY <1>1, <1>7, <1>8, <1>9, <2>1
    <3>2. ASSUME NEW i \in 1 .. p PROVE str[e + i] = w[i]
      <4>1. Holds(str, e, w) /\ Long(w, p) /\ e \in Nat /\ p \in Nat
        BY <3>1
      <4> QED
        BY <4>1, HeldAt
    <3> QED
      BY <3>1, <3>2
  <2>3. w[1] = x[1]
    <3>1. w = x \o u /\ Len(x) = 1
      BY <1>6, <1>7 DEF Long
    <3>2. 1 \in 1 .. Len(x) + Len(u)
      BY <1>1, <3>1 DEF Long
    <3> QED
      BY <1>6, <3>1, <3>2, ConcatProperties
  <2> QED
    BY <1>5, <2>1, <2>2, <2>3
<1>15. Without(str, n + 1, close - 1, {"nl"})
  <2>1. PICK b \in Nat, c \in Nat, d \in Nat : b = n + 2 /\ c = n + 1 /\ d = close - 1 /\ d = b + m
    BY <1>1, <1>11
  <2>2. Holds(str, b, value)
    <3>1. 2 \in Nat /\ 2 + m <= k
      BY <1>3
    <3>2. Holds(str, n + 2, value)
      BY <1>1, <1>2, <1>3, <1>4, <1>9, <3>1, HeldIn
    <3> QED
      BY <2>1, <3>2
  <2>3. ASSUME NEW i \in c .. d PROVE str[i] # "nl"
    <3>1. CASE i = n + 1
      BY <1>13, <3>1
    <3>2. CASE i = n + 2
      BY <1>13, <3>2
    <3>3. CASE i > b
      <4>1. PICK j \in 1 .. m : i = b + j
        <5>1. i - b \in 1 .. m /\ i = b + (i - b)
          BY <1>1, <2>1, <3>3
        <5> QED
          BY <5>1
      <4>2. str[b + j] = value[j]
        BY <1>1, <2>1, <2>2, <4>1, HeldAt
      <4> QED
        BY <1>1, <4>1, <4>2 DEF OneLine, Long
    <3>4. i = n + 1 \/ i = n + 2 \/ i > b
      BY <1>1, <2>1
    <3> QED
      BY <3>1, <3>2, <3>3, <3>4
  <2>4. Without(str, c, d, {"nl"})
    BY <2>3 DEF Without
  <2> QED
    BY <2>1, <2>4
<1>16. FirstOf(str, {"nl"}, n + 1) = close
  <2>1. PICK c \in Nat : c = n + 1 /\ c <= close
    BY <1>1, <1>11
  <2>2. c \in Nat \ {0} /\ close <= Len(str)
    BY <1>1, <1>9, <1>11, <2>1 DEF Long
  <2>3. Without(str, c, close - 1, {"nl"}) /\ str[close] \in {"nl"}
    BY <1>14, <1>15, <2>1
  <2>4. FirstOf(str, {"nl"}, c) = close
    BY <1>9, <1>11, <2>1, <2>2, <2>3, FirstIs
  <2> QED
    BY <2>1, <2>4
<1>17. /\ FirstNotOf(str, Space, 1) = n + 1 /\ FirstOf(str, Space, n + 1) = n + 2
       /\ SubSeq(str, n + 1, (n + 2) - 1) = <<"#">>
  <2>1. "#" \in Lexeme /\ "#" \notin Space
    BY SignsHere DEF SignsAre, Space
  <2>2. Long(str, len)
    BY <1>9, <1>11
  <2>3. n + 2 <= len /\ len \in Nat /\ n \in Nat
    BY <1>1, <1>11
  <2>4. PICK sign \in Lexeme : sign = "#"
    BY <2>1
  <2>5. sign \in Lexeme /\ sign \notin Space /\ str[n + 1] = sign /\ str[n + 2] = "sp" /\ str \in Seq(Lexeme)
    BY <1>9, <1>13, <2>1, <2>4
  <2>6. /\ FirstNotOf(str, Space, 1) = n + 1 /\ FirstOf(str, Space, n + 1) = n + 2
        /\ SubSeq(str, n + 1, (n + 2) - 1) = <<sign>>
    BY <1>12, <2>2, <2>3, <2>5, StartReads
  <2> QED
    BY <2>4, <2>6
<1>18. FirstOf(str, {";"}, 1) \in Nat /\ n + 2 < FirstOf(str, {";"}, 1)
  <2>1. PICK e \in Nat : e = n + 2
    BY <1>1
  <2>2. Without(str, 1, e, {";"})
    <3>1. ASSUME NEW i \in 1 .. e PROVE str[i] # ";"
      <4>1. CASE i <= n
        <5>1. str[i] \in Space
          BY <1>1, <1>12, <4>1 DEF Within
        <5> QED
          BY <5>1 DEF Space
      <4>2. CASE i = n + 1 \/ i = n + 2
        BY <1>13, <4>2
      <4>3. i <= n \/ i = n + 1 \/ i = n + 2
        BY <1>1, <2>1
      <4> QED
        BY <4>1, <4>2, <4>3
    <3> QED
      BY <3>1 DEF Without
  <2>3. e <= Len(str) /\ 1 <= e + 1 /\ 1 \in Nat \ {0}
    BY <1>9, <1>11, <2>1 DEF Long
  <2>4. FirstOf(str, {";"}, 1) \in Nat /\ e < FirstOf(str, {";"}, 1)
    BY <1>9, <2>1, <2>2, <2>3, FirstBehind
  <2> QED
    BY <2>1, <2>4
<1>19. Rest(str, close) = <<"nl">> \o u /\ Rest(str, close + 1) = u
  BY <1>5, <1>7, <1>9, <1>10, <1>11
<1>20. n + 2 \in Nat
  BY <1>1
<1> QED
  BY <1>9, <1>13, <1>16, <1>17, <1>18, <1>19, <1>20 DEF ReadsComment

-----------------------------------------------------------------------------
(* The end of a block                                                       *)

LEMMA GreatestPlace ==
  ASSUME NEW places \in SUBSET Nat, NEW m \in places, \A y \in places : y <= m
  PROVE  Max(places) = m
<1>1. \A x \in places : (\A y \in places : x >= y) => x = m
  <2> TAKE x \in places
  <2>1. x \in Nat /\ m \in Nat /\ x <= m
    OBVIOUS
  <2> QED
    BY <2>1
<1>2. \A y \in places : m >= y
  <2> TAKE y \in places
  <2>1. y \in Nat /\ m \in Nat /\ y <= m
    OBVIOUS
  <2> QED
    BY <2>1
<1>3. PICK x : x = CHOOSE z \in places : \A y \in places : z >= y
  OBVIOUS
<1>4. x \in places /\ \A y \in places : x >= y
  BY <1>2, <1>3
<1> QED
  BY <1>1, <1>3, <1>4 DEF Max

\* A line begins where no line ends up to the place, at the first sign or behind a line.
Begins(str, b, i) ==
  /\ b \in Nat \ {0} /\ b <= i /\ Without(str, b, i, {"nl"})
  /\ b = 1 \/ str[b - 1] = "nl"

LEMMA LineBeginIs ==
  ASSUME NEW str \in Seq(Lexeme), NEW len \in Nat, Long(str, len), NEW i \in Nat, i <= len,
         NEW b \in Nat, Begins(str, b, i)
  PROVE  LineBegin(str, i) = b
<1>0. b \in Nat \ {0} /\ b <= i /\ b <= Len(str) /\ str[b] \notin {"nl"}
  BY DEF Begins, Without, Long
<1>1. PICK ends : ends = { k \in 1 .. i : str[k] = "nl" }
  OBVIOUS
<1>2. \A k \in ends : k \in Nat /\ k < b
  <2> SUFFICES ASSUME NEW k \in ends PROVE k \in Nat /\ k < b
    OBVIOUS
  <2>1. k \in 1 .. i /\ str[k] = "nl"
    BY <1>1
  <2>2. ~(b <= k)
    BY <2>1 DEF Begins, Without
  <2> QED
    BY <1>0, <2>1, <2>2
<1>3. CASE b = 1
  <2>1. ends = {}
    BY <1>1, <1>2, <1>3
  <2>2. Within(str, 1, 1 - 1, {"nl"}) /\ 1 \in Nat \ {0}
    BY DEF Within
  <2>3. FirstNotOf(str, {"nl"}, 1) = b
    <3>1. 1 <= b /\ Within(str, 1, b - 1, {"nl"})
      BY <1>3, <2>2
    <3> QED
      BY <1>0, <2>2, <3>1, FirstNotIs
  <2> QED
    BY <1>1, <2>1, <2>3 DEF LineBegin
<1>4. CASE b # 1
  <2>1. PICK p \in Nat : p = b - 1 /\ p # 0
    BY <1>0, <1>4
  <2>2. p \in ends
    BY <1>0, <1>1, <1>4, <2>1 DEF Begins
  <2>3. \A k \in ends : k <= p
    BY <1>2, <2>1
  <2>4. ends \in SUBSET Nat
    BY <1>1
  <2>5. Max(ends) = p
    BY <2>2, <2>3, <2>4, GreatestPlace
  <2>6. Within(str, p, b - 1, {"nl"})
    <3>1. ASSUME NEW k \in p .. b - 1 PROVE str[k] \in {"nl"}
      <4>1. k = p
        BY <2>1
      <4> QED
        BY <1>1, <2>2, <4>1
    <3> QED
      BY <3>1 DEF Within
  <2>7. FirstNotOf(str, {"nl"}, p) = b
    <3>1. p \in Nat \ {0} /\ p <= b
      BY <2>1
    <3> QED
      BY <1>0, <2>6, <3>1, FirstNotIs
  <2>8. LineBegin(str, i) = FirstNotOf(str, {"nl"}, IF ends = {} THEN 1 ELSE Max(ends))
    BY <1>1 DEF LineBegin
  <2> QED
    BY <2>2, <2>5, <2>7, <2>8
<1> QED
  BY <1>3, <1>4

\* The braces of a text are in its comments, and its last line is complete.  Behind a line
\* that is not, its first line has no such comment.
Closes(t, i)   == t[i] = "}"
Comment(t, i)  == \E b \in 1 .. i : Begins(t, b, i) /\ t[b] = "#"
Hushed(t, m)   == \A i \in 1 .. m : Closes(t, i) => Comment(t, i)
Joined(t)    == \A j \in Nat : Begins(t, 1, j) /\ Closes(t, j) => t[1] # "#"
Follows(t, n)  == n = 0 \/ Joined(t)
Ended(t, m)  == m = 0 \/ t[m] = "nl"
Quiet(t)     == t \in Seq(Lexeme) /\ \E m \in Nat : Long(t, m) /\ Hushed(t, m) /\ Ended(t, m)

\* What begins a line in a part begins it in the whole.
LEMMA BeginsHeld ==
  ASSUME NEW str, NEW n \in Nat, NEW t, Holds(str, n, t), NEW m \in Nat, Long(t, m),
         NEW i \in Nat, i <= m, NEW b \in Nat, Begins(t, b, i), n = 0 \/ str[n] = "nl" \/ b # 1
  PROVE  Begins(str, n + b, n + i) /\ str[n + b] = t[b] /\ n + b \in Nat
<1>0. b \in Nat \ {0} /\ b <= i /\ (b = 1 \/ t[b - 1] = "nl") /\ Without(t, b, i, {"nl"})
  BY DEF Begins
<1>1. ASSUME NEW k \in 1 .. m PROVE str[n + k] = t[k]
  BY HeldAt
<1>2. b \in 1 .. m /\ str[n + b] = t[b]
  BY <1>0, <1>1
<1>3. PICK from \in Nat, to \in Nat : from = n + b /\ to = n + i /\ from <= to /\ from # 0
  BY <1>0
<1>4. Without(str, from, to, {"nl"})
  <2>1. ASSUME NEW k \in from .. to PROVE str[k] \notin {"nl"}
    <3>1. PICK j \in b .. i : k = n + j
      <4>1. k - n \in b .. i /\ k = n + (k - n)
        BY <1>3
      <4> QED
        BY <4>1
    <3>2. j \in 1 .. m /\ t[j] \notin {"nl"}
      BY <1>0, <3>1 DEF Without
    <3> QED
      BY <1>1, <3>1, <3>2
  <2> QED
    BY <2>1 DEF Without
<1>5. from = 1 \/ str[from - 1] = "nl"
  <2>1. CASE b # 1
    <3>1. b - 1 \in 1 .. m /\ n + (b - 1) = from - 1
      BY <1>0, <1>3, <2>1
    <3>2. str[n + (b - 1)] = t[b - 1]
      BY <1>1, <3>1
    <3> QED
      BY <1>0, <2>1, <3>1, <3>2
  <2>2. CASE b = 1 /\ n = 0
    BY <1>3, <2>2
  <2>3. CASE b = 1 /\ str[n] = "nl"
    <3>1. from - 1 = n
      BY <1>3, <2>3
    <3> QED
      BY <2>3, <3>1
  <2> QED
    BY <2>1, <2>2, <2>3
<1>6. Begins(str, from, to)
  BY <1>3, <1>4, <1>5 DEF Begins
<1> QED
  BY <1>2, <1>3, <1>6

LEMMA JoinIs ==
  ASSUME NEW a \in Seq(Lexeme), NEW b \in Seq(Lexeme), NEW n \in Nat, Long(a, n), NEW m \in Nat, Long(b, m)
  PROVE  a \o b \in Seq(Lexeme) /\ Long(a \o b, n + m) /\ Holds(a \o b, 0, a) /\ Holds(a \o b, n, b)
<1>1. PICK c : c = a \o b
  OBVIOUS
<1>2. n = Len(a) /\ m = Len(b)
  BY DEF Long
<1>3. /\ c \in Seq(Lexeme) /\ Len(c) = n + m
      /\ \A i \in 1 .. n + m : c[i] = IF i <= n THEN a[i] ELSE b[i - n]
  BY <1>1, <1>2, ConcatProperties
<1>4. ASSUME NEW i \in 1 .. n PROVE c[0 + i] = a[i]
  BY <1>3
<1>5. ASSUME NEW i \in 1 .. m PROVE c[n + i] = b[i]
  <2>1. n + i \in 1 .. n + m /\ ~(n + i <= n) /\ (n + i) - n = i
    OBVIOUS
  <2> QED
    BY <1>3, <2>1
<1>6. Holds(c, 0, a) /\ Holds(c, n, b)
  BY <1>2, <1>4, <1>5 DEF Holds
<1>7. Long(c, n + m)
  BY <1>3 DEF Long
<1> QED
  BY <1>1, <1>3, <1>6, <1>7

LEMMA LongUnique ==
  ASSUME NEW t, NEW n \in Nat, Long(t, n), NEW m \in Nat, Long(t, m)
  PROVE  n = m
BY DEF Long

LEMMA QuietJoined ==
  ASSUME NEW a, Quiet(a), NEW b, Quiet(b)
  PROVE  Quiet(a \o b)
<1>1. PICK n \in Nat : Long(a, n) /\ Hushed(a, n) /\ Ended(a, n)
  BY DEF Quiet
<1>2. PICK m \in Nat : Long(b, m) /\ Hushed(b, m) /\ Ended(b, m)
  BY DEF Quiet
<1>3. PICK c : c = a \o b
  OBVIOUS
<1>4. a \in Seq(Lexeme) /\ b \in Seq(Lexeme)
  BY DEF Quiet
<1>5. c \in Seq(Lexeme) /\ Long(c, n + m) /\ Holds(c, 0, a) /\ Holds(c, n, b)
  BY <1>1, <1>2, <1>3, <1>4, JoinIs
<1>6. ASSUME NEW i \in 1 .. n PROVE c[i] = a[i]
  <2>1. c[0 + i] = a[i]
    BY <1>1, <1>5, HeldAt
  <2> QED
    BY <1>1, <2>1
<1>7. ASSUME NEW i \in 1 .. m PROVE c[n + i] = b[i]
  BY <1>1, <1>2, <1>5, HeldAt
<1>8. n = 0 \/ c[n] = "nl"
  <2>1. CASE n # 0
    <3>1. n \in 1 .. n /\ a[n] = "nl"
      BY <1>1, <2>1 DEF Ended
    <3> QED
      BY <1>6, <3>1
  <2> QED
    BY <2>1
<1>9. Ended(c, n + m)
  <2>1. CASE m = 0
    BY <1>1, <1>8, <2>1 DEF Ended
  <2>2. CASE m # 0
    <3>1. m \in 1 .. m /\ b[m] = "nl"
      BY <1>2, <2>2 DEF Ended
    <3> QED
      BY <1>7, <3>1 DEF Ended
  <2> QED
    BY <2>1, <2>2
<1>10. Hushed(c, n + m)
  <2> SUFFICES ASSUME NEW i \in 1 .. n + m, Closes(c, i)
               PROVE  Comment(c, i)
    BY DEF Hushed
  <2>1. CASE i <= n
    <3>1. i \in 1 .. n /\ Closes(a, i)
      <4>1. i \in 1 .. n
        BY <1>1, <2>1
      <4>2. c[i] = a[i]
        BY <1>6, <4>1
      <4> QED
        BY <4>1, <4>2, Zenon DEF Closes
    <3>2. PICK d \in 1 .. i : Begins(a, d, i) /\ a[d] = "#"
      BY <1>1, <3>1 DEF Hushed, Comment
    <3>3. i \in Nat /\ i <= n /\ d \in Nat /\ Holds(c, 0, a) /\ Begins(a, d, i) /\ 0 \in Nat
      BY <1>1, <1>5, <3>1, <3>2
    <3>4. Begins(c, 0 + d, 0 + i) /\ c[0 + d] = a[d]
      BY <1>1, <3>3, BeginsHeld
    <3>5. 0 + d = d /\ 0 + i = i
      BY <3>3
    <3> QED
      BY <3>2, <3>4, <3>5 DEF Comment
  <2>2. CASE ~(i <= n)
    <3>1. PICK j \in 1 .. m : i = n + j
      <4>1. i - n \in 1 .. m /\ i = n + (i - n)
        BY <1>1, <1>2, <2>2
      <4> QED
        BY <4>1
    <3>2. Closes(b, j)
      BY <1>7, <3>1 DEF Closes
    <3>3. PICK d \in 1 .. j : Begins(b, d, j) /\ b[d] = "#"
      BY <1>2, <3>1, <3>2 DEF Hushed, Comment
    <3>4. j \in Nat /\ j <= m /\ d \in Nat /\ Holds(c, n, b) /\ Begins(b, d, j)
      BY <1>2, <1>5, <3>1, <3>3
    <3>5. Begins(c, n + d, n + j) /\ c[n + d] = b[d]
      BY <1>1, <1>2, <1>8, <3>4, BeginsHeld
    <3>6. n + d \in 1 .. i /\ n + j = i
      BY <1>1, <1>2, <3>1, <3>3
    <3> QED
      BY <3>3, <3>5, <3>6 DEF Comment
  <2> QED
    BY <2>1, <2>2
<1>11. n + m \in Nat
  BY <1>1, <1>2
<1> QED
  BY <1>3, <1>5, <1>9, <1>10, <1>11 DEF Quiet

\* The brace behind a quiet text closes the block.
LEMMA BlockEndIs ==
  ASSUME NEW str \in Seq(Lexeme), NEW len \in Nat, Long(str, len), NEW n \in Nat,
         NEW t, Quiet(t), NEW m \in Nat, Long(t, m), m # 0, Holds(str, n, t), Follows(t, n),
         NEW e \in Nat, e = n + m + 1, e <= len, Closes(str, e)
  PROVE  findBlockEnd(str, n + 1) = e
<1>1. Hushed(t, m) /\ t[m] = "nl"
  <2>1. PICK k \in Nat : Long(t, k) /\ Hushed(t, k) /\ Ended(t, k)
    BY DEF Quiet
  <2>2. k = m
    BY <2>1, LongUnique
  <2> QED
    BY <2>1, <2>2 DEF Ended
<1>2. ASSUME NEW i \in 1 .. m PROVE str[n + i] = t[i]
  BY HeldAt
<1>3. ASSUME NEW i \in n + 1 .. len, i < e, Closes(str, i) PROVE str[LineBegin(str, i)] = "#"
  <2>1. PICK j \in 1 .. m : i = n + j
    <3>1. i - n \in 1 .. m /\ i = n + (i - n)
      BY <1>3
    <3> QED
      BY <3>1
  <2>2. Closes(t, j)
    BY <1>2, <1>3, <2>1 DEF Closes
  <2>3. PICK d \in 1 .. j : Begins(t, d, j) /\ t[d] = "#"
    BY <1>1, <2>1, <2>2 DEF Hushed, Comment
  <2>4. n = 0 \/ d # 1
    <3>1. ASSUME d = 1, Joined(t) PROVE FALSE
      <4>1. j \in Nat /\ Begins(t, 1, j) /\ t[1] = "#"
        BY <2>1, <2>3, <3>1
      <4> QED
        BY <2>2, <3>1, <4>1 DEF Joined
    <3> QED
      BY <3>1 DEF Follows
  <2>5. j \in Nat /\ j <= m /\ d \in Nat /\ Begins(t, d, j)
    BY <2>1, <2>3
  <2>6. Begins(str, n + d, n + j) /\ str[n + d] = t[d] /\ n + d \in Nat
    BY <2>4, <2>5, BeginsHeld
  <2>7. PICK b \in Nat : b = n + d
    BY <2>6
  <2>8. i \in Nat /\ i <= len /\ Begins(str, b, i)
    BY <2>1, <2>6, <2>7
  <2>9. LineBegin(str, i) = b
    BY <2>7, <2>8, LineBeginIs
  <2> QED
    BY <2>3, <2>6, <2>7, <2>9
<1>4. str[LineBegin(str, e)] # "#"
  <2>1. str[n + m] = "nl" /\ n + m = e - 1
    <3>1. m \in 1 .. m
      OBVIOUS
    <3> QED
      BY <1>1, <1>2, <3>1
  <2>2. Without(str, e, e, {"nl"})
    <3>1. ASSUME NEW i \in e .. e PROVE str[i] # "nl"
      <4>1. i = e
        OBVIOUS
      <4> QED
        BY <4>1 DEF Closes
    <3> QED
      BY <3>1 DEF Without
  <2>3. Begins(str, e, e)
    BY <2>1, <2>2 DEF Begins
  <2>4. LineBegin(str, e) = e
    BY <2>3, LineBeginIs
  <2> QED
    BY <2>4 DEF Closes
<1>5. PICK places : places = { i \in n + 1 .. len : str[i] = "}" /\ str[LineBegin(str, i)] # "#" }
  OBVIOUS
<1>5a. ASSUME NEW i \in places
       PROVE  i \in n + 1 .. len /\ Closes(str, i) /\ str[LineBegin(str, i)] # "#"
  BY <1>5 DEF Closes
<1>5b. n + 1 .. len \subseteq Nat
  OBVIOUS
<1>6. e \in places
  <2>1. e \in n + 1 .. len
    OBVIOUS
  <2> QED
    BY <1>4, <1>5, <2>1 DEF Closes
<1>7. \A i \in places : e <= i
  <2> SUFFICES ASSUME NEW i \in places PROVE ~(i < e)
    BY <1>5a, <1>5b
  <2> QED
    BY <1>3, <1>5a
<1>8. places \in SUBSET Nat
  BY <1>5a, <1>5b
<1>9. At(str, places) = e
  <2>1. FirstPlace(str, places, At(str, places))
    BY <1>8, AtTyped
  <2>2. PICK q : q = At(str, places)
    OBVIOUS
  <2>3. q \in places /\ \A i \in places : q <= i
    BY <1>6, <2>1, <2>2 DEF FirstPlace
  <2> QED
    BY <1>6, <1>7, <1>8, <2>2, <2>3
<1> QED
  BY <1>5, <1>9 DEF findBlockEnd, Long

\* A block: what the parser finds, what is in it and what is behind it.
ReadsServer(str, t, u) ==
  LET block     == FirstOf(str, {"{"}, 1)
      start     == FirstNotOf(str, Space, 1)
      delimiter == FirstOf(str, Space, start)
      blockEnd  == findBlockEnd(str, block + 1)
  IN  /\ block \in Nat /\ FirstOf(str, {";"}, 1) \in Nat /\ block < FirstOf(str, {";"}, 1)
      /\ str[start] = "server" /\ SubSeq(str, start, delimiter - 1) = <<"server">>
      /\ FirstNotOf(str, Space, delimiter) = block
      /\ blockEnd \in Nat /\ Len(str) \in Nat /\ blockEnd <= Len(str)
      /\ Rest(str, block + 1) = t \o (<<"}">> \o u) /\ Rest(str, blockEnd + 1) = u

ServerHead == <<"server", "sp", "{">>

LEMMA HeadIs ==
  /\ ServerHead \in Seq(Lexeme) /\ Long(ServerHead, 3)
  /\ ServerHead[1] = "server" /\ ServerHead[2] = "sp" /\ ServerHead[3] = "{"
<1>1. "server" \in Lexeme /\ "sp" \in Lexeme /\ "{" \in Lexeme
  BY SignsHere, ConfigsAssumption DEF SignsAre, Lexeme
<1>2. ServerHead \in Seq(Lexeme)
  BY <1>1, Tuples DEF ServerHead
<1>3. Len(ServerHead) = 3
  BY DEF ServerHead
<1> QED
  BY <1>2, <1>3 DEF ServerHead, Long

\* The signs of a text of white space, a word and two more signs.
LEMMA MarginReads ==
  ASSUME NEW a \in Seq(Lexeme), Margin(a), NEW n \in Nat, Long(a, n), NEW str, Holds(str, 0, a)
  PROVE  Within(str, 1, n, Space)
<1>1. ASSUME NEW i \in 1 .. n PROVE str[i] \in Space
  <2>1. a[i] \in Space
    BY ElementOfSeq DEF Margin, Long
  <2>2. str[0 + i] = a[i] /\ 0 + i = i
    BY DEF Holds, Long
  <2> QED
    BY <2>1, <2>2
<1> QED
  BY <1>1 DEF Within

ServerText(str, a, t, u) == Join3(str, a, ServerHead, t \o (<<"}">> \o u))
BeginsLine(t)            == t[1] = "nl"

Grouped(f, g, h) == (f \o g) \o h = f \o (g \o h)

LEMMA GroupedIs ==
  ASSUME NEW f \in Seq(Lexeme), NEW g \in Seq(Lexeme), NEW h \in Seq(Lexeme)
  PROVE  Grouped(f, g, h)
BY InGroups DEF Grouped

LEMMA ServerReads ==
  ASSUME NEW a \in Seq(Lexeme), Margin(a), NEW t, Quiet(t), NEW m \in Nat, Long(t, m), m # 0,
         BeginsLine(t), NEW u \in Seq(Lexeme), NEW str, ServerText(str, a, t, u)
  PROVE  ReadsServer(str, t, u) /\ str \in Seq(Lexeme)
<1>1. PICK n \in Nat, l \in Nat : Long(a, n) /\ Long(u, l)
  BY LongIs
<1>2. PICK x \in Seq(Lexeme) : x = <<"}">> /\ Long(x, 1) /\ Closes(x, 1)
  BY SignsHere, OneElement DEF Long, SignsAre, Closes
<1>2a. x \in Seq(Lexeme) /\ Long(x, 1) /\ Closes(x, 1) /\ t \in Seq(Lexeme)
  BY <1>2 DEF Quiet
<1>3. PICK h \in Seq(Lexeme) : /\ h = ServerHead /\ Long(h, 3)
                               /\ h[1] = "server" /\ h[2] = "sp" /\ h[3] = "{"
  BY HeadIs
<1>3a. h \in Seq(Lexeme) /\ Long(h, 3)
  BY <1>3
<1>4. PICK v \in Seq(Lexeme), w \in Seq(Lexeme), y \in Seq(Lexeme), z \in Seq(Lexeme) :
        /\ v = x \o u /\ w = t \o v /\ y = t \o x /\ z = h \o y /\ w = y \o u
        /\ Long(v, 1 + l) /\ Holds(v, 0, x)
        /\ Long(w, m + (1 + l)) /\ Holds(w, 0, t) /\ Holds(w, m, v) /\ Long(y, m + 1) /\ Long(z, 3 + (m + 1))
  <2>1. PICK v : v = x \o u
    OBVIOUS
  <2>2. v \in Seq(Lexeme) /\ Long(v, 1 + l) /\ Holds(v, 0, x)
    BY <1>1, <1>2a, <2>1, JoinIs
  <2>3. PICK w : w = t \o v
    OBVIOUS
  <2>4. PICK p \in Nat : p = 1 + l
    BY <1>1
  <2>5. w \in Seq(Lexeme) /\ Long(w, m + p) /\ Holds(w, 0, t) /\ Holds(w, m, v)
    <3>1. v \in Seq(Lexeme) /\ Long(v, p) /\ p \in Nat
      BY <2>2, <2>4
    <3> QED
      BY <1>2a, <2>3, <3>1, JoinIs
  <2>6. PICK y : y = t \o x
    OBVIOUS
  <2>7. y \in Seq(Lexeme) /\ Long(y, m + 1)
    BY <1>2a, <2>6, JoinIs
  <2>8. PICK z : z = h \o y
    OBVIOUS
  <2>9. PICK q \in Nat : q = m + 1
    OBVIOUS
  <2>10. z \in Seq(Lexeme) /\ Long(z, 3 + q)
    <3>1. y \in Seq(Lexeme) /\ Long(y, q) /\ q \in Nat
      BY <2>7, <2>9
    <3> QED
      BY <1>3a, <2>8, <3>1, JoinIs
  <2>11. w = y \o u
    <3>1. (t \o x) \o u = t \o (x \o u)
      BY <1>2a, GroupedIs DEF Grouped
    <3> QED
      BY <2>1, <2>3, <2>6, <3>1
  <2> QED
    BY <2>1, <2>2, <2>3, <2>4, <2>5, <2>6, <2>7, <2>8, <2>9, <2>10, <2>11
<1>5. Join3(str, a, h, w) /\ Join3(str, a, z, u)
  <2>1. Join3(str, a, h, y \o u)
    BY <1>2, <1>3, <1>4 DEF ServerText
  <2> QED
    BY <1>4, <2>1, Regrouped
<1>6. PICK k \in Nat, p \in Nat, q \in Nat, len \in Nat, e \in Nat :
        /\ k = n + 3 /\ p = m + (1 + l) /\ q = 3 + (m + 1) /\ len = k + p
        /\ e = k + m + 1 /\ e = n + q /\ e <= len /\ k <= e
  BY <1>1
<1>7. /\ h \in Seq(Lexeme) /\ w \in Seq(Lexeme) /\ z \in Seq(Lexeme) /\ Long(w, p) /\ Long(z, q)
      /\ Holds(w, 0, t) /\ Holds(w, m, v) /\ Holds(v, 0, x) /\ p \in Nat /\ q \in Nat
  BY <1>4, <1>6
<1>8. /\ str \in Seq(Lexeme) /\ Long(str, n + 3 + p) /\ Holds(str, 0, a) /\ Holds(str, n, h)
      /\ Holds(str, n + 3, w) /\ Rest(str, n + 3 + 1) = w
  BY <1>1, <1>3a, <1>5, <1>7, Made3Is
<1>9. Rest(str, n + q + 1) = u
  BY <1>1, <1>5, <1>7, Made3Is
<1>10. Long(str, len) /\ len = Len(str) /\ Holds(str, k, w)
  BY <1>6, <1>8 DEF Long
<1>11. str[n + 1] = "server" /\ str[n + 2] = "sp" /\ str[k] = "{"
  <2>1. ASSUME NEW i \in 1 .. 3 PROVE str[n + i] = h[i]
    BY <1>1, <1>3a, <1>8, HeldAt
  <2>2. 1 \in 1 .. 3 /\ 2 \in 1 .. 3 /\ 3 \in 1 .. 3
    OBVIOUS
  <2> QED
    BY <1>3, <1>6, <2>1, <2>2
<1>12. Within(str, 1, n, Space)
  BY <1>1, <1>8, MarginReads
<1>13. /\ FirstNotOf(str, Space, 1) = n + 1 /\ FirstOf(str, Space, n + 1) = n + 2
       /\ SubSeq(str, n + 1, (n + 2) - 1) = <<"server">>
  <2>1. "server" \in Lexeme /\ "server" \notin Space
    BY ConfigsAssumption, WordIs DEF Lexeme
  <2>2. n + 2 <= len /\ len \in Nat /\ n \in Nat /\ Long(str, len)
    BY <1>1, <1>6, <1>10
  <2>3. PICK s \in Lexeme : s = "server"
    BY <2>1
  <2>4. s \in Lexeme /\ s \notin Space /\ str[n + 1] = s /\ str[n + 2] = "sp" /\ str \in Seq(Lexeme)
    BY <1>8, <1>11, <2>1, <2>3
  <2>5. /\ FirstNotOf(str, Space, 1) = n + 1 /\ FirstOf(str, Space, n + 1) = n + 2
        /\ SubSeq(str, n + 1, (n + 2) - 1) = <<s>>
    BY <1>12, <2>2, <2>4, StartReads
  <2> QED
    BY <2>3, <2>5
<1>14. ASSUME NEW i \in 1 .. k - 1 PROVE str[i] # "{" /\ str[i] # ";"
  <2>1. CASE i <= n
    <3>1. str[i] \in Space
      BY <1>1, <1>12, <2>1 DEF Within
    <3> QED
      BY <3>1 DEF Space
  <2>2. CASE i = n + 1
    BY <1>11, <2>2, WordIs, ConfigsAssumption
  <2>3. CASE i = n + 2
    BY <1>11, <2>3
  <2>4. i <= n \/ i = n + 1 \/ i = n + 2
    BY <1>1, <1>6
  <2> QED
    BY <2>1, <2>2, <2>3, <2>4
<1>15. FirstOf(str, {"{"}, 1) = k
  <2>1. Without(str, 1, k - 1, {"{"}) /\ str[k] \in {"{"}
    BY <1>11, <1>14 DEF Without
  <2>2. 1 <= k /\ k <= Len(str) /\ 1 \in Nat \ {0}
    BY <1>1, <1>6, <1>10
  <2> QED
    BY <1>6, <1>8, <2>1, <2>2, FirstIs
<1>16. FirstOf(str, {";"}, 1) \in Nat /\ k < FirstOf(str, {";"}, 1)
  <2>1. Without(str, 1, k, {";"})
    <3>1. ASSUME NEW i \in 1 .. k PROVE str[i] # ";"
      <4>1. CASE i = k
        BY <1>11, <4>1
      <4>2. CASE i # k
        <5>1. i \in 1 .. k - 1
          BY <1>6, <4>2
        <5> QED
          BY <1>14, <5>1
      <4> QED
        BY <4>1, <4>2
    <3> QED
      BY <3>1 DEF Without
  <2>2. k <= Len(str) /\ 1 <= k + 1 /\ 1 \in Nat \ {0}
    BY <1>1, <1>6, <1>10
  <2> QED
    BY <1>6, <1>8, <2>1, <2>2, FirstBehind
<1>17. FirstNotOf(str, Space, n + 2) = k
  <2>1. PICK c \in Nat : c = n + 2 /\ c # 0 /\ c <= k /\ k - 1 = c
    BY <1>1, <1>6
  <2>2. Within(str, c, k - 1, Space)
    <3>1. ASSUME NEW i \in c .. k - 1 PROVE str[i] \in Space
      <4>1. i = n + 2
        BY <2>1
      <4> QED
        BY <1>11, <4>1 DEF Space
    <3> QED
      BY <3>1 DEF Within
  <2>3. str[k] \notin Space /\ k <= Len(str) /\ c \in Nat \ {0}
    <3>1. str[k] \notin Space
      BY <1>11 DEF Space
    <3> QED
      BY <1>6, <1>10, <2>1, <3>1
  <2>4. FirstNotOf(str, Space, c) = k
    BY <1>6, <1>8, <2>1, <2>2, <2>3, FirstNotIs
  <2> QED
    BY <2>1, <2>4
<1>18. findBlockEnd(str, k + 1) = e
  <2>1. Holds(str, k, t)
    <3>1. 0 + m <= p /\ 0 \in Nat /\ k \in Nat
      BY <1>1, <1>6
    <3>2. Holds(str, k + 0, t)
      BY <1>7, <1>10, <3>1, HeldIn
    <3> QED
      BY <1>6, <3>2
  <2>2. Closes(str, e)
    <3>1. Holds(str, k + m, v)
      <4>1. PICK r \in Nat : r = 1 + l /\ m + r <= p
        BY <1>1, <1>6
      <4>2. Long(v, r) /\ r \in Nat /\ m + r <= p /\ k \in Nat
        BY <1>4, <1>6, <4>1
      <4> QED
        BY <1>7, <1>10, <4>2, HeldIn
    <3>2. PICK c \in Nat, r \in Nat : c = k + m /\ e = c + 1 /\ r = 1 + l
      BY <1>1, <1>6
    <3>3. Holds(str, c, v) /\ Long(v, r) /\ 1 \in 1 .. r /\ c \in Nat /\ r \in Nat
      BY <1>1, <1>4, <3>1, <3>2
    <3>4. ASSUME NEW i \in 1 .. r PROVE str[c + i] = v[i]
      BY <3>3, HeldAt
    <3>5. ASSUME NEW i \in 1 .. 1 PROVE v[0 + i] = x[i]
      BY <1>2a, <1>7, HeldAt
    <3>6. str[c + 1] = v[1] /\ v[0 + 1] = x[1] /\ 0 + 1 = 1
      BY <3>3, <3>4, <3>5
    <3> QED
      BY <1>2a, <3>2, <3>6 DEF Closes
  <2>3. Follows(t, k)
    <3>1. ASSUME NEW j \in Nat, Begins(t, 1, j) PROVE FALSE
      <4>1. 1 \in 1 .. j /\ t[1] = "nl"
        BY <3>1 DEF Begins, BeginsLine
      <4> QED
        BY <3>1, <4>1 DEF Begins, Without
    <3> QED
      BY <3>1 DEF Follows, Joined
  <2>4. len \in Nat /\ k \in Nat /\ e \in Nat /\ e = k + m + 1 /\ e <= len /\ Long(str, len)
    BY <1>6, <1>10
  <2> QED
    BY <1>8, <2>1, <2>2, <2>3, <2>4, BlockEndIs
<1>19. Rest(str, k + 1) = t \o (<<"}">> \o u) /\ Rest(str, e + 1) = u
  BY <1>2, <1>4, <1>6, <1>8, <1>9
<1>20. k \in Nat /\ e \in Nat /\ e <= Len(str) /\ Len(str) \in Nat
  BY <1>6, <1>10
<1> QED
  BY <1>8, <1>11, <1>13, <1>15, <1>16, <1>17, <1>18, <1>19, <1>20 DEF ReadsServer

-----------------------------------------------------------------------------
(* What the parser has in front of it                                       *)

\* A string is the text of some statements and what comes behind them.
Ready(str, l, tail) == str = TextOf(l) \o tail

LEMMA ReadyIs ==
  ASSUME NEW l \in Seq(Items), NEW tail \in Seq(Lexeme), NEW str, Ready(str, l, tail)
  PROVE  str \in Seq(Lexeme) /\ TextOf(l) \in Seq(Lexeme)
<1>1. TextOf(l) \in Seq(Lexeme)
  BY TextTyped, MappedJoin DEF TextOf
<1> QED
  BY <1>1, ConcatProperties DEF Ready

\* Blank lines.
LEMMA BlankText ==
  ASSUME NEW b \in Seq({Blank})
  PROVE  b \in Seq(Items) /\ BlankLines(TextOf(b)) /\ Margin(TextOf(b))
<1>1. PICK G : G = [s \in {Blank} |-> <<"nl">>]
  OBVIOUS
<1>2. Gives(G, {Blank}, {"nl"})
  <2>1. <<"nl">> \in Seq({"nl"})
    BY OneElement
  <2> QED
    BY <1>1, <2>1 DEF Gives
<1>3. \A s \in {Blank} : G[s] = TextG[s]
  <2>1. Blank \in Items
    BY DEF Items
  <2> QED
    BY <1>1, <2>1 DEF TextG
<1>4. Mapped(G, b) \in Seq({"nl"})
  BY <1>2, MappedJoin
<1>5. Mapped(G, b) = TextOf(b)
  BY <1>3, MappedAlike DEF TextOf
<1>6. b \in Seq(Items)
  <2>1. \A s \in {Blank} : s \in Items
    BY DEF Items
  <2> QED
    BY <2>1, SeqOver
<1>7. PICK a \in Seq({"nl"}) : a = TextOf(b)
  BY <1>4, <1>5
<1>8. a \in Seq(Space)
  <2>1. \A x \in {"nl"} : x \in Space
    BY DEF Space
  <2> QED
    BY <2>1, SeqOver
<1> QED
  BY <1>6, <1>7, <1>8 DEF BlankLines, Margin

\* The text in front of a statement, its own and the text behind it.
LEMMA ReadyParts ==
  ASSUME NEW b \in Seq(Items), NEW s \in Items, NEW rest \in Seq(Items), NEW tail \in Seq(Lexeme),
         NEW str, Ready(str, b \o (<<s>> \o rest), tail), NEW x, x = TextOf(<<s>>)
  PROVE  \E u \in Seq(Lexeme) : Ready(u, rest, tail) /\ Join3(str, TextOf(b), x, u) /\ x \in Seq(Lexeme)
<1>1. PICK c \in Seq(Items) : c = <<s>>
  BY OneElement
<1>2. PICK r \in Seq(Items) : r = c \o rest
  BY <1>1, ConcatProperties
<1>3. PICK A \in Seq(Lexeme), X \in Seq(Lexeme), R \in Seq(Lexeme), Y \in Seq(Lexeme) :
        A = TextOf(b) /\ X = TextOf(c) /\ R = TextOf(rest) /\ Y = TextOf(r)
  <2>1. \A l \in Seq(Items) : TextOf(l) \in Seq(Lexeme)
    BY TextTyped, MappedJoin DEF TextOf
  <2> QED
    BY <1>1, <1>2, <2>1
<1>4. Y = X \o R
  <2>1. MapsParts(TextG, c, rest)
    BY <1>1, TextTyped, MappedJoin
  <2> QED
    BY <1>2, <1>3, <2>1 DEF MapsParts, TextOf
<1>5. TextOf(b \o r) = A \o Y
  <2>1. MapsParts(TextG, b, r)
    BY <1>2, TextTyped, MappedJoin
  <2> QED
    BY <1>3, <2>1 DEF MapsParts, TextOf
<1>6. PICK u \in Seq(Lexeme) : u = R \o tail
  BY <1>3, ConcatProperties
<1>7. Grouped(A, Y, tail) /\ Grouped(X, R, tail)
  BY <1>3, GroupedIs
<1>8. str = A \o (X \o u)
  BY <1>1, <1>2, <1>4, <1>5, <1>6, <1>7 DEF Grouped, Ready
<1>9. Ready(u, rest, tail)
  BY <1>3, <1>6 DEF Ready
<1> QED
  BY <1>1, <1>3, <1>6, <1>8, <1>9 DEF Join3

\* An end of line in front of a text is a blank line.
LEMMA BlankAhead ==
  ASSUME NEW rest \in Seq(Items), NEW tail \in Seq(Lexeme), NEW u, Ready(u, rest, tail)
  PROVE  /\ <<Blank>> \o rest \in Seq(Items) /\ Ready(<<"nl">> \o u, <<Blank>> \o rest, tail)
         /\ <<"nl">> \o u \in Seq(Lexeme) /\ TextOf(<<Blank>> \o rest) = <<"nl">> \o TextOf(rest)
<1>1. PICK c \in Seq(Items) : c = <<Blank>>
  <2>1. Blank \in Items
    BY DEF Items
  <2> QED
    BY <2>1, OneElement
<1>2. PICK n \in Seq(Lexeme), R \in Seq(Lexeme) : n = <<"nl">> /\ R = TextOf(rest)
  BY SignsTyped, TextTyped, MappedJoin DEF TextOf
<1>3. TextOf(c) = n
  <2>1. Blank \in Items
    BY DEF Items
  <2>2. TextOf(c) = TextG[Blank]
    BY <1>1, <2>1, TextTyped, MappedOne DEF TextOf
  <2> QED
    BY <1>2, <2>1, <2>2 DEF TextG
<1>4. TextOf(c \o rest) = n \o R
  <2>1. MapsParts(TextG, c, rest)
    BY <1>1, TextTyped, MappedJoin
  <2> QED
    BY <1>2, <1>3, <2>1 DEF MapsParts, TextOf
<1>5. Grouped(n, R, tail)
  BY <1>2, GroupedIs
<1>6. Ready(n \o u, c \o rest, tail)
  BY <1>2, <1>4, <1>5 DEF Ready, Grouped
<1>7. c \o rest \in Seq(Items)
  BY <1>1, ConcatProperties
<1>8. u \in Seq(Lexeme)
  BY ReadyIs
<1>9. n \o u \in Seq(Lexeme)
  BY <1>2, <1>8, ConcatProperties
<1> QED
  BY <1>1, <1>2, <1>4, <1>6, <1>7, <1>9

LEMMA TwoPieces ==
  ASSUME NEW p, NEW q
  PROVE  <<p, q>> = <<p>> \o <<q>>
<1>1. <<p>> \in Seq({p, q}) /\ q \in {p, q}
  <2>1. p \in {p, q} /\ q \in {p, q}
    OBVIOUS
  <2> QED
    BY <2>1, OneElement
<1>2. Append(<<p>>, q) = <<p>> \o <<q>>
  BY <1>1, AppendIsConcat
<1>0. PICK S : S = {p, q}
  OBVIOUS
<1>3. PICK one \in Seq(S), w \in Seq(S), two \in Seq(S) :
        one = <<p>> /\ w = Append(one, q) /\ two = <<p, q>> /\ q \in S
  <2>1. Append(<<p>>, q) \in Seq({p, q})
    BY <1>1, AppendProperties
  <2>2. <<p, q>> \in Seq({p, q})
    BY <1>1, Tuples
  <2> QED
    BY <1>0, <1>1, <2>1, <2>2
<1>4. Len(one) = 1 /\ one[1] = p /\ Len(two) = 2 /\ two[1] = p /\ two[2] = q
  BY <1>3
<1>5. Len(w) = 2 /\ w[1] = p /\ w[2] = q
  BY <1>3, <1>4, AppendProperties
<1>6. \A i \in 1 .. 2 : w[i] = two[i]
  <2> TAKE i \in 1 .. 2
  <2>1. i = 1 \/ i = 2
    OBVIOUS
  <2> QED
    BY <1>4, <1>5, <2>1
<1>7. w = two
  BY <1>4, <1>5, <1>6, SeqEqual
<1> QED
  BY <1>2, <1>3, <1>7

LEMMA ThreePieces ==
  ASSUME NEW p, NEW q, NEW r
  PROVE  <<p, q, r>> = <<p>> \o <<q, r>>
OBVIOUS

LEMMA FourPieces ==
  ASSUME NEW p, NEW q, NEW r, NEW s
  PROVE  <<p, q, r, s>> = <<p, q, r>> \o <<s>>
OBVIOUS

LEMMA FivePieces ==
  ASSUME NEW p, NEW q, NEW r, NEW s, NEW t
  PROVE  <<p, q, r, s, t>> = (<<p, q>> \o <<r>>) \o <<s, t>>
<1>1. <<p, q, r>> = <<p, q>> \o <<r>>
  OBVIOUS
<1>2. <<p, q, r, s, t>> = <<p, q, r>> \o <<s, t>>
  OBVIOUS
<1> QED
  BY <1>1, <1>2

LEMMA TwoSigns ==
  /\ <<";", "nl">> = <<";">> \o <<"nl">>
  /\ \A w : <<"include", "sp", w, ";", "nl">> = (<<"include", "sp">> \o <<w>>) \o <<";", "nl">>
  /\ <<"sp", "#", "sp">> = <<"sp">> \o <<"#", "sp">> /\ <<"#", "sp">> = <<"#">> \o <<"sp">>
  /\ <<"server", "sp", "{", "nl">> = ServerHead \o <<"nl">> /\ <<"}", "nl">> = <<"}">> \o <<"nl">>
<1>1. <<";", "nl">> = <<";">> \o <<"nl">> /\ <<"#", "sp">> = <<"#">> \o <<"sp">> /\ <<"}", "nl">> = <<"}">> \o <<"nl">>
  BY TwoPieces
<1>2. ASSUME NEW w PROVE <<"include", "sp", w, ";", "nl">> = (<<"include", "sp">> \o <<w>>) \o <<";", "nl">>
  <2>1. PICK p, q, s, t : p = "include" /\ q = "sp" /\ s = ";" /\ t = "nl"
    OBVIOUS
  <2>2. <<p, q, w, s, t>> = (<<p, q>> \o <<w>>) \o <<s, t>>
    BY FivePieces
  <2> QED
    BY <2>1, <2>2, Zenon
<1>3. <<"sp", "#", "sp">> = <<"sp">> \o <<"#", "sp">>
  BY ThreePieces
<1>4. <<"server", "sp", "{", "nl">> = ServerHead \o <<"nl">>
  BY FourPieces DEF ServerHead
<1> QED
  BY <1>1, <1>2, <1>3, <1>4

\* What the text of a line begins with.
LineText(x, name, value) == x = (<<name, "sp">> \o value) \o <<";", "nl">>

EndsLine(x, t) == x = t \o <<"nl">>

LEMMA LineParts ==
  ASSUME NEW name \in Words, NEW value \in Seq(Lexeme), NEW x, LineText(x, name, value)
  PROVE  \E t \in Seq(Lexeme) : ParamText(t, name, value) /\ EndsLine(x, t)
<1>1. PICK d \in Seq(Lexeme), e \in Seq(Lexeme), f \in Seq(Lexeme) :
        d = <<name, "sp">> /\ e = <<";">> /\ f = <<"nl">>
  <2>1. ";" \in Lexeme
    BY SignsHere DEF SignsAre
  <2>2. <<";">> \in Seq(Lexeme)
    BY <2>1, OneElement
  <2> QED
    BY <2>2, SignsTyped
<1>2. PICK g \in Seq(Lexeme), h \in Seq(Lexeme) : g = value \o e /\ h = d \o value
  BY <1>1, ConcatProperties
<1>3. PICK t \in Seq(Lexeme) : t = d \o g
  BY <1>1, <1>2, ConcatProperties
<1>4. Grouped(d, value, e) /\ Grouped(h, e, f)
  BY <1>1, <1>2, GroupedIs
<1>5. x = t \o f
  BY <1>1, <1>2, <1>3, <1>4, TwoSigns DEF Grouped, LineText
<1>6. ParamText(t, name, value)
  BY <1>1, <1>2, <1>3 DEF ParamText, Join3
<1> QED
  BY <1>1, <1>5, <1>6 DEF EndsLine

\* A list begins, behind blank lines, with a statement.
Leads(l, b, s, rest) == l = b \o (<<s>> \o rest) /\ b \in Seq({Blank}) /\ s \in Items /\ rest \in Seq(Items)

\* A parameter or an include is first.
LEMMA LineFirst ==
  ASSUME NEW l, NEW b, NEW s, NEW rest, Leads(l, b, s, rest), NEW tail \in Seq(Lexeme),
         NEW str, Ready(str, l, tail), NEW name \in Words, NEW value \in Seq(Lexeme), Signless(value),
         LineText(TextOf(<<s>>), name, value)
  PROVE  \E v \in Seq(Lexeme) : Ready(v, <<Blank>> \o rest, tail) /\ ReadsParam(str, name, value, v)
<1>1. b \in Seq(Items) /\ s \in Items /\ rest \in Seq(Items) /\ Ready(str, b \o (<<s>> \o rest), tail)
  BY BlankText DEF Leads
<1>2. PICK x : x = TextOf(<<s>>)
  OBVIOUS
<1>3. PICK u \in Seq(Lexeme) : Ready(u, rest, tail) /\ Join3(str, TextOf(b), x, u) /\ x \in Seq(Lexeme)
  BY <1>1, <1>2, ReadyParts
<1>4. PICK t \in Seq(Lexeme) : ParamText(t, name, value) /\ EndsLine(x, t)
  <2>1. LineText(x, name, value)
    BY <1>2
  <2> QED
    BY <2>1, LineParts
<1>5. PICK n \in Seq(Lexeme), v \in Seq(Lexeme), a \in Seq(Lexeme) :
         n = <<"nl">> /\ v = n \o u /\ a = TextOf(b) /\ BlankLines(a)
  <2>1. BlankLines(TextOf(b)) /\ TextOf(b) \in Seq(Lexeme)
    BY <1>1, BlankText, TextTyped, MappedJoin DEF TextOf, Leads
  <2>2. PICK n \in Seq(Lexeme) : n = <<"nl">>
    BY SignsTyped
  <2> QED
    BY <2>1, <2>2, ConcatProperties
<1>6. Join3(str, a, t, v)
  <2>1. Grouped(t, n, u)
    BY <1>3, <1>4, <1>5, GroupedIs
  <2> QED
    BY <1>3, <1>4, <1>5, <2>1 DEF Join3, Grouped, EndsLine
<1>7. Ready(v, <<Blank>> \o rest, tail)
  BY <1>1, <1>3, <1>5, BlankAhead
<1>8. ReadsParam(str, name, value, v)
  <2>1. ParamText(t, name, value) /\ BlankLines(a) /\ v \in Seq(Lexeme)
    BY <1>4, <1>5
  <2> QED
    BY <1>6, <2>1, ParamReads
<1> QED
  BY <1>5, <1>7, <1>8

LEMMA ItemText ==
  ASSUME NEW s \in Items, s # Blank
  PROVE  TextOf(<<s>>) = Block(s)
<1>1. TextOf(<<s>>) = TextG[s]
  BY TextTyped, MappedOne DEF TextOf
<1> QED
  BY <1>1 DEF TextG

LEMMA ParamFirst ==
  ASSUME NEW l, NEW b, NEW s \in Parameters, NEW rest, Leads(l, b, s, rest), NEW tail \in Seq(Lexeme),
         NEW str, Ready(str, l, tail)
  PROVE  \E v \in Seq(Lexeme) : Ready(v, <<Blank>> \o rest, tail) /\ ReadsParam(str, s.name, s.value, v)
<1>1. /\ s.kind = "param" /\ s.name \in Words /\ s.value \in Seq(Lexeme \ {";", "{", "}"})
      /\ (s.value # <<>> => s.value[1] \notin Space)
  BY DEF Parameters
<1>2. s \in Items /\ s # Blank
  BY <1>1, KindOfLine DEF Lines, Blank
<1>3. LineText(TextOf(<<s>>), s.name, s.value)
  BY <1>1, <1>2, ItemText DEF Block, Line, LineText
<1>4. PICK name \in Words, value \in Seq(Lexeme) : name = s.name /\ value = s.value
  <2>1. s.value \in Seq(Lexeme)
    BY <1>1, SeqOver
  <2> QED
    BY <1>1, <2>1
<1>5. Signless(value)
  <2>1. value \in Seq(Lexeme \ {";", "{", "}"})
    BY <1>1, <1>4
  <2>2. \A i \in 1 .. Len(value) : value[i] \in Lexeme \ {";", "{", "}"}
    BY <2>1, ElementOfSeq
  <2> QED
    BY <1>1, <1>4, <2>2 DEF Signless
<1>6. \E v \in Seq(Lexeme) : Ready(v, <<Blank>> \o rest, tail) /\ ReadsParam(str, name, value, v)
  BY <1>3, <1>4, <1>5, LineFirst
<1> QED
  BY <1>4, <1>6

LEMMA IncludeFirst ==
  ASSUME NEW l, NEW b, NEW s \in Includes, NEW rest, Leads(l, b, s, rest), NEW tail \in Seq(Lexeme),
         NEW str, Ready(str, l, tail)
  PROVE  \E v \in Seq(Lexeme) : Ready(v, <<Blank>> \o rest, tail) /\ ReadsParam(str, "include", <<s.file>>, v)
<1>1. s.kind = "include" /\ s.file \in Words
  BY DEF Includes
<1>2. s \in Items /\ s # Blank
  BY <1>1, KindOfLine DEF Lines, Blank
<1>4. PICK name \in Words, f \in Words, value \in Seq(Lexeme) :
         name = "include" /\ f = s.file /\ value = <<f>> /\ Len(value) = 1 /\ value[1] = f
  <2>1. s.file \in Lexeme /\ "include" \in Words
    BY <1>1, WordIs, ConfigsAssumption
  <2> QED
    BY <1>1, <2>1, OneElement
<1>3. LineText(TextOf(<<s>>), name, value)
  BY <1>1, <1>2, <1>4, ItemText, TwoSigns DEF Block, Line, LineText
<1>5. Signless(value)
  <2>1. f \notin {";", "{", "}"} /\ f \notin Space
    BY WordIs
  <2>2. \A i \in 1 .. Len(value) : i = 1
    BY <1>4
  <2> QED
    BY <1>4, <2>1, <2>2 DEF Signless
<1>6. \E v \in Seq(Lexeme) : Ready(v, <<Blank>> \o rest, tail) /\ ReadsParam(str, name, value, v)
  BY <1>3, <1>5, LineFirst
<1> QED
  BY <1>4, <1>6

\* A comment is first.
LEMMA CommentFirst ==
  ASSUME NEW l, NEW b, NEW s \in Comments, NEW rest, Leads(l, b, s, rest), NEW tail \in Seq(Lexeme),
         NEW str, Ready(str, l, tail)
  PROVE  \E u \in Seq(Lexeme) : Ready(u, rest, tail) /\ ReadsComment(str, u)
<1>1. b \in Seq(Items) /\ s \in Items /\ rest \in Seq(Items) /\ Ready(str, b \o (<<s>> \o rest), tail)
  BY BlankText DEF Leads
<1>2. PICK x : x = TextOf(<<s>>)
  OBVIOUS
<1>3. PICK u \in Seq(Lexeme) : Ready(u, rest, tail) /\ Join3(str, TextOf(b), x, u) /\ x \in Seq(Lexeme)
  BY <1>1, <1>2, ReadyParts
<1>4. PICK value \in Seq(Lexeme) : value = s.value /\ OneLine(value)
  <2>1. s.value \in Seq(Lexeme \ {"nl"})
    BY DEF Comments
  <2>2. s.value \in Seq(Lexeme)
    BY <2>1, SeqOver
  <2>3. \A i \in 1 .. Len(s.value) : s.value[i] \in Lexeme \ {"nl"}
    BY <2>1, ElementOfSeq
  <2> QED
    BY <2>2, <2>3 DEF OneLine
<1>5. PICK A \in Seq(Lexeme), n \in Seq(Lexeme), p \in Seq(Lexeme), k \in Seq(Lexeme) :
        A = TextOf(b) /\ Margin(A) /\ n = <<"nl">> /\ p = <<"sp">> /\ k = <<"#">>
  <2>1. Margin(TextOf(b)) /\ TextOf(b) \in Seq(Lexeme)
    BY <1>1, BlankText, TextTyped, MappedJoin DEF TextOf, Leads
  <2>2. <<"nl">> \in Seq(Lexeme) /\ <<"sp">> \in Seq(Lexeme) /\ <<"#">> \in Seq(Lexeme)
    BY SignsHere, OneElement DEF SignsAre
  <2> QED
    BY <2>1, <2>2
<1>6. PICK y \in Seq(Lexeme), t \in Seq(Lexeme), d \in Seq(Lexeme), e \in Seq(Lexeme), f \in Seq(Lexeme) :
        y = p \o value /\ t = k \o y /\ d = k \o p /\ e = p \o d /\ f = n \o u
  BY <1>5, ConcatProperties
<1>7. CommentText(t, value)
  BY <1>5, <1>6 DEF CommentText, Join3
<1>8. t = d \o value
  <2>1. Grouped(k, p, value)
    BY <1>5, GroupedIs
  <2> QED
    BY <1>6, <2>1 DEF Grouped
<1>9. d = <<"#", "sp">> /\ e = <<"sp", "#", "sp">>
  BY <1>5, <1>6, TwoSigns
<1>10. x = (IF s.indented THEN e ELSE d) \o value \o n
  <2>1. s.kind = "comment" /\ s # Blank
    BY DEF Comments, Blank
  <2>2. x = Line(s)
    BY <1>1, <1>2, <2>1, ItemText DEF Block
  <2> QED
    BY <1>4, <1>5, <1>9, <2>1, <2>2 DEF Line
<1>11. CASE ~s.indented
  <2>1. x = t \o n
    BY <1>8, <1>10, <1>11
  <2>2. Grouped(t, n, u)
    BY <1>3, <1>5, <1>6, GroupedIs
  <2>3. Join3(str, A, t, n \o u)
    BY <1>3, <1>5, <2>1, <2>2 DEF Grouped, Join3
  <2>4. CommentLine(str, A, t, u)
    BY <1>5, <2>3 DEF CommentLine
  <2>5. Margin(A) /\ u \in Seq(Lexeme) /\ OneLine(value) /\ value \in Seq(Lexeme)
    BY <1>3, <1>4, <1>5
  <2>6. ReadsComment(str, u)
    BY <1>7, <2>4, <2>5, CommentReads
  <2> QED
    BY <1>3, <2>6
<1>12. CASE s.indented
  <2>1. x = (e \o value) \o n
    BY <1>10, <1>12
  <2>2. Grouped(p, d, value)
    BY <1>4, <1>5, <1>6, GroupedIs
  <2>3. e \o value = p \o t
    BY <1>6, <1>8, <2>2 DEF Grouped
  <2>4. PICK g \in Seq(Lexeme), h \in Seq(Lexeme), c \in Seq(Lexeme), r \in Seq(Lexeme) :
          g = p \o t /\ h = A \o p /\ c = t \o f /\ r = n \o u
    BY <1>5, <1>6, ConcatProperties
  <2>5. Grouped(g, n, u) /\ Grouped(p, t, f) /\ Grouped(A, p, c)
    BY <1>3, <1>5, <1>6, <2>4, GroupedIs
  <2>6. x = g \o n
    BY <2>1, <2>3, <2>4
  <2>7. x \o u = p \o c
    BY <1>6, <2>4, <2>5, <2>6 DEF Grouped
  <2>8. Join3(str, h, t, f)
    BY <1>3, <1>5, <2>4, <2>5, <2>7 DEF Grouped, Join3
  <2>9. CommentLine(str, h, t, u)
    BY <1>5, <1>6, <2>8 DEF CommentLine
  <2>10. Margin(h)
    <3>1. p \in Seq(Space)
      <4>1. "sp" \in Space
        BY DEF Space
      <4> QED
        BY <1>5, <4>1, OneElement
    <3>2. A \in Seq(Space)
      BY <1>5 DEF Margin
    <3> QED
      BY <2>4, <3>1, <3>2, ConcatProperties DEF Margin
  <2>11. u \in Seq(Lexeme) /\ OneLine(value) /\ value \in Seq(Lexeme)
    BY <1>3, <1>4
  <2>12. ReadsComment(str, u)
    BY <1>7, <2>9, <2>10, <2>11, CommentReads
  <2> QED
    BY <1>3, <2>12
<1> QED
  BY <1>11, <1>12

\* A block is first.
LEMMA ServerFirst ==
  ASSUME NEW l, NEW b, NEW s \in Servs, NEW rest, Leads(l, b, s, rest), NEW tail \in Seq(Lexeme),
         NEW str, Ready(str, l, tail), NEW t, t = TextOf(<<Blank>> \o s.body), Quiet(t)
  PROVE  \E v \in Seq(Lexeme) : Ready(v, <<Blank>> \o rest, tail) /\ ReadsServer(str, t, v)
<1>1. b \in Seq(Items) /\ s \in Items /\ rest \in Seq(Items) /\ Ready(str, b \o (<<s>> \o rest), tail)
  BY BlankText DEF Leads
<1>2. PICK x : x = TextOf(<<s>>)
  OBVIOUS
<1>3. PICK u \in Seq(Lexeme) : Ready(u, rest, tail) /\ Join3(str, TextOf(b), x, u) /\ x \in Seq(Lexeme)
  BY <1>1, <1>2, ReadyParts
<1>4. PICK A \in Seq(Lexeme), n \in Seq(Lexeme), h \in Seq(Lexeme), c \in Seq(Lexeme) :
        A = TextOf(b) /\ Margin(A) /\ n = <<"nl">> /\ n[1] = "nl" /\ Long(n, 1) /\ h = ServerHead /\ c = <<"}">>
  <2>1. Margin(TextOf(b)) /\ TextOf(b) \in Seq(Lexeme)
    BY <1>1, BlankText, TextTyped, MappedJoin DEF TextOf, Leads
  <2>2. <<"nl">> \in Seq(Lexeme) /\ <<"}">> \in Seq(Lexeme) /\ <<"nl">>[1] = "nl" /\ Len(<<"nl">>) = 1
    BY SignsHere, OneElement DEF SignsAre
  <2> QED
    BY <2>1, <2>2, HeadIs DEF Long
<1>5. PICK B \in Seq(Lexeme) : B = TextOf(s.body) /\ t = n \o B
  <2>1. s.body \in Seq(Items) /\ s.body \in Seq(Lines)
    BY KindOfItem, AnyLexeme DEF Servs
  <2>2. TextOf(s.body) \in Seq(Lexeme)
    BY <2>1, TextTyped, MappedJoin DEF TextOf
  <2>3. <<>> \in Seq(Lexeme) /\ TextOf(s.body) = TextOf(s.body) \o <<>>
    BY <2>2, EmptySeq, ConcatEmptySeq
  <2>4. Ready(TextOf(s.body), s.body, <<>>)
    BY <2>3 DEF Ready
  <2>5. TextOf(<<Blank>> \o s.body) = <<"nl">> \o TextOf(s.body)
    BY <2>1, <2>3, <2>4, BlankAhead
  <2> QED
    BY <1>4, <2>2, <2>5
<1>6. PICK h4 \in Seq(Lexeme), c2 \in Seq(Lexeme) : h4 = h \o n /\ c2 = c \o n
  BY <1>4, ConcatProperties
<1>7. x = (h4 \o B) \o c2
  <2>1. s.kind = "server" /\ s # Blank /\ s.body \in Seq(Lines)
    BY DEF Servs, Blank
  <2>2. x = Block(s)
    BY <1>1, <1>2, <2>1, ItemText
  <2>3. FlattenSeq([i \in DOMAIN s.body |-> Line(s.body[i])]) = B
    BY <1>5, <2>1, TextTyped
  <2>4. h4 = <<"server", "sp", "{", "nl">> /\ c2 = <<"}", "nl">>
    BY <1>4, <1>6, TwoSigns
  <2> QED
    BY <2>1, <2>2, <2>3, <2>4 DEF Block
<1>8. PICK v \in Seq(Lexeme), w \in Seq(Lexeme), y \in Seq(Lexeme), z \in Seq(Lexeme) :
        v = n \o u /\ w = c \o v /\ y = B \o w /\ z = h4 \o B
  <2>1. \A f, g \in Seq(Lexeme) : f \o g \in Seq(Lexeme)
    BY ConcatProperties
  <2> QED
    BY <1>3, <1>4, <1>5, <1>6, <2>1
<1>9. Grouped(z, c2, u) /\ Grouped(c, n, u) /\ Grouped(h4, B, w) /\ Grouped(h, n, y) /\ Grouped(n, B, w)
  <2>1. z \in Seq(Lexeme) /\ c2 \in Seq(Lexeme) /\ u \in Seq(Lexeme) /\ c \in Seq(Lexeme) /\ n \in Seq(Lexeme)
    BY <1>3, <1>4, <1>6, <1>8
  <2>2. h4 \in Seq(Lexeme) /\ B \in Seq(Lexeme) /\ w \in Seq(Lexeme) /\ h \in Seq(Lexeme) /\ y \in Seq(Lexeme)
    BY <1>4, <1>5, <1>6, <1>8
  <2> QED
    BY <2>1, <2>2, GroupedIs
<1>10. x \o u = h \o (t \o w)
  <2>1. x \o u = z \o (c2 \o u)
    BY <1>7, <1>8, <1>9 DEF Grouped
  <2>2. c2 \o u = w
    BY <1>6, <1>8, <1>9 DEF Grouped
  <2>3. z \o w = h4 \o y
    BY <1>8, <1>9 DEF Grouped
  <2>4. h4 \o y = h \o (n \o y)
    BY <1>6, <1>9 DEF Grouped
  <2>5. n \o y = t \o w
    BY <1>5, <1>8, <1>9 DEF Grouped
  <2> QED
    BY <2>1, <2>2, <2>3, <2>4, <2>5
<1>11. ServerText(str, A, t, v)
  BY <1>3, <1>4, <1>8, <1>10 DEF ServerText, Join3
<1>12. \E m \in Nat : Long(t, m) /\ m # 0 /\ BeginsLine(t)
  <2>1. PICK m \in Nat : Long(B, m)
    BY <1>5, LongIs
  <2>2. B \in Seq(Lexeme) /\ n \in Seq(Lexeme) /\ Long(n, 1)
    BY <1>4, <1>5
  <2>3. PICK r : r = n \o B
    OBVIOUS
  <2>4. Long(r, 1 + m) /\ Holds(r, 0, n)
    BY <2>1, <2>2, <2>3, JoinIs
  <2>5. r[0 + 1] = n[1] /\ 0 + 1 = 1
    <3>1. ASSUME NEW i \in 1 .. 1 PROVE r[0 + i] = n[i]
      BY <2>2, <2>4, HeldAt
    <3>2. 1 \in 1 .. 1
      OBVIOUS
    <3> QED
      BY <3>1, <3>2
  <2>6. 1 + m \in Nat /\ 1 + m # 0
    BY <2>1
  <2> QED
    BY <1>4, <1>5, <2>3, <2>4, <2>5, <2>6 DEF BeginsLine
<1>13. PICK m \in Nat : Long(t, m) /\ m # 0 /\ BeginsLine(t)
  BY <1>12
<1>14. ReadsServer(str, t, v)
  <2>1. A \in Seq(Lexeme) /\ Margin(A) /\ v \in Seq(Lexeme) /\ m \in Nat
    BY <1>4, <1>8, <1>13
  <2> QED
    BY <1>11, <1>13, <2>1, ServerReads
<1>15. Ready(v, <<Blank>> \o rest, tail)
  BY <1>1, <1>3, <1>4, <1>8, BlankAhead
<1> QED
  BY <1>8, <1>14, <1>15

Led(S, l) == \E b \in Seq({Blank}) : \E s \in S \ {Blank} : \E rest \in Seq(S) : l = b \o (<<s>> \o rest)

MoreBehind(b, c, r, x) == Append(b \o (c \o r), x) = b \o (c \o Append(r, x))

LEMMA MoreBehindIs ==
  ASSUME NEW R, NEW b \in Seq(R), NEW c \in Seq(R), NEW r \in Seq(R), NEW x \in R
  PROVE  MoreBehind(b, c, r, x)
<1>1. PICK d \in Seq(R) : d = c \o r
  BY ConcatProperties
<1>2. c \o Append(r, x) = Append(d, x)
  BY <1>1, OneMoreBehind
<1>3. b \o Append(d, x) = Append(b \o d, x)
  BY OneMoreBehind
<1> QED
  BY <1>1, <1>2, <1>3 DEF MoreBehind

\* A list is of blank lines, or begins with a statement behind them.
LEMMA BlankOrLed ==
  ASSUME NEW S, NEW l \in Seq(S)
  PROVE  l \in Seq({Blank}) \/ Led(S, l)
<1> DEFINE T == { a \in Seq(S) : a \in Seq({Blank}) \/ Led(S, a) }
<1>1. <<>> \in T
  BY EmptySeq
<1>2. ASSUME NEW a \in T, NEW x \in S PROVE Append(a, x) \in T
  <2>1. a \in Seq(S) /\ (a \in Seq({Blank}) \/ Led(S, a))
    OBVIOUS
  <2> HIDE DEF T
  <2>2. Append(a, x) \in Seq(S)
    BY <2>1, AppendProperties
  <2>3. CASE a \in Seq({Blank}) /\ x = Blank
    BY <2>2, <2>3, AppendProperties DEF T
  <2>4. CASE a \in Seq({Blank}) /\ x # Blank
    <3>1. <<x>> \in Seq(S) /\ <<>> \in Seq(S)
      BY OneElement, EmptySeq
    <3>2. Append(a, x) = a \o <<x>> /\ <<x>> \o <<>> = <<x>>
      BY <2>1, <3>1, AppendIsConcat, ConcatEmptySeq
    <3>3. Append(a, x) = a \o (<<x>> \o <<>>)
      BY <3>2
    <3>4. Led(S, Append(a, x))
      BY <2>4, <3>1, <3>3 DEF Led
    <3> QED
      BY <2>2, <3>4 DEF T
  <2>5. CASE Led(S, a)
    <3>1. PICK b \in Seq({Blank}), s \in S \ {Blank}, rest \in Seq(S) : a = b \o (<<s>> \o rest)
      BY <2>5 DEF Led
    <3>2. PICK R : R = S \union {Blank}
      OBVIOUS
    <3>3. b \in Seq(R) /\ rest \in Seq(R) /\ s \in R /\ x \in R
      BY <3>1, <3>2, SeqOver
    <3>4. PICK c, r : c = <<s>> /\ r = Append(rest, x)
      OBVIOUS
    <3>5. c \in Seq(R)
      BY <3>3, <3>4, OneElement
    <3>6. MoreBehind(b, c, rest, x)
      BY <3>3, <3>5, MoreBehindIs
    <3>7. Append(a, x) = b \o (<<s>> \o r)
      BY <3>1, <3>4, <3>6 DEF MoreBehind
    <3>8. r \in Seq(S)
      BY <3>1, <3>4, AppendProperties
    <3>9. Led(S, Append(a, x))
      BY <3>1, <3>7, <3>8 DEF Led
    <3> QED
      BY <2>2, <3>9 DEF T
  <2> QED
    BY <2>1, <2>3, <2>4, <2>5
<1> HIDE DEF T
<1>3. T = Seq(S)
  <2>1. T \in SUBSET Seq(S)
    BY DEF T
  <2> QED
    BY <1>1, <1>2, <2>1, SeqSetInduction
<1> QED
  BY <1>3 DEF T

LEMMA SeqFrom ==
  ASSUME NEW L, NEW a \in Seq(L), NEW S, \A i \in 1 .. Len(a) : a[i] \in S
  PROVE  a \in Seq(S)
OBVIOUS

LEMMA PartsOver ==
  ASSUME NEW a \in Seq(Lexeme), NEW b \in Seq(Lexeme), NEW S, a \o b \in Seq(S)
  PROVE  a \in Seq(S) /\ b \in Seq(S)
<1>1. PICK n \in Nat, m \in Nat : Long(a, n) /\ Long(b, m)
  BY LongIs
<1>2. PICK c \in Seq(S) : c = a \o b
  OBVIOUS
<1>3. Long(c, n + m) /\ Holds(c, 0, a) /\ Holds(c, n, b)
  BY <1>1, <1>2, JoinIs
<1>4. ASSUME NEW i \in 1 .. n + m PROVE c[i] \in S
  BY <1>2, <1>3, ElementOfSeq DEF Long
<1>5. ASSUME NEW i \in 1 .. n PROVE a[i] \in S
  <2>1. c[0 + i] = a[i] /\ 0 + i = i
    BY <1>1, <1>3, HeldAt
  <2>2. i \in 1 .. n + m
    BY <1>1
  <2> QED
    BY <1>4, <2>1, <2>2
<1>6. ASSUME NEW i \in 1 .. m PROVE b[i] \in S
  <2>1. c[n + i] = b[i]
    BY <1>1, <1>3, HeldAt
  <2>2. n + i \in 1 .. n + m
    BY <1>1
  <2> QED
    BY <1>4, <2>1, <2>2
<1>7. n = Len(a) /\ m = Len(b)
  BY <1>1 DEF Long
<1> QED
  BY <1>5, <1>6, <1>7, SeqFrom

LEMMA LineTextIs ==
  ASSUME NEW s \in Parameters \union Includes
  PROVE  \E name \in Words : \E value \in Seq(Lexeme) : Signless(value) /\ LineText(TextOf(<<s>>), name, value)
<1>1. CASE s \in Parameters
  <2>1. /\ s.kind = "param" /\ s.name \in Words /\ s.value \in Seq(Lexeme \ {";", "{", "}"})
        /\ (s.value # <<>> => s.value[1] \notin Space)
    BY <1>1 DEF Parameters
  <2>2. s \in Items /\ s # Blank
    BY <1>1, <2>1, KindOfLine DEF Lines, Blank
  <2>3. LineText(TextOf(<<s>>), s.name, s.value)
    BY <2>1, <2>2, ItemText DEF Block, Line, LineText
  <2>4. s.value \in Seq(Lexeme)
    BY <2>1, SeqOver
  <2>5. \A i \in 1 .. Len(s.value) : s.value[i] \in Lexeme \ {";", "{", "}"}
    BY <2>1, ElementOfSeq
  <2> QED
    BY <2>1, <2>3, <2>4, <2>5 DEF Signless
<1>2. CASE s \in Includes
  <2>1. s.kind = "include" /\ s.file \in Words
    BY <1>2 DEF Includes
  <2>2. s \in Items /\ s # Blank
    BY <1>2, <2>1, KindOfLine DEF Lines, Blank
  <2>3. PICK name \in Words, f \in Words, value \in Seq(Lexeme) :
           name = "include" /\ f = s.file /\ value = <<f>> /\ Len(value) = 1 /\ value[1] = f
    <3>1. s.file \in Lexeme /\ "include" \in Words
      BY <2>1, WordIs, ConfigsAssumption
    <3> QED
      BY <2>1, <3>1, OneElement
  <2>4. LineText(TextOf(<<s>>), name, value)
    BY <2>1, <2>2, <2>3, ItemText, TwoSigns DEF Block, Line, LineText
  <2>5. Signless(value)
    <3>1. f \notin {";", "{", "}"} /\ f \notin Space
      BY <2>3, WordIs
    <3>2. \A i \in 1 .. Len(value) : i = 1
      BY <2>3
    <3> QED
      BY <2>3, <3>1, <3>2 DEF Signless
  <2> QED
    BY <2>3, <2>4, <2>5
<1> QED
  BY <1>1, <1>2

\* Texts without the sign that ends a parameter.
Mute   == Lexeme \ {";"}
Marked == { s \in Items : s.kind = "server" => \E k \in DOMAIN s.body : s.body[k].kind # "comment" }

LEMMA LineSilent ==
  ASSUME NEW s \in Lines, TextOf(<<s>>) \in Seq(Mute)
  PROVE  s.kind = "comment"
<1>1. CASE s \in Parameters \union Includes
  <2>1. PICK name \in Words, value \in Seq(Lexeme) : LineText(TextOf(<<s>>), name, value)
    BY <1>1, LineTextIs
  <2>2. PICK x : x = TextOf(<<s>>)
    OBVIOUS
  <2>3. PICK t \in Seq(Lexeme) : ParamText(t, name, value) /\ EndsLine(x, t)
    <3>1. LineText(x, name, value)
      BY <2>1, <2>2
    <3> QED
      BY <2>1, <3>1, LineParts
  <2>4. PICK m \in Nat : Long(value, m)
    BY <2>1, LongIs
  <2>5. ParamText(t, name, value) /\ name \in Words /\ value \in Seq(Lexeme) /\ m \in Nat /\ Long(value, m)
    BY <2>1, <2>3, <2>4
  <2>50. /\ t \in Seq(Lexeme) /\ Long(t, m + 3)
         /\ t[1] = name /\ t[2] = "sp" /\ t[m + 3] = ";" /\ Holds(t, 2, value)
    BY <2>5, ParamTextIs
  <2>6. t \in Seq(Mute)
    <3>1. <<"nl">> \in Seq(Lexeme) /\ t \in Seq(Lexeme) /\ t \o <<"nl">> \in Seq(Mute)
      BY <2>2, <2>3, SignsTyped DEF EndsLine
    <3> QED
      BY <3>1, PartsOver
  <2>7. PICK k \in Nat : k = m + 3 /\ k \in 1 .. k
    BY <2>4
  <2>70. k = Len(t) /\ t[k] = ";"
    BY <2>7, <2>50 DEF Long
  <2>71. k \in 1 .. Len(t)
    BY <2>7, <2>70, Zenon
  <2>8. t[k] \in Mute
    BY <2>6, <2>71, ElementOfSeq
  <2> QED
    BY <2>70, <2>8 DEF Mute
<1>2. CASE s \in Comments
  BY <1>2 DEF Comments
<1> QED
  BY <1>1, <1>2 DEF Lines

\* A text of two lists in another alphabet.
LEMMA TextParts ==
  ASSUME NEW a \in Seq(Items), NEW x \in Items
  PROVE  /\ Append(a, x) \in Seq(Items) /\ Append(a, x) = a \o <<x>> /\ <<x>> \in Seq(Items)
         /\ TextOf(Append(a, x)) = TextOf(a) \o TextOf(<<x>>)
         /\ TextOf(a) \in Seq(Lexeme) /\ TextOf(<<x>>) \in Seq(Lexeme)
<1>1. PICK c \in Seq(Items) : c = <<x>>
  BY OneElement
<1>2. Append(a, x) = a \o c
  BY <1>1, AppendIsConcat
<1>3. MapsParts(TextG, a, c) /\ Mapped(TextG, a) \in Seq(Lexeme) /\ Mapped(TextG, c) \in Seq(Lexeme)
  BY <1>1, TextTyped, MappedJoin
<1>4. a \o c \in Seq(Items)
  BY <1>1, ConcatProperties
<1> QED
  BY <1>1, <1>2, <1>3, <1>4 DEF MapsParts, TextOf

OnlyComments(l) == \A k \in DOMAIN l : l[k].kind = "comment"

LEMMA BodySilent ==
  ASSUME NEW l \in Seq(Lines), TextOf(l) \in Seq(Mute)
  PROVE  OnlyComments(l)
<1> DEFINE T == { a \in Seq(Lines) : TextOf(a) \in Seq(Mute) => OnlyComments(a) }
<1>1. <<>> \in T
  BY EmptySeq DEF OnlyComments
<1>2. ASSUME NEW a \in T, NEW x \in Lines PROVE Append(a, x) \in T
  <2>1. a \in Seq(Lines) /\ (TextOf(a) \in Seq(Mute) => OnlyComments(a)) /\ Append(a, x) \in Seq(Lines)
    BY AppendProperties
  <2> HIDE DEF T
  <2>2. a \in Seq(Items) /\ x \in Items
    BY <2>1, AnyLexeme, KindOfLine
  <2>3. /\ TextOf(Append(a, x)) = TextOf(a) \o TextOf(<<x>>)
        /\ TextOf(a) \in Seq(Lexeme) /\ TextOf(<<x>>) \in Seq(Lexeme)
    BY <2>2, TextParts
  <2>4. ASSUME TextOf(Append(a, x)) \in Seq(Mute) PROVE OnlyComments(Append(a, x))
    <3>1. TextOf(a) \in Seq(Mute) /\ TextOf(<<x>>) \in Seq(Mute)
      BY <2>3, <2>4, PartsOver
    <3>2. OnlyComments(a) /\ x.kind = "comment"
      BY <2>1, <3>1, LineSilent
    <3>3. PICK n \in Nat : n = Len(a) /\ DOMAIN a = 1 .. n
      BY <2>1, LenProperties
    <3>4. PICK c : c = Append(a, x)
      OBVIOUS
    <3>5. /\ c \in Seq(Lines) /\ Len(c) = n + 1 /\ c[n + 1] = x
          /\ \A i \in 1 .. n : c[i] = a[i]
      BY <2>1, <3>3, <3>4, OneLonger
    <3>6. ASSUME NEW i \in 1 .. n + 1 PROVE c[i].kind = "comment"
      <4>1. CASE i = n + 1
        BY <3>2, <3>5, <4>1
      <4>2. CASE i # n + 1
        <5>1. i \in 1 .. n
          BY <3>3, <4>2
        <5> QED
          BY <3>2, <3>3, <3>5, <5>1 DEF OnlyComments
      <4> QED
        BY <4>1, <4>2
    <3>7. DOMAIN c = 1 .. n + 1
      BY <3>5, LenProperties
    <3> QED
      BY <3>4, <3>6, <3>7 DEF OnlyComments
  <2> QED
    BY <2>1, <2>4 DEF T
<1> HIDE DEF T
<1>3. T = Seq(Lines)
  <2>1. T \in SUBSET Seq(Lines)
    BY DEF T
  <2> QED
    BY <1>1, <1>2, <2>1, SeqSetInduction
<1> QED
  BY <1>3 DEF T

LEMMA ItemSilent ==
  ASSUME NEW conf \in Configs, NEW s \in Marked, TextOf(<<s>>) \in Seq(Mute)
  PROVE  Told(conf, <<s>>) = <<>> /\ Hosted(conf, <<s>>) = <<>>
<1>1. s \in Items
  BY DEF Marked
<1>2. CASE s.kind \notin {"param", "include", "server"}
  <2>1. Told(conf, <<s>>) = ParamOf(s) /\ Hosted(conf, <<s>>) = ServerOf(conf, s)
    BY <1>1, <1>2, ToldOne
  <2> QED
    BY <1>2, <2>1 DEF ParamOf, ServerOf
<1>3. CASE s.kind \in {"param", "include"}
  <2>1. s \in Lines
    BY <1>1, <1>3, KindOfItem DEF Lines
  <2> QED
    BY <1>3, <2>1, LineSilent
<1>4. CASE s.kind = "server"
  <2>1. s.body \in Seq(Lines) /\ s # Blank /\ ~OnlyComments(s.body)
    BY <1>1, <1>4, KindOfItem DEF Marked, OnlyComments, Blank
  <2>2. TextOf(<<s>>) = Block(s)
    BY <1>1, <2>1, ItemText
  <2>3. PICK B \in Seq(Lexeme), h \in Seq(Lexeme), c \in Seq(Lexeme) :
           B = TextOf(s.body) /\ h = <<"server", "sp", "{", "nl">> /\ c = <<"}", "nl">>
    <3>1. s.body \in Seq(Items)
      BY <2>1, AnyLexeme
    <3>2. TextOf(s.body) \in Seq(Lexeme)
      BY <3>1, TextTyped, MappedJoin DEF TextOf
    <3> QED
      BY <3>2, SignsTyped
  <2>4. Block(s) = (h \o B) \o c
    <3>1. FlattenSeq([i \in DOMAIN s.body |-> Line(s.body[i])]) = B
      BY <2>1, <2>3, TextTyped
    <3> QED
      BY <1>4, <2>3, <3>1 DEF Block
  <2>5. PICK g \in Seq(Lexeme) : g = h \o B
    BY <2>3, ConcatProperties
  <2>6. g \in Seq(Mute)
    <3>1. g \in Seq(Lexeme) /\ c \in Seq(Lexeme) /\ g \o c \in Seq(Mute)
      BY <2>2, <2>3, <2>4, <2>5
    <3> QED
      BY <3>1, PartsOver
  <2>7. B \in Seq(Mute)
    <3>1. h \in Seq(Lexeme) /\ B \in Seq(Lexeme) /\ h \o B \in Seq(Mute)
      BY <2>3, <2>5, <2>6
    <3> QED
      BY <3>1, PartsOver
  <2> QED
    BY <2>1, <2>3, <2>7, BodySilent
<1> QED
  BY <1>2, <1>3, <1>4

\* Without a sign that ends a parameter nothing is said.
LEMMA ListSilent ==
  ASSUME NEW conf \in Configs, NEW l \in Seq(Marked), TextOf(l) \in Seq(Mute)
  PROVE  Told(conf, l) = <<>> /\ Hosted(conf, l) = <<>>
<1> DEFINE T == { a \in Seq(Marked) : TextOf(a) \in Seq(Mute) => Told(conf, a) = <<>> /\ Hosted(conf, a) = <<>> }
<1>1. <<>> \in T
  BY EmptySeq, ToldNothing
<1>2. ASSUME NEW a \in T, NEW x \in Marked PROVE Append(a, x) \in T
  <2>1. /\ a \in Seq(Marked) /\ Append(a, x) \in Seq(Marked)
        /\ (TextOf(a) \in Seq(Mute) => Told(conf, a) = <<>> /\ Hosted(conf, a) = <<>>)
    BY AppendProperties
  <2> HIDE DEF T
  <2>2. a \in Seq(Items) /\ x \in Items
    BY <2>1, SeqOver DEF Marked
  <2>3. /\ TextOf(Append(a, x)) = TextOf(a) \o TextOf(<<x>>) /\ Append(a, x) = a \o <<x>>
        /\ TextOf(a) \in Seq(Lexeme) /\ TextOf(<<x>>) \in Seq(Lexeme) /\ <<x>> \in Seq(Items)
    BY <2>2, TextParts
  <2>4. ASSUME TextOf(Append(a, x)) \in Seq(Mute)
        PROVE  Told(conf, Append(a, x)) = <<>> /\ Hosted(conf, Append(a, x)) = <<>>
    <3>1. TextOf(a) \in Seq(Mute) /\ TextOf(<<x>>) \in Seq(Mute)
      BY <2>3, <2>4, PartsOver
    <3>2. Told(conf, a) = <<>> /\ Hosted(conf, a) = <<>> /\ Told(conf, <<x>>) = <<>> /\ Hosted(conf, <<x>>) = <<>>
      BY <2>1, <3>1, ItemSilent
    <3>3. /\ Told(conf, a \o <<x>>) = Told(conf, a) \o Told(conf, <<x>>)
          /\ Hosted(conf, a \o <<x>>) = Hosted(conf, a) \o Hosted(conf, <<x>>)
      BY <2>2, <2>3, ToldJoined
    <3>4. <<>> \o <<>> = <<>>
      BY EmptySeq, ConcatEmptySeq
    <3> QED
      BY <2>3, <3>2, <3>3, <3>4
  <2> QED
    BY <2>1, <2>4 DEF T
<1> HIDE DEF T
<1>3. T = Seq(Marked)
  <2>1. T \in SUBSET Seq(Marked)
    BY DEF T
  <2> QED
    BY <1>1, <1>2, <2>1, SeqSetInduction
<1> QED
  BY <1>3 DEF T

Open   == Lexeme \ {"}"}
Unended == Lexeme \ {"nl"}

\* A line of a text: its signs, and its end.
LEMMA LineEnds ==
  ASSUME NEW y \in Seq(Lexeme), NEW m \in Nat, Long(y, m), NEW x, EndsLine(x, y)
  PROVE  \E k \in Nat : /\ k = m + 1 /\ x \in Seq(Lexeme) /\ Long(x, k) /\ x[k] = "nl"
                        /\ \A i \in 1 .. m : x[i] = y[i]
<1>1. PICK n \in Seq(Lexeme) : n = <<"nl">> /\ Long(n, 1) /\ n[1] = "nl"
  <2>1. "nl" \in Lexeme
    BY SignsHere DEF SignsAre
  <2> QED
    BY <2>1, OneElement DEF Long
<1>2. x = y \o n
  BY <1>1 DEF EndsLine
<1>3. n \in Seq(Lexeme) /\ Long(n, 1)
  BY <1>1
<1>4. x \in Seq(Lexeme) /\ Long(x, m + 1) /\ Holds(x, 0, y) /\ Holds(x, m, n)
  BY <1>2, <1>3, JoinIs
<1>5. PICK k \in Nat : k = m + 1
  OBVIOUS
<1>6. x[m + 1] = n[1]
  <2>1. 1 \in 1 .. 1
    OBVIOUS
  <2> QED
    BY <1>3, <1>4, <2>1, HeldAt
<1>7. \A i \in 1 .. m : x[i] = y[i]
  <2> TAKE i \in 1 .. m
  <2>1. x[0 + i] = y[i]
    BY <1>4, HeldAt
  <2> QED
    BY <2>1
<1> QED
  BY <1>1, <1>4, <1>5, <1>6, <1>7

LEMMA QuietOpen ==
  ASSUME NEW y \in Seq(Open), NEW x, EndsLine(x, y)
  PROVE  Quiet(x)
<1>1. y \in Seq(Lexeme)
  BY SeqOver DEF Open
<1>2. PICK m \in Nat : Long(y, m)
  BY LongIs
<1>3. PICK k \in Nat : /\ k = m + 1 /\ x \in Seq(Lexeme) /\ Long(x, k) /\ x[k] = "nl"
                       /\ \A i \in 1 .. m : x[i] = y[i]
  BY <1>1, <1>2, LineEnds
<1>4. ASSUME NEW i \in 1 .. k, Closes(x, i) PROVE FALSE
  <2>1. CASE i \in 1 .. m
    <3>1. y[i] \in Open
      BY <1>2, <2>1, ElementOfSeq DEF Long
    <3> QED
      BY <1>3, <1>4, <2>1, <3>1 DEF Closes, Open
  <2>2. CASE i = k
    BY <1>3, <1>4, <2>2 DEF Closes
  <2> QED
    BY <1>2, <1>3, <2>1, <2>2
<1>5. Hushed(x, k) /\ Ended(x, k)
  BY <1>3, <1>4 DEF Hushed, Ended
<1> QED
  BY <1>3, <1>5 DEF Quiet

LEMMA QuietComment ==
  ASSUME NEW y \in Seq(Unended), NEW m \in Nat \ {0}, Long(y, m), y[1] = "#", NEW x, EndsLine(x, y)
  PROVE  Quiet(x)
<1>1. y \in Seq(Lexeme)
  BY SeqOver DEF Unended
<1>3. PICK k \in Nat : /\ k = m + 1 /\ x \in Seq(Lexeme) /\ Long(x, k) /\ x[k] = "nl"
                       /\ \A i \in 1 .. m : x[i] = y[i]
  BY <1>1, LineEnds
<1>4. ASSUME NEW i \in 1 .. k, Closes(x, i) PROVE Comment(x, i)
  <2>1. CASE i \in 1 .. m
    <3>1. ASSUME NEW j \in 1 .. i PROVE x[j] \notin {"nl"}
      <4>1. j \in 1 .. m
        BY <2>1
      <4>2. y[j] \in Unended
        BY <4>1, ElementOfSeq DEF Long
      <4> QED
        BY <1>3, <4>1, <4>2 DEF Unended
    <3>2. Without(x, 1, i, {"nl"})
      BY <3>1 DEF Without
    <3>3. Begins(x, 1, i)
      BY <2>1, <3>2 DEF Begins
    <3>4. 1 \in 1 .. m /\ 1 \in 1 .. i
      BY <2>1
    <3>5. x[1] = "#"
      BY <1>3, <3>4
    <3> QED
      BY <3>3, <3>4, <3>5 DEF Comment
  <2>2. CASE i = k
    BY <1>3, <1>4, <2>2 DEF Closes
  <2> QED
    BY <1>3, <2>1, <2>2
<1>5. Hushed(x, k) /\ Ended(x, k)
  BY <1>3, <1>4 DEF Hushed, Ended
<1> QED
  BY <1>3, <1>5 DEF Quiet

\* A line without a comment that has a brace has no brace at all.
LEMMA OpenItem ==
  ASSUME NEW s \in Lines \union {Blank}, ~Braced(s)
  PROVE  \E y \in Seq(Open) : EndsLine(TextOf(<<s>>), y)
<1>1. CASE s = Blank
  <2>1. PICK y \in Seq(Open) : y = <<>>
    BY EmptySeq
  <2>2. TextOf(<<s>>) = <<"nl">>
    BY <1>1, TextTyped, MappedOne DEF TextOf, TextG, Items
  <2>3. <<>> \o <<"nl">> = <<"nl">>
    BY SignsTyped, ConcatEmptySeq
  <2>4. EndsLine(TextOf(<<s>>), y)
    BY <2>1, <2>2, <2>3 DEF EndsLine
  <2> QED
    BY <2>4
<1>2. CASE s \in Parameters \union Includes
  <2>1. PICK name \in Words, value \in Seq(Lexeme) : Signless(value) /\ LineText(TextOf(<<s>>), name, value)
    BY <1>2, LineTextIs
  <2>2. PICK x : x = TextOf(<<s>>)
    OBVIOUS
  <2>3. PICK t \in Seq(Lexeme) : ParamText(t, name, value) /\ EndsLine(x, t)
    <3>1. LineText(x, name, value)
      BY <2>1, <2>2
    <3> QED
      BY <2>1, <3>1, LineParts
  <2>4. t \in Seq(Open)
    <3>1. value \in Seq(Open)
      <4>1. \A i \in 1 .. Len(value) : value[i] \in Open
        BY <2>1, ElementOfSeq DEF Signless, Open
      <4> QED
        BY <2>1, <4>1, SeqFrom
    <3>2. name \in Open /\ "sp" \in Open /\ ";" \in Open
      BY <2>1, WordIs, SignsHere DEF SignsAre, Open
    <3>3. PICK d \in Seq(Open), e \in Seq(Open) : d = <<name, "sp">> /\ e = <<";">>
      BY <3>2, Tuples
    <3>4. PICK g \in Seq(Open) : g = value \o e
      BY <3>1, <3>3, ConcatProperties
    <3>5. d \o g \in Seq(Open)
      BY <3>3, <3>4, ConcatProperties
    <3> QED
      BY <2>3, <3>3, <3>4, <3>5 DEF ParamText, Join3
  <2> QED
    BY <2>2, <2>3, <2>4
<1>3. CASE s \in Comments
  <2>1. /\ s.kind = "comment" /\ s.indented \in BOOLEAN /\ s.value \in Seq(Unended)
    BY <1>3 DEF Comments, Unended
  <2>2. s \in Items /\ s # Blank
    BY <1>3, <2>1, KindOfLine DEF Lines, Blank
  <2>3. TextOf(<<s>>) = Line(s)
    BY <2>1, <2>2, ItemText DEF Block
  <2>4. PICK value \in Seq(Unended) : value = s.value
    BY <2>1
  <2>5. PICK w \in Seq(Open) : w = value
    <3>1. "}" \notin Tokens(value)
      BY <2>1, <2>4 DEF Braced
    <3>2. ASSUME NEW i \in 1 .. Len(value) PROVE value[i] \in Open
      <4>1. value[i] \in Lexeme
        BY ElementOfSeq DEF Unended
      <4>2. DOMAIN value = 1 .. Len(value)
        BY LenProperties
      <4> QED
        BY <3>1, <4>1, <4>2 DEF Open, Tokens
    <3> QED
      BY <3>2, SeqFrom
  <2>6. PICK d \in Seq(Open) : EndsLine(TextOf(<<s>>), d \o w)
    <3>1. "sp" \in Open /\ "#" \in Open
      BY SignsHere DEF SignsAre, Open
    <3>2. CASE s.indented
      <4>1. EndsLine(TextOf(<<s>>), <<"sp", "#", "sp">> \o w)
        BY <2>1, <2>3, <2>4, <2>5, <3>2 DEF Line, EndsLine
      <4>2. <<"sp", "#", "sp">> \in Seq(Open)
        BY <3>1, Tuples
      <4> QED
        BY <4>1, <4>2
    <3>3. CASE ~s.indented
      <4>1. EndsLine(TextOf(<<s>>), <<"#", "sp">> \o w)
        BY <2>1, <2>3, <2>4, <2>5, <3>3 DEF Line, EndsLine
      <4>2. <<"#", "sp">> \in Seq(Open)
        BY <3>1, Tuples
      <4> QED
        BY <4>1, <4>2
    <3> QED
      BY <3>2, <3>3
  <2> QED
    BY <2>5, <2>6, ConcatProperties
<1> QED
  BY <1>1, <1>2, <1>3 DEF Lines

\* What a block may hold without a comment that ends it.
Hidden == { s \in Lines \union {Blank} : ~Uncommented(s) }

LEMMA QuietItem ==
  ASSUME NEW s \in Hidden
  PROVE  Quiet(TextOf(<<s>>))
<1>1. CASE ~Braced(s)
  BY <1>1, OpenItem, QuietOpen DEF Hidden
<1>2. CASE Braced(s)
  <2>0. s \in Comments /\ ~s.indented
    <3>1. s.kind = "comment" /\ ~s.indented
      BY <1>2 DEF Hidden, Uncommented, Braced
    <3>2. s \in Lines
      BY <3>1 DEF Hidden, Blank
    <3>3. s \notin Parameters /\ s \notin Includes
      BY <3>1 DEF Parameters, Includes
    <3> QED
      BY <3>1, <3>2, <3>3 DEF Lines
  <2>1. /\ s.kind = "comment" /\ s.indented \in BOOLEAN /\ s.value \in Seq(Unended)
    BY <2>0 DEF Comments, Unended
  <2>2. s \in Items /\ s # Blank
    BY <2>0, <2>1, KindOfLine DEF Lines, Blank
  <2>3. TextOf(<<s>>) = Line(s)
    BY <2>1, <2>2, ItemText DEF Block
  <2>4. PICK value \in Seq(Unended) : value = s.value
    BY <2>1
  <2>5. Quiet(TextOf(<<s>>))
    <3>1. EndsLine(TextOf(<<s>>), <<"#", "sp">> \o value)
      BY <2>0, <2>1, <2>3, <2>4 DEF Line, EndsLine
    <3>2. PICK d \in Seq(Unended) : d = <<"#", "sp">> /\ Long(d, 2) /\ d[1] = "#"
      <4>1. "sp" \in Unended /\ "#" \in Unended
        BY SignsHere DEF SignsAre, Unended
      <4>2. <<"#", "sp">> \in Seq(Unended)
        BY <4>1, Tuples
      <4>3. Len(<<"#", "sp">>) = 2 /\ <<"#", "sp">>[1] = "#"
        OBVIOUS
      <4> QED
        BY <4>2, <4>3 DEF Long
    <3>3. PICK n \in Nat : Long(value, n)
      BY LongIs
    <3>4. PICK y \in Seq(Unended) : y = d \o value
      BY <3>2, ConcatProperties
    <3>5. d \in Seq(Lexeme) /\ value \in Seq(Lexeme) /\ Long(d, 2)
      BY <3>2, SeqOver DEF Unended
    <3>6. y \in Seq(Lexeme) /\ Long(y, 2 + n) /\ Holds(y, 0, d)
      BY <3>3, <3>4, <3>5, JoinIs
    <3>7. y[0 + 1] = d[1]
      <4>1. 1 \in 1 .. 2
        OBVIOUS
      <4> QED
        BY <3>5, <3>6, <4>1, HeldAt
    <3>8. PICK m \in Nat \ {0} : Long(y, m)
      BY <3>3, <3>6
    <3>9. y[1] = "#"
      BY <3>2, <3>7
    <3>10. EndsLine(TextOf(<<s>>), y)
      BY <3>1, <3>2, <3>4
    <3> QED
      BY <3>8, <3>9, <3>10, QuietComment
  <2> QED
    BY <2>5
<1> QED
  BY <1>1, <1>2

LEMMA QuietText ==
  ASSUME NEW l \in Seq(Hidden)
  PROVE  Quiet(TextOf(l))
<1> DEFINE T == { a \in Seq(Hidden) : Quiet(TextOf(a)) }
<1>1. <<>> \in T
  <2>1. TextOf(<<>>) = <<>>
    BY MappedNone DEF TextOf
  <2>2. <<>> \in Seq(Lexeme) /\ Long(<<>>, 0) /\ Hushed(<<>>, 0) /\ Ended(<<>>, 0)
    BY EmptySeq DEF Long, Hushed, Ended
  <2>3. Quiet(<<>>)
    BY <2>2 DEF Quiet
  <2> QED
    BY <2>1, <2>3, EmptySeq
<1>2. ASSUME NEW a \in T, NEW x \in Hidden PROVE Append(a, x) \in T
  <2>1. a \in Seq(Hidden) /\ Quiet(TextOf(a)) /\ Append(a, x) \in Seq(Hidden)
    BY AppendProperties
  <2> HIDE DEF T
  <2>2. \A y \in Hidden : y \in Items
    BY KindOfLine DEF Hidden, Items
  <2>3. a \in Seq(Items) /\ x \in Items
    BY <2>1, <2>2, SeqOver
  <2>4. TextOf(Append(a, x)) = TextOf(a) \o TextOf(<<x>>)
    BY <2>3, TextParts
  <2>5. Quiet(TextOf(<<x>>))
    BY QuietItem
  <2>6. Quiet(TextOf(a) \o TextOf(<<x>>))
    BY <2>1, <2>5, QuietJoined
  <2> QED
    BY <2>1, <2>4, <2>6 DEF T
<1> HIDE DEF T
<1>3. T = Seq(Hidden)
  <2>1. T \in SUBSET Seq(Hidden)
    BY DEF T
  <2> QED
    BY <1>1, <1>2, <2>1, SeqSetInduction
<1> QED
  BY <1>3 DEF T

-----------------------------------------------------------------------------
(* What the statements of a text say                                        *)

SaysNothing(conf, l) == Told(conf, l) = <<>> /\ Hosted(conf, l) = <<>>

LEMMA BlankSays ==
  ASSUME NEW conf \in Configs, NEW b \in Seq({Blank})
  PROVE  SaysNothing(conf, b)
<1>1. b \in Seq(Marked)
  <2>1. Blank \in Marked
    BY DEF Marked, Items, Blank
  <2> QED
    BY <2>1, SeqOver
<1>2. TextOf(b) \in Seq(Mute)
  <2>1. TextOf(b) \in Seq({"nl"})
    BY BlankText DEF BlankLines
  <2>2. "nl" \in Mute
    BY SignsHere DEF SignsAre, Mute
  <2> QED
    BY <2>1, <2>2, SeqOver
<1> QED
  BY <1>1, <1>2, ListSilent DEF SaysNothing

\* What one list says, then another.
Says(conf, l, s, r) ==
  Told(conf, l) = Told(conf, s) \o Told(conf, r) /\ Hosted(conf, l) = Hosted(conf, s) \o Hosted(conf, r)
SaysAlike(conf, l, m) == Told(conf, l) = Told(conf, m) /\ Hosted(conf, l) = Hosted(conf, m)
Speaks(conf, l) == Told(conf, l) \in Seq(Entries) /\ Hosted(conf, l) \in Seq(Seq(Entries))

LEMMA SaysTyped ==
  ASSUME NEW conf \in Configs, NEW l \in Seq(Items)
  PROVE  Speaks(conf, l)
<1>1. <<>> \in Seq(Items)
  BY EmptySeq
<1> QED
  BY <1>1, ToldTyped, ToldJoined DEF Speaks

LEMMA SaysBoth ==
  ASSUME NEW conf \in Configs, NEW a \in Seq(Items), NEW b \in Seq(Items)
  PROVE  Says(conf, a \o b, a, b) /\ a \o b \in Seq(Items)
BY ToldJoined DEF Says

LEMMA SaysFirst ==
  ASSUME NEW conf \in Configs, NEW a \in Seq(Items), NEW b \in Seq(Items), NEW l, Says(conf, l, a, b)
  PROVE  /\ SaysNothing(conf, a) => SaysAlike(conf, l, b)
         /\ SaysNothing(conf, b) => SaysAlike(conf, l, a)
<1>1. Speaks(conf, a) /\ Speaks(conf, b)
  BY SaysTyped
<1> QED
  BY <1>1, ConcatEmptySeq DEF Says, SaysNothing, SaysAlike, Speaks

LEMMA BlankFirstSays ==
  ASSUME NEW conf \in Configs, NEW b \in Seq({Blank}), NEW r \in Seq(Items)
  PROVE  SaysAlike(conf, b \o r, r) /\ b \o r \in Seq(Items)
<1>1. b \in Seq(Items) /\ SaysNothing(conf, b)
  BY BlankText, BlankSays
<1> QED
  BY <1>1, SaysBoth, SaysFirst

LEMMA LedSays ==
  ASSUME NEW conf \in Configs, NEW l, NEW b, NEW s, NEW rest, Leads(l, b, s, rest)
  PROVE  /\ Says(conf, l, <<s>>, rest) /\ Says(conf, l, <<s>>, <<Blank>> \o rest)
         /\ <<Blank>> \o rest \in Seq(Items) /\ <<s>> \in Seq(Items)
<1>1. PICK c \in Seq(Items) : c = <<s>>
  BY OneElement DEF Leads
<1>2. PICK r \in Seq(Items) : r = c \o rest /\ Says(conf, r, c, rest)
  BY <1>1, SaysBoth DEF Leads
<1>3. SaysAlike(conf, l, r)
  BY <1>1, <1>2, BlankFirstSays DEF Leads
<1>4. PICK n \in Seq({Blank}) : n = <<Blank>>
  BY OneElement
<1>5. SaysAlike(conf, n \o rest, rest) /\ n \o rest \in Seq(Items)
  BY BlankFirstSays DEF Leads
<1> QED
  BY <1>1, <1>2, <1>3, <1>4, <1>5 DEF Says, SaysAlike

Entry(s) == [name |-> <<s.name>>, value |-> s.value]

LEMMA ParamSays ==
  ASSUME NEW conf \in Configs, NEW s \in Parameters
  PROVE  Told(conf, <<s>>) = <<Entry(s)>> /\ Hosted(conf, <<s>>) = <<>> /\ Entry(s) \in Entries
<1>1. s \in Items /\ s.kind = "param" /\ s.name \in Words /\ s.value \in Seq(Lexeme)
  <2>1. s \in Items
    BY KindOfLine DEF Lines
  <2> QED
    BY <2>1, KindOfItem DEF Parameters
<1>2. Told(conf, <<s>>) = ParamOf(s) /\ Hosted(conf, <<s>>) = ServerOf(conf, s)
  BY <1>1, ToldOne
<1> QED
  BY <1>1, <1>2 DEF ParamOf, ServerOf, Entry, Entries

LEMMA CommentSays ==
  ASSUME NEW conf \in Configs, NEW s \in Comments
  PROVE  SaysNothing(conf, <<s>>)
<1>1. s \in Items /\ s.kind = "comment"
  BY KindOfLine DEF Lines, Comments
<1>2. Told(conf, <<s>>) = ParamOf(s) /\ Hosted(conf, <<s>>) = ServerOf(conf, s)
  BY <1>1, ToldOne
<1> QED
  BY <1>1, <1>2 DEF ParamOf, ServerOf, SaysNothing

LEMMA ServerSays ==
  ASSUME NEW conf \in Configs, NEW s \in Servs
  PROVE  /\ Told(conf, <<s>>) = <<>> /\ Hosted(conf, <<s>>) = <<Told(conf, s.body)>>
         /\ s.body \in Seq(Items)
<1>1. s \in Items /\ s.kind = "server" /\ s.body \in Seq(Items)
  BY AnyLexeme DEF Items, Statements, Servs
<1>2. Told(conf, <<s>>) = ParamOf(s) /\ Hosted(conf, <<s>>) = ServerOf(conf, s)
  BY <1>1, ToldOne
<1> QED
  BY <1>1, <1>2 DEF ParamOf, ServerOf, Told

\* What is included is given in the place of the include.
LEMMA FileTextIs ==
  ASSUME NEW conf \in Configs, NEW file
  PROVE  file \in DOMAIN conf.files => FileText(conf, file) = TextOf(conf.files[file])
<1> SUFFICES ASSUME file \in DOMAIN conf.files PROVE FileText(conf, file) = TextOf(conf.files[file])
  OBVIOUS
<1>1. PICK l \in Seq(Statements) : l = conf.files[file]
  BY FilesTyped
<1>2. \A i \in DOMAIN l : TextG[l[i]] = Block(l[i])
  <2> TAKE i \in DOMAIN l
  <2>1. l[i] \in Statements
    BY <1>1, ElementOfSeq
  <2>2. l[i] \in Items /\ l[i] # Blank
    BY <2>1, KindOfStatement
  <2> QED
    BY <2>2 DEF TextG
<1>3. [i \in DOMAIN l |-> TextG[l[i]]] = [i \in DOMAIN l |-> Block(l[i])]
  BY <1>2
<1> QED
  BY <1>1, <1>3 DEF FileText, TextOf, Mapped

LEMMA IncludeSays ==
  ASSUME NEW conf \in Configs, NEW s \in Includes, Plain(conf, s), NEW l, l = Included(conf, s)
  PROVE  SaysAlike(conf, <<s>>, l) /\ l \in Seq(Items) /\ FileText(conf, s.file) = TextOf(l)
<1>1. s \in Items /\ s.kind = "include"
  BY KindOfLine DEF Lines, Includes
<1>2. l \in Seq(Items)
  BY IncludedTyped
<1>3. Told(conf, <<s>>) = Params(l) /\ Hosted(conf, <<s>>) = ServersOf(conf, l)
  BY <1>1, ToldOne DEF Given
<1>4. Expand(conf, l) = l
  <2>1. \A i \in DOMAIN l : l[i].kind # "include"
    BY DEF Plain
  <2>2. DOMAIN l = 1 .. Len(l)
    BY <1>2, LenProperties
  <2>3. ASSUME NEW i \in 1 .. Len(l) PROVE l[i] \in { x \in Items : x.kind # "include" }
    <3>1. l[i] \in Items
      BY <1>2, ElementOfSeq
    <3> QED
      BY <2>1, <2>2, <3>1
  <2>4. l \in Seq({ x \in Items : x.kind # "include" })
    BY <1>2, <2>3, SeqFrom
  <2> QED
    BY <2>4, ExpandPlain
<1>5. FileText(conf, s.file) = TextOf(l)
  <2>1. CASE s.file \in DOMAIN conf.files
    BY <1>1, <2>1, FileTextIs DEF Included
  <2>2. CASE s.file \notin DOMAIN conf.files
    <3>1. l = <<>> /\ TextOf(<<>>) = <<>>
      BY <2>2, ToldNothing DEF Included
    <3> QED
      BY <2>2, <3>1 DEF FileText
  <2> QED
    BY <2>1, <2>2
<1> QED
  BY <1>2, <1>3, <1>4, <1>5 DEF SaysAlike, Told, Hosted

\* What is read so far and what is left make up the configuration: between the blocks, and
\* within a block with a part of its parameters.
Kept(conf, gl, apps, rem) ==
  Globals(conf) = gl \o Told(conf, rem) /\ Servers(conf) = apps \o Hosted(conf, rem)
KeptIn(conf, gl, apps, a, brem, rem) ==
  /\ Globals(conf) = gl \o Told(conf, rem)
  /\ Servers(conf) = Append(apps, a \o Told(conf, brem)) \o Hosted(conf, rem)

SameGroups(a, b, c) == a \o (b \o c) = (a \o b) \o c

LEMMA SameGroupsIs ==
  ASSUME NEW S, NEW a \in Seq(S), NEW b \in Seq(S), NEW c \in Seq(S)
  PROVE  SameGroups(a, b, c)
BY InGroups DEF SameGroups

LEMMA KeptOn ==
  ASSUME NEW conf \in Configs, NEW gl \in Seq(Entries), NEW apps \in Seq(Seq(Entries)),
         NEW l, NEW c \in Seq(Items), NEW r \in Seq(Items), Says(conf, l, c, r), Kept(conf, gl, apps, l)
  PROVE  Kept(conf, gl \o Told(conf, c), apps \o Hosted(conf, c), r)
<1>1. Speaks(conf, c) /\ Speaks(conf, r)
  BY SaysTyped
<1>2. PICK tc \in Seq(Entries), tr \in Seq(Entries) : tc = Told(conf, c) /\ tr = Told(conf, r)
  BY <1>1 DEF Speaks
<1>3. PICK hc \in Seq(Seq(Entries)), hr \in Seq(Seq(Entries)) : hc = Hosted(conf, c) /\ hr = Hosted(conf, r)
  BY <1>1 DEF Speaks
<1>4. SameGroups(gl, tc, tr) /\ SameGroups(apps, hc, hr)
  BY SameGroupsIs
<1> QED
  BY <1>2, <1>3, <1>4 DEF Kept, Says, SameGroups

LEMMA InOn ==
  ASSUME NEW conf \in Configs, NEW gl, NEW apps, NEW a \in Seq(Entries), NEW rem,
         NEW l, NEW c \in Seq(Items), NEW r \in Seq(Items), Says(conf, l, c, r),
         KeptIn(conf, gl, apps, a, l, rem)
  PROVE  KeptIn(conf, gl, apps, a \o Told(conf, c), r, rem)
<1>1. Speaks(conf, c) /\ Speaks(conf, r)
  BY SaysTyped
<1>2. PICK tc \in Seq(Entries), tr \in Seq(Entries) : tc = Told(conf, c) /\ tr = Told(conf, r)
  BY <1>1 DEF Speaks
<1>3. a \o (tc \o tr) = (a \o tc) \o tr
  BY InGroups
<1> QED
  BY <1>2, <1>3 DEF KeptIn, Says

LEMMA OneMore ==
  ASSUME NEW S, NEW list \in Seq(S), NEW e \in S
  PROVE  list \o <<e>> = Append(list, e) /\ list \o <<>> = list /\ Append(list, e) \in Seq(S)
BY AppendIsConcat, ConcatEmptySeq, AppendProperties

LEMMA KeptParam ==
  ASSUME NEW conf \in Configs, NEW gl \in Seq(Entries), NEW apps \in Seq(Seq(Entries)), NEW l,
         NEW s \in Parameters, NEW r \in Seq(Items), Says(conf, l, <<s>>, r), Kept(conf, gl, apps, l)
  PROVE  Kept(conf, Append(gl, Entry(s)), apps, r) /\ Append(gl, Entry(s)) \in Seq(Entries)
<1>1. PICK c \in Seq(Items) : c = <<s>>
  BY KindOfLine, OneElement DEF Lines
<1>2. Told(conf, c) = <<Entry(s)>> /\ Hosted(conf, c) = <<>> /\ Entry(s) \in Entries
  BY <1>1, ParamSays
<1>3. Kept(conf, gl \o Told(conf, c), apps \o Hosted(conf, c), r)
  BY <1>1, KeptOn
<1>4. gl \o <<Entry(s)>> = Append(gl, Entry(s)) /\ Append(gl, Entry(s)) \in Seq(Entries)
  BY <1>2, OneMore
<1>5. apps \o <<>> = apps
  BY ConcatEmptySeq
<1> QED
  BY <1>2, <1>3, <1>4, <1>5

LEMMA InParam ==
  ASSUME NEW conf \in Configs, NEW gl, NEW apps, NEW a \in Seq(Entries), NEW rem, NEW l,
         NEW s \in Parameters, NEW r \in Seq(Items), Says(conf, l, <<s>>, r),
         KeptIn(conf, gl, apps, a, l, rem)
  PROVE  KeptIn(conf, gl, apps, Append(a, Entry(s)), r, rem) /\ Append(a, Entry(s)) \in Seq(Entries)
<1>1. PICK c \in Seq(Items) : c = <<s>>
  BY KindOfLine, OneElement DEF Lines
<1>2. Told(conf, c) = <<Entry(s)>> /\ Entry(s) \in Entries
  BY <1>1, ParamSays
<1>3. KeptIn(conf, gl, apps, a \o Told(conf, c), r, rem)
  BY <1>1, InOn
<1>4. a \o <<Entry(s)>> = Append(a, Entry(s)) /\ Append(a, Entry(s)) \in Seq(Entries)
  BY <1>2, OneMore
<1> QED
  BY <1>2, <1>3, <1>4

LEMMA KeptAlike ==
  ASSUME NEW conf, NEW l, NEW m, SaysAlike(conf, l, m), NEW gl, NEW apps
  PROVE  /\ Kept(conf, gl, apps, l) => Kept(conf, gl, apps, m)
         /\ \A a, rem : KeptIn(conf, gl, apps, a, l, rem) => KeptIn(conf, gl, apps, a, m, rem)
         /\ \A a, brem : KeptIn(conf, gl, apps, a, brem, l) => KeptIn(conf, gl, apps, a, brem, m)
BY DEF SaysAlike, Kept, KeptIn

LEMMA CommentAlike ==
  ASSUME NEW conf \in Configs, NEW s \in Comments, NEW r \in Seq(Items), NEW l, Says(conf, l, <<s>>, r)
  PROVE  SaysAlike(conf, l, r)
<1>1. PICK c \in Seq(Items) : c = <<s>>
  BY KindOfLine, OneElement DEF Lines
<1>2. SaysNothing(conf, c) /\ Says(conf, l, c, r)
  BY <1>1, CommentSays
<1> QED
  BY <1>2, SaysFirst

LEMMA IncludeAlike ==
  ASSUME NEW conf \in Configs, NEW s \in Includes, Plain(conf, s), NEW r \in Seq(Items), NEW l,
         Says(conf, l, <<s>>, r), NEW m, m = Included(conf, s)
  PROVE  /\ m \o r \in Seq(Items) /\ SaysAlike(conf, l, m \o r)
         /\ SaysNothing(conf, r) => SaysAlike(conf, l, m)
<1>1. m \in Seq(Items) /\ SaysAlike(conf, <<s>>, m)
  BY IncludeSays
<1>2. m \o r \in Seq(Items) /\ Says(conf, m \o r, m, r)
  BY <1>1, SaysBoth
<1>3. SaysAlike(conf, l, m \o r)
  BY <1>1, <1>2 DEF Says, SaysAlike
<1>4. SaysNothing(conf, r) => SaysAlike(conf, m \o r, m)
  BY <1>1, <1>2, SaysFirst
<1> QED
  BY <1>2, <1>3, <1>4 DEF SaysAlike

LEMMA KeptServer ==
  ASSUME NEW conf \in Configs, NEW gl \in Seq(Entries), NEW apps \in Seq(Seq(Entries)), NEW l,
         NEW s \in Servs, NEW r \in Seq(Items), Says(conf, l, <<s>>, r), Kept(conf, gl, apps, l)
  PROVE  KeptIn(conf, gl, apps, <<>>, <<Blank>> \o s.body, r)
<1>1. PICK c \in Seq(Items) : c = <<s>>
  <2>1. s \in Items
    BY DEF Items, Statements, Servs
  <2> QED
    BY <2>1, OneElement
<1>2. Told(conf, c) = <<>> /\ Hosted(conf, c) = <<Told(conf, s.body)>> /\ s.body \in Seq(Items)
  BY <1>1, ServerSays
<1>3. Kept(conf, gl \o Told(conf, c), apps \o Hosted(conf, c), r)
  BY <1>1, KeptOn
<1>4. PICK n \in Seq({Blank}) : n = <<Blank>>
  BY OneElement
<1>5. SaysAlike(conf, n \o s.body, s.body)
  BY <1>2, BlankFirstSays
<1>6. PICK e \in Seq(Entries) : e = Told(conf, s.body) /\ e = Told(conf, n \o s.body)
  <2>1. Speaks(conf, s.body)
    BY <1>2, SaysTyped
  <2> QED
    BY <1>5, <2>1 DEF Speaks, SaysAlike
<1>7. apps \o <<e>> = Append(apps, e)
  BY OneMore
<1>8. <<>> \o e = e /\ gl \o <<>> = gl
  BY ConcatEmptySeq
<1> QED
  BY <1>2, <1>3, <1>4, <1>6, <1>7, <1>8 DEF Kept, KeptIn

LEMMA KeptEnd ==
  ASSUME NEW conf, NEW gl, NEW apps, NEW a \in Seq(Entries), NEW brem, NEW rem, SaysNothing(conf, brem),
         KeptIn(conf, gl, apps, a, brem, rem)
  PROVE  Kept(conf, gl, Append(apps, a), rem)
<1>1. a \o <<>> = a
  BY ConcatEmptySeq
<1> QED
  BY <1>1 DEF SaysNothing, Kept, KeptIn

-----------------------------------------------------------------------------
(* The first values                                                         *)

FirstValues(g, gl) ==
  /\ DOMAIN g = { gl[i].name : i \in DOMAIN gl }
  /\ \A i \in DOMAIN gl :
       (\A k \in 1 .. i - 1 : gl[k].name # gl[i].name) => g[gl[i].name] = gl[i].value

\* The parameters after another one.
With(g, e) == [key \in DOMAIN g \union {e.name} |-> IF key \in DOMAIN g THEN g[key] ELSE e.value]

LEMMA FirstValuesMore ==
  ASSUME NEW g, NEW gl \in Seq(Entries), NEW e \in Entries, FirstValues(g, gl)
  PROVE  FirstValues(With(g, e), Append(gl, e))
<1>1. PICK n \in Nat : n = Len(gl)
  BY LenProperties
<1>2. PICK m : m = Append(gl, e)
  OBVIOUS
<1>3. /\ m \in Seq(Entries) /\ Len(m) = n + 1 /\ m[n + 1] = e
      /\ \A i \in 1 .. n : m[i] = gl[i]
  BY <1>1, <1>2, OneLonger
<1>4. DOMAIN gl = 1 .. n /\ DOMAIN m = 1 .. n + 1
  BY <1>1, <1>3, LenProperties
<1>5. PICK h : h = With(g, e)
  OBVIOUS
<1>6. DOMAIN h = DOMAIN g \union {e.name}
  BY <1>5 DEF With
<1>7. /\ \A key \in DOMAIN g : h[key] = g[key]
      /\ e.name \notin DOMAIN g => h[e.name] = e.value
  BY <1>5 DEF With
<1>8. DOMAIN g = { gl[i].name : i \in 1 .. n }
  BY <1>4 DEF FirstValues
<1>9. \A i \in 1 .. n : (\A k \in 1 .. i - 1 : gl[k].name # gl[i].name) => g[gl[i].name] = gl[i].value
  BY <1>4 DEF FirstValues
<1>10. DOMAIN h = { m[i].name : i \in 1 .. n + 1 }
  <2>1. ASSUME NEW key \in DOMAIN h PROVE \E i \in 1 .. n + 1 : key = m[i].name
    <3>1. CASE key = e.name
      <4>1. n + 1 \in 1 .. n + 1
        BY <1>1
      <4> QED
        BY <1>3, <3>1, <4>1
    <3>2. CASE key \in DOMAIN g
      <4>1. PICK i \in 1 .. n : key = gl[i].name
        BY <1>8, <3>2
      <4>2. i \in 1 .. n + 1
        BY <1>1
      <4> QED
        BY <1>3, <4>1, <4>2
    <3> QED
      BY <1>6, <3>1, <3>2
  <2>2. ASSUME NEW i \in 1 .. n + 1 PROVE m[i].name \in DOMAIN h
    <3>1. CASE i = n + 1
      BY <1>3, <1>6, <3>1
    <3>2. CASE i # n + 1
      <4>1. i \in 1 .. n
        BY <1>1, <3>2
      <4> QED
        BY <1>3, <1>6, <1>8, <4>1
    <3> QED
      BY <3>1, <3>2
  <2> QED
    BY <2>1, <2>2
<1>11. ASSUME NEW i \in 1 .. n + 1, \A k \in 1 .. i - 1 : m[k].name # m[i].name
       PROVE  h[m[i].name] = m[i].value
  <2>1. CASE i = n + 1
    <3>1. m[i] = e
      BY <1>3, <2>1
    <3>2. ASSUME NEW k \in 1 .. n PROVE gl[k].name # e.name
      <4>1. k \in 1 .. i - 1
        BY <1>1, <2>1
      <4>2. m[k].name # m[i].name
        BY <1>11, <4>1
      <4> QED
        BY <1>3, <3>1, <4>2
    <3>3. e.name \notin DOMAIN g
      BY <1>8, <3>2
    <3> QED
      BY <1>7, <3>1, <3>3
  <2>2. CASE i # n + 1
    <3>1. i \in 1 .. n
      BY <1>1, <2>2
    <3>2. m[i] = gl[i]
      BY <1>3, <3>1
    <3>3. ASSUME NEW k \in 1 .. i - 1 PROVE gl[k].name # gl[i].name
      <4>1. k \in 1 .. n
        BY <1>1, <3>1
      <4>2. m[k].name # m[i].name
        BY <1>11
      <4> QED
        BY <1>3, <3>2, <4>1, <4>2
    <3>4. g[gl[i].name] = gl[i].value
      BY <1>9, <3>1, <3>3
    <3>5. gl[i].name \in DOMAIN g
      BY <1>8, <3>1
    <3> QED
      BY <1>7, <3>2, <3>4, <3>5
  <2> QED
    BY <2>1, <2>2
<1> QED
  BY <1>2, <1>4, <1>5, <1>10, <1>11 DEF FirstValues

LEMMA FirstValuesNone == FirstValues(NoParameters, <<>>)
BY EmptySeq DEF FirstValues, NoParameters

-----------------------------------------------------------------------------
(* The statements of the files                                              *)

Good(conf)    == { s \in Items : Plain(conf, s) /\ (s.kind = "server" => Closed(conf, s.body)) }
Allowed(conf) == { s \in Lines \union {Blank} : Inner(conf, s) }

LEMMA NotIncluded ==
  ASSUME NEW conf, NEW s, s.kind # "include"
  PROVE  Included(conf, s) = <<>> /\ Plain(conf, s)
         /\ (~Uncommented(s) => Inner(conf, s))
<1>1. Included(conf, s) = <<>>
  BY DEF Included
<1> QED
  BY <1>1, EmptySeq DEF Plain, Inner

LEMMA BlankGood ==
  ASSUME NEW conf
  PROVE  Blank \in Good(conf) /\ Blank \in Allowed(conf)
<1>1. Blank.kind = "blank" /\ Blank \in Items
  BY DEF Blank, Items
<1>2. Plain(conf, Blank) /\ Inner(conf, Blank)
  BY <1>1, NotIncluded DEF Uncommented, Braced
<1> QED
  BY <1>1, <1>2 DEF Good, Allowed

LEMMA GoodFiles ==
  ASSUME NEW conf \in Configs, Readable(conf), NEW file \in DOMAIN conf.files
  PROVE  conf.files[file] \in Seq(Good(conf))
<1>1. PICK l \in Seq(Items) : l = conf.files[file]
  BY FilesTyped
<1>2. \A i \in DOMAIN l : Plain(conf, l[i]) /\ (l[i].kind = "server" => Closed(conf, l[i].body))
  BY <1>1 DEF Readable
<1>3. ASSUME NEW i \in 1 .. Len(l) PROVE l[i] \in Good(conf)
  <2>1. l[i] \in Items /\ i \in DOMAIN l
    BY ElementOfSeq, LenProperties
  <2> QED
    BY <1>2, <2>1 DEF Good
<1> QED
  BY <1>1, <1>3, SeqFrom

LEMMA GoodIncluded ==
  ASSUME NEW conf \in Configs, Readable(conf), NEW s
  PROVE  Included(conf, s) \in Seq(Good(conf))
<1>1. CASE s.kind = "include" /\ s.file \in DOMAIN conf.files
  BY <1>1, GoodFiles DEF Included
<1>2. CASE ~(s.kind = "include" /\ s.file \in DOMAIN conf.files)
  BY <1>2, EmptySeq DEF Included
<1> QED
  BY <1>1, <1>2

LEMMA AllowedIncluded ==
  ASSUME NEW conf \in Configs, NEW s \in Allowed(conf)
  PROVE  Included(conf, s) \in Seq(Allowed(conf)) /\ Plain(conf, s)
<1>1. PICK l \in Seq(Items) : l = Included(conf, s)
  BY IncludedTyped
<1>2. \A i \in DOMAIN l : l[i] \in Parameters \union Comments /\ ~Uncommented(l[i])
  BY <1>1 DEF Allowed, Inner
<1>3. \A x \in Parameters \union Comments : x.kind # "include" /\ x \in Lines
  BY DEF Parameters, Comments, Lines
<1>4. ASSUME NEW i \in 1 .. Len(l) PROVE l[i] \in Allowed(conf)
  <2>1. i \in DOMAIN l
    BY LenProperties
  <2>2. Inner(conf, l[i]) /\ l[i] \in Lines
    BY <1>2, <1>3, <2>1, NotIncluded
  <2> QED
    BY <2>2 DEF Allowed
<1>5. l \in Seq(Allowed(conf))
  BY <1>4, SeqFrom
<1>6. Plain(conf, s)
  BY <1>1, <1>2, <1>3 DEF Plain
<1> QED
  BY <1>1, <1>5, <1>6

LEMMA GoodMarked ==
  ASSUME NEW conf
  PROVE  /\ \A s \in Good(conf) : s \in Marked /\ s \in Items
         /\ \A s \in Allowed(conf) : s \in Marked /\ s \in Items /\ s \in Hidden
<1>1. ASSUME NEW s \in Good(conf) PROVE s \in Marked /\ s \in Items
  BY DEF Good, Closed, Marked
<1>2. ASSUME NEW s \in Allowed(conf) PROVE s \in Marked /\ s \in Items /\ s \in Hidden
  <2>1. s \in Items /\ s.kind # "server"
    BY KindOfLine DEF Allowed, Items, Blank
  <2>2. ~Uncommented(s)
    BY DEF Allowed, Inner
  <2> QED
    BY <2>1, <2>2 DEF Allowed, Marked, Hidden
<1> QED
  BY <1>1, <1>2

LEMMA GoodBody ==
  ASSUME NEW conf \in Configs, NEW s \in Good(conf), s \in Servs
  PROVE  <<Blank>> \o s.body \in Seq(Allowed(conf))
<1>1. s.kind = "server" /\ s.body \in Seq(Lines)
  BY DEF Servs
<1>2. PICK l \in Seq(Lines) : l = s.body
  BY <1>1
<1>3. \A k \in DOMAIN l : Inner(conf, l[k])
  BY <1>1, <1>2 DEF Good, Closed
<1>4. ASSUME NEW i \in 1 .. Len(l) PROVE l[i] \in Allowed(conf)
  <2>1. l[i] \in Lines /\ i \in DOMAIN l
    BY ElementOfSeq, LenProperties
  <2> QED
    BY <1>3, <2>1 DEF Allowed
<1>5. l \in Seq(Allowed(conf))
  BY <1>4, SeqFrom
<1>6. PICK n \in Seq(Allowed(conf)) : n = <<Blank>>
  BY BlankGood, OneElement
<1> QED
  BY <1>2, <1>5, <1>6, ConcatProperties

LEMMA BlankInFront ==
  ASSUME NEW S, Blank \in S, NEW r \in Seq(S)
  PROVE  <<Blank>> \o r \in Seq(S)
<1>1. PICK n \in Seq(S) : n = <<Blank>>
  BY OneElement
<1> QED
  BY <1>1, ConcatProperties

\* What is left: blank lines, or a statement first.
LEMMA GoodOrBlank ==
  ASSUME NEW S, \A s \in S : s \in Items, NEW l \in Seq(S), l \notin Seq({Blank})
  PROVE  \E b \in Seq({Blank}) : \E s \in S \ {Blank} : \E rest \in Seq(S) : Leads(l, b, s, rest)
<1>1. Led(S, l)
  BY BlankOrLed
<1>2. PICK b \in Seq({Blank}), s \in S \ {Blank}, rest \in Seq(S) : l = b \o (<<s>> \o rest)
  BY <1>1 DEF Led
<1>3. rest \in Seq(Items) /\ s \in Items
  BY <1>2, SeqOver
<1>4. Leads(l, b, s, rest)
  BY <1>2, <1>3 DEF Leads
<1> QED
  BY <1>2, <1>4

-----------------------------------------------------------------------------
(* The turns                                                                *)

LEMMA NotBefore ==
  ASSUME NEW str \in Seq(Lexeme), NEW chars, NEW m \in Nat, m = Len(str), NEW p \in Nat, p <= m,
         ~(FirstOf(str, chars, 1) <= p)
  PROVE  Without(str, 1, p, chars)
<1>1. PICK q \in Nat : /\ q = FirstOf(str, chars, 1)
                       /\ q <= m => 1 <= q /\ str[q] \in chars
                       /\ q <= m \/ q = m + 1
                       /\ \A i \in 1 .. m : i < q => str[i] \notin chars
  BY FirstTyped
<1>2. ASSUME NEW i \in 1 .. p PROVE str[i] \notin chars
  <2>1. i \in 1 .. m /\ i < q
    BY <1>1
  <2> QED
    BY <1>1, <2>1
<1> QED
  BY <1>2 DEF Without

LEMMA NotThere ==
  ASSUME NEW str \in Seq(Lexeme), NEW chars, NEW m \in Nat, m = Len(str), Without(str, 1, m, chars)
  PROVE  FirstOf(str, chars, 1) = m + 1
<1>1. PICK q \in Nat : /\ q = FirstOf(str, chars, 1)
                       /\ q <= m => 1 <= q /\ str[q] \in chars
                       /\ q <= m \/ q = m + 1
                       /\ \A i \in 1 .. m : i < q => str[i] \notin chars
  BY FirstTyped
<1>2. ASSUME q <= m PROVE FALSE
  <2>1. q \in 1 .. m
    BY <1>1, <1>2
  <2> QED
    BY <1>1, <1>2, <2>1 DEF Without
<1> QED
  BY <1>1, <1>2

LEMMA UpTo ==
  ASSUME NEW p \in Nat, NEW m \in Nat, p <= m, NEW i \in 1 .. p
  PROVE  i \in 1 .. m
OBVIOUS

LEMMA Mutely ==
  ASSUME NEW str \in Seq(Lexeme), NEW m \in Nat, Long(str, m), NEW p \in Nat, p <= m,
         ~(FirstOf(str, {";"}, 1) <= p)
  PROVE  \A i \in 1 .. p : str[i] \in Mute
<1>1. m = Len(str)
  BY DEF Long
<1>2. Without(str, 1, p, {";"})
  BY <1>1, NotBefore
<1> SUFFICES ASSUME NEW i \in 1 .. p PROVE str[i] \in Mute
  OBVIOUS
<1>3. i \in 1 .. m
  BY UpTo
<1>4. str[i] \in Lexeme
  BY <1>1, <1>3, ElementOfSeq
<1> QED
  BY <1>2, <1>4 DEF Mute, Without

LEMMA MuteFirst ==
  ASSUME NEW str \in Seq(Mute), NEW m \in Nat, Long(str, m)
  PROVE  FirstOf(str, {";"}, 1) = m + 1 /\ Npos(str) = m + 1
<1>1. str \in Seq(Lexeme)
  BY SeqOver DEF Mute
<1>2. m = Len(str)
  BY DEF Long
<1>3. ASSUME NEW i \in 1 .. m PROVE str[i] \notin {";"}
  <2>1. str[i] \in Mute
    BY <1>2, ElementOfSeq
  <2> QED
    BY <2>1 DEF Mute
<1>4. Without(str, 1, m, {";"})
  BY <1>3 DEF Without
<1>5. FirstOf(str, {";"}, 1) = m + 1
  BY <1>1, <1>2, <1>4, NotThere
<1> QED
  BY <1>2, <1>5 DEF Npos

LEMMA SameWord ==
  ASSUME NEW v, NEW w
  PROVE  <<v>> = <<w>> <=> v = w
OBVIOUS

\* The places of a parameter in the text, and the alternatives of a turn.
Places(end, start, delimiter, name) ==
  /\ end = FirstOf(text, {";"}, 1) /\ start = FirstNotOf(text, Space, 1)
  /\ delimiter = FirstOf(text, Space, start) /\ name = SubSeq(text, start, delimiter - 1)
LoadTurn(end, start, delimiter, name) ==
  \/ /\ delimiter >= end
     /\ text' = Rest(text, end + 1) /\ UNCHANGED global
  \/ /\ delimiter < end /\ text[start] = "#"
     /\ text' = Rest(text, FirstOf(text, {"nl"}, start) + 1) /\ UNCHANGED global
  \/ /\ delimiter < end /\ name = <<"include">>
     /\ text' = includeConfigFile(Value(delimiter, end)[1], Rest(text, end + 1)) /\ UNCHANGED global
  \/ /\ delimiter < end /\ text[start] # "#" /\ name # <<"include">>
     /\ text' = Rest(text, end + 1)
     /\ global' = With(global, [name |-> name, value |-> Value(delimiter, end)])
Behind(str, rest, end) == Rest(str \o rest, findBlockEnd(str \o rest, end + 1) + 1)
ServerTurn(end, start, delimiter, name) ==
  \/ /\ delimiter >= end
     /\ text' = Rest(text, end + 1) /\ UNCHANGED <<app, after>>
  \/ /\ delimiter < end /\ text[start] = "#"
     /\ text' = Rest(text, FirstOf(text, {"nl"}, start) + 1) /\ UNCHANGED <<app, after>>
  \/ /\ delimiter < end /\ name = <<"include">>
     /\ text' = includeConfigFile(Value(delimiter, end)[1], Rest(text, end + 1))
     /\ after' = Behind(SubSeq(text, 1, end), text', end) /\ UNCHANGED app
  \/ /\ delimiter < end /\ text[start] # "#" /\ name # <<"include">>
     /\ text' = Rest(text, end + 1) /\ UNCHANGED after
     /\ app' = Append(app, [name |-> name, value |-> Value(delimiter, end)])

LEMMA LoadTurns ==
  ASSUME LoadParam
  PROVE  \E end, start, delimiter, name :
           Places(end, start, delimiter, name) /\ LoadTurn(end, start, delimiter, name)
<1>1. LET end       == FirstOf(text, {";"}, 1)
          start     == FirstNotOf(text, Space, 1)
          delimiter == FirstOf(text, Space, start)
          name      == SubSeq(text, start, delimiter - 1)
      IN  LoadTurn(end, start, delimiter, name)
  BY DEF LoadParam, LoadTurn, With
<1> QED
  BY <1>1 DEF Places

LEMMA ServerTurns ==
  ASSUME ServerParam
  PROVE  \E end, start, delimiter, name :
           Places(end, start, delimiter, name) /\ ServerTurn(end, start, delimiter, name)
<1>1. LET end       == FirstOf(text, {";"}, 1)
          start     == FirstNotOf(text, Space, 1)
          delimiter == FirstOf(text, Space, start)
          name      == SubSeq(text, start, delimiter - 1)
      IN  ServerTurn(end, start, delimiter, name)
  BY DEF ServerParam, ServerTurn, Behind
<1> QED
  BY <1>1 DEF Places

LEMMA PlacesOfParam ==
  ASSUME NEW end, NEW start, NEW delimiter, NEW name, Places(end, start, delimiter, name),
         NEW word \in Words, NEW value, NEW v, ReadsParam(text, word, value, v)
  PROVE  /\ end \in Nat /\ delimiter \in Nat /\ delimiter < end /\ ~(delimiter >= end) /\ text[start] # "#"
         /\ name = <<word>> /\ Value(delimiter, end) = value /\ Rest(text, end + 1) = v
<1>1. word # "#"
  BY WordIs
<1>2. end \in Nat /\ delimiter \in Nat /\ delimiter < end /\ text[start] = word
  BY DEF Places, ReadsParam
<1>3. name = <<word>> /\ Value(delimiter, end) = value /\ Rest(text, end + 1) = v
  BY DEF Places, ReadsParam, Value
<1>4. ~(delimiter >= end)
  BY <1>2
<1> QED
  BY <1>1, <1>2, <1>3, <1>4

LEMMA PlacesOfComment ==
  ASSUME NEW end, NEW start, NEW delimiter, NEW name, Places(end, start, delimiter, name),
         NEW u, ReadsComment(text, u)
  PROVE  /\ ~(delimiter >= end) /\ text[start] = "#" /\ name # <<"include">>
         /\ Rest(text, FirstOf(text, {"nl"}, start) + 1) = u
<1>1. <<"#">> # <<"include">>
  BY SameWord
<1>2. end \in Nat /\ delimiter \in Nat /\ delimiter < end
  BY DEF Places, ReadsComment
<1>3. text[start] = "#" /\ name = <<"#">> /\ Rest(text, FirstOf(text, {"nl"}, start) + 1) = u
  BY DEF Places, ReadsComment
<1>4. ~(delimiter >= end)
  BY <1>2
<1> QED
  BY <1>1, <1>3, <1>4

LEMMA LoadParamReads ==
  ASSUME LoadParam, NEW name \in Words, NEW value, NEW v, ReadsParam(text, name, value, v)
  PROVE  \/ name = "include" /\ text' = includeConfigFile(value[1], v) /\ global' = global
         \/ name # "include" /\ text' = v /\ global' = With(global, [name |-> <<name>>, value |-> value])
<1>1. PICK end, start, delimiter, key :
        Places(end, start, delimiter, key) /\ LoadTurn(end, start, delimiter, key)
  BY LoadTurns
<1>2. /\ ~(delimiter >= end) /\ text[start] # "#"
      /\ key = <<name>> /\ Value(delimiter, end) = value /\ Rest(text, end + 1) = v
  BY <1>1, PlacesOfParam
<1>3. key = <<"include">> <=> name = "include"
  BY <1>2, SameWord
<1> QED
  BY <1>1, <1>2, <1>3, Zenon DEF LoadTurn

LEMMA LoadParamComment ==
  ASSUME LoadParam, NEW u, ReadsComment(text, u)
  PROVE  text' = u /\ global' = global
<1>1. PICK end, start, delimiter, key :
        Places(end, start, delimiter, key) /\ LoadTurn(end, start, delimiter, key)
  BY LoadTurns
<1>2. /\ ~(delimiter >= end) /\ text[start] = "#" /\ key # <<"include">>
      /\ Rest(text, FirstOf(text, {"nl"}, start) + 1) = u
  BY <1>1, PlacesOfComment
<1> QED
  BY <1>1, <1>2, Zenon DEF LoadTurn

LEMMA NotBoth ==
  ASSUME NEW e \in Nat, NEW b \in Nat, e < b
  PROVE  ~(b < e)
OBVIOUS

LEMMA LoadParamServer ==
  ASSUME LoadParam, NEW t, NEW u, ReadsServer(text, t, u)
  PROVE  FALSE
<1>1. FirstOf(text, {";"}, 1) < FirstOf(text, {"{"}, 1)
  BY DEF LoadParam
<1>2. /\ FirstOf(text, {";"}, 1) \in Nat /\ FirstOf(text, {"{"}, 1) \in Nat
      /\ FirstOf(text, {"{"}, 1) < FirstOf(text, {";"}, 1)
  BY DEF ReadsServer
<1> QED
  BY <1>1, <1>2, NotBoth, Zenon

LEMMA LoadParamOthers ==
  ASSUME LoadParam
  PROVE  pc = "load" /\ UNCHANGED <<pc, run, config, after, app, applications>>
BY DEF LoadParam

LEMMA LoadBlockParam ==
  ASSUME LoadBlock, NEW name, NEW value, NEW v, ReadsParam(text, name, value, v)
  PROVE  FALSE
<1>1. FirstOf(text, {"{"}, 1) < FirstOf(text, {";"}, 1)
  BY DEF LoadBlock
<1>2. /\ FirstOf(text, {";"}, 1) \in Nat /\ FirstOf(text, {"{"}, 1) \in Nat
      /\ FirstOf(text, {";"}, 1) < FirstOf(text, {"{"}, 1)
  BY DEF ReadsParam
<1> QED
  BY <1>1, <1>2, NotBoth, Zenon

LEMMA LoadBlockComment ==
  ASSUME LoadBlock, NEW u, ReadsComment(text, u)
  PROVE  text' = <<"nl">> \o u /\ UNCHANGED <<pc, after, app>>
BY DEF LoadBlock, ReadsComment

LEMMA LoadBlockServer ==
  ASSUME LoadBlock, NEW t, NEW u, ReadsServer(text, t, u)
  PROVE  pc' = "server" /\ text' = t \o (<<"}">> \o u) /\ after' = u /\ app' = <<>>
<1>1. PICK b, start, delimiter, e, name :
        /\ b = FirstOf(text, {"{"}, 1) /\ start = FirstNotOf(text, Space, 1)
        /\ delimiter = FirstOf(text, Space, start) /\ e = findBlockEnd(text, b + 1)
        /\ name = SubSeq(text, start, delimiter - 1)
  OBVIOUS
<1>2. /\ text[start] # "#" /\ name = <<"server">> /\ FirstNotOf(text, Space, delimiter) = b
      /\ Rest(text, b + 1) = t \o (<<"}">> \o u) /\ Rest(text, e + 1) = u
  BY <1>1 DEF ReadsServer
<1>3. e # Npos(text)
  <2>1. e \in Nat /\ Len(text) \in Nat /\ e <= Len(text)
    BY <1>1 DEF ReadsServer
  <2> QED
    BY <2>1 DEF Npos
<1>4. \/ text[start] = "#"
      \/ e = Npos(text)
      \/ ~(name = <<"server">> /\ FirstNotOf(text, Space, delimiter) = b)
      \/ pc' = "server" /\ text' = Rest(text, b + 1) /\ after' = Rest(text, e + 1) /\ app' = <<>>
  BY <1>1 DEF LoadBlock
<1> QED
  BY <1>2, <1>3, <1>4, Zenon

LEMMA LoadBlockOthers ==
  ASSUME LoadBlock
  PROVE  pc = "load" /\ UNCHANGED <<run, config, applications, global>>
BY DEF LoadBlock, known

LEMMA ServerParamReads ==
  ASSUME ServerParam, NEW name \in Words, NEW value, NEW v, ReadsParam(text, name, value, v),
         text \in Seq(Lexeme)
  PROVE  \/ /\ name = "include" /\ text' = includeConfigFile(value[1], v) /\ app' = app
            /\ \E p \in Seq(Lexeme) : \E k \in Nat : Long(p, k) /\ after' = Behind(p, text', k)
         \/ /\ name # "include" /\ text' = v /\ after' = after
            /\ app' = Append(app, [name |-> <<name>>, value |-> value])
<1>1. PICK end, start, delimiter, key :
        Places(end, start, delimiter, key) /\ ServerTurn(end, start, delimiter, key)
  BY ServerTurns
<1>2. /\ ~(delimiter >= end) /\ text[start] # "#"
      /\ key = <<name>> /\ Value(delimiter, end) = value /\ Rest(text, end + 1) = v
  BY <1>1, PlacesOfParam
<1>3. key = <<"include">> <=> name = "include"
  BY <1>2, SameWord
<1>4. \E p \in Seq(Lexeme) : \E k \in Nat : Long(p, k) /\ Behind(p, text', k) = Behind(SubSeq(text, 1, end), text', end)
  <2>1. end \in Nat /\ end <= Len(text)
    <3>1. end \in Nat /\ end = Len(text) - Len(v) /\ Len(v) \in Nat /\ Len(text) \in Nat
      BY <1>1, LenProperties DEF Places, ReadsParam
    <3> QED
      BY <3>1
  <2>2. \A i \in 1 .. end : text[i] \in Lexeme
    BY <2>1, ElementOfSeq
  <2>3. SubSeq(text, 1, end) \in Seq(Lexeme) /\ Len(SubSeq(text, 1, end)) = end
    BY <2>1, <2>2, SubSeqProperties
  <2> QED
    BY <2>1, <2>3 DEF Long
<1> QED
  BY <1>1, <1>2, <1>3, <1>4, Zenon DEF ServerTurn

LEMMA ServerParamComment ==
  ASSUME ServerParam, NEW u, ReadsComment(text, u)
  PROVE  text' = u /\ app' = app /\ after' = after
<1>1. PICK end, start, delimiter, key :
        Places(end, start, delimiter, key) /\ ServerTurn(end, start, delimiter, key)
  BY ServerTurns
<1>2. /\ ~(delimiter >= end) /\ text[start] = "#" /\ key # <<"include">>
      /\ Rest(text, FirstOf(text, {"nl"}, start) + 1) = u
  BY <1>1, PlacesOfComment
<1>3. text' = Rest(text, FirstOf(text, {"nl"}, start) + 1) /\ UNCHANGED <<app, after>>
  BY <1>1, <1>2, Zenon DEF ServerTurn
<1> QED
  BY <1>2, <1>3

LEMMA ServerParamOthers ==
  ASSUME ServerParam
  PROVE  /\ pc = "server" /\ UNCHANGED <<pc, run, config, applications, global>>
         /\ FirstOf(text, {";"}, 1) < Len(text) - Len(after)
BY DEF ServerParam, known

\* The text is what is left of the statements, and together with what is read already they
\* are the configuration.
LoadLeft(conf, str, apps, g) ==
  \E rem \in Seq(Good(conf)) : \E gl \in Seq(Entries) :
    /\ apps \in Seq(Seq(Entries)) /\ Ready(str, rem, <<>>)
    /\ Kept(conf, gl, apps, rem) /\ FirstValues(g, gl)
Closing(behind) == <<"}">> \o behind
ServerLeft(conf, str, behind, apps, a, g) ==
  \E brem \in Seq(Allowed(conf)) : \E rem \in Seq(Good(conf)) : \E gl \in Seq(Entries) :
    /\ apps \in Seq(Seq(Entries)) /\ a \in Seq(Entries)
    /\ Ready(behind, rem, <<>>) /\ Ready(str, brem, Closing(behind))
    /\ KeptIn(conf, gl, apps, a, brem, rem) /\ FirstValues(g, gl)

LEMMA FirstUpper ==
  ASSUME NEW str \in Seq(Lexeme), NEW chars, NEW m \in Nat, m = Len(str)
  PROVE  FirstOf(str, chars, 1) \in Nat /\ ~(m + 1 < FirstOf(str, chars, 1))
<1>1. PICK q \in Nat : /\ q = FirstOf(str, chars, 1)
                       /\ q <= m => 1 <= q /\ str[q] \in chars
                       /\ q <= m \/ q = m + 1
                       /\ \A i \in 1 .. m : i < q => str[i] \notin chars
  BY FirstTyped
<1>2. ~(m + 1 < q)
  BY <1>1
<1> QED
  BY <1>1, <1>2

\* Without the sign that ends a parameter there is no turn but the last.
LEMMA MuteTurns ==
  ASSUME NEW m \in Nat, Long(text, m), text \in Seq(Mute)
  PROVE  ~LoadParam /\ ~LoadBlock
<1>1. FirstOf(text, {";"}, 1) = m + 1 /\ Npos(text) = m + 1
  BY MuteFirst
<1>2. text \in Seq(Lexeme) /\ m = Len(text)
  BY SeqOver DEF Mute, Long
<1>3. ~(m + 1 < FirstOf(text, {"{"}, 1))
  BY <1>2, FirstUpper
<1>4. LoadParam => FirstOf(text, {";"}, 1) < FirstOf(text, {"{"}, 1)
  BY DEF LoadParam
<1>5. LoadBlock => FirstOf(text, {";"}, 1) # Npos(text)
  BY DEF LoadBlock
<1> QED
  BY <1>1, <1>3, <1>4, <1>5

LEMMA ReadyLast ==
  ASSUME NEW str, NEW l \in Seq(Items), Ready(str, l, <<>>)
  PROVE  str = TextOf(l) /\ str \in Seq(Lexeme)
<1>1. TextOf(l) \in Seq(Lexeme)
  BY TextTyped, MappedJoin DEF TextOf
<1> QED
  BY <1>1, ConcatEmptySeq DEF Ready

LEMMA MarkedSays ==
  ASSUME NEW conf \in Configs, NEW S, \A s \in S : s \in Marked, NEW l \in Seq(S), TextOf(l) \in Seq(Mute)
  PROVE  SaysNothing(conf, l)
BY SeqOver, ListSilent DEF SaysNothing

LEMMA BlankMute ==
  ASSUME NEW b \in Seq({Blank})
  PROVE  TextOf(b) \in Seq(Mute) /\ b \in Seq(Items)
<1>1. TextOf(b) \in Seq({"nl"}) /\ b \in Seq(Items)
  BY BlankText DEF BlankLines
<1>2. "nl" \in Mute
  BY SignsHere DEF SignsAre, Mute
<1> QED
  BY <1>1, <1>2, SeqOver

\* An include brings what the file holds in front of the rest, but for white space.
LEMMA IncludeTurn ==
  ASSUME config \in Configs, NEW s \in Includes, Plain(config, s), NEW m, m = Included(config, s),
         NEW r \in Seq(Items), NEW tail \in Seq(Lexeme), NEW v, Ready(v, r, tail)
  PROVE  \/ Ready(includeConfigFile(s.file, v), m \o r, tail)
         \/ v \in Seq(Space) /\ Ready(includeConfigFile(s.file, v), m, <<>>)
<1>1. m \in Seq(Items) /\ FileText(config, s.file) = TextOf(m)
  BY IncludeSays
<1>2. PICK M \in Seq(Lexeme), R \in Seq(Lexeme) : M = TextOf(m) /\ R = TextOf(r)
  BY <1>1, TextTyped, MappedJoin DEF TextOf
<1>3. v \in Seq(Lexeme) /\ v = R \o tail
  BY <1>2, ConcatProperties DEF Ready
<1>4. CASE ToSet(v) \subseteq Space
  <2>1. v \in Seq(Space)
    <3>1. ASSUME NEW i \in 1 .. Len(v) PROVE v[i] \in Space
      <4>1. i \in DOMAIN v
        BY <1>3, LenProperties
      <4> QED
        BY <1>4, <4>1 DEF ToSet
    <3> QED
      BY <1>3, <3>1, SeqFrom
  <2>2. includeConfigFile(s.file, v) = M \o <<>>
    BY <1>1, <1>2, <1>4 DEF includeConfigFile
  <2> QED
    BY <1>2, <2>1, <2>2 DEF Ready
<1>5. CASE ~(ToSet(v) \subseteq Space)
  <2>1. includeConfigFile(s.file, v) = M \o v
    BY <1>1, <1>2, <1>5 DEF includeConfigFile
  <2>2. TextOf(m \o r) = M \o R
    <3>1. MapsParts(TextG, m, r)
      BY <1>1, TextTyped, MappedJoin
    <3> QED
      BY <1>2, <3>1 DEF MapsParts, TextOf
  <2>3. Grouped(M, R, tail)
    BY <1>2, GroupedIs
  <2> QED
    BY <1>3, <2>1, <2>2, <2>3 DEF Ready, Grouped
<1> QED
  BY <1>4, <1>5

LEMMA SpaceMute ==
  ASSUME NEW v \in Seq(Space)
  PROVE  v \in Seq(Mute)
<1>1. \A x \in Space : x \in Mute
  BY SignsHere DEF SignsAre, Mute, Space
<1> QED
  BY <1>1, SeqOver

\* What is first in a text that is left.
LeadsBy(S, conf, l, b, s, rest) ==
  /\ s \in S /\ s # Blank /\ Leads(l, b, s, rest) /\ rest \in Seq(S) /\ rest \in Seq(Items)
  /\ <<Blank>> \o rest \in Seq(S) /\ <<Blank>> \o rest \in Seq(Items)
  /\ Says(conf, l, <<s>>, rest) /\ Says(conf, l, <<s>>, <<Blank>> \o rest)

LEMMA LeftFirst ==
  ASSUME NEW conf \in Configs, NEW S, Blank \in S, \A s \in S : s \in Items,
         NEW l \in Seq(S), l \notin Seq({Blank})
  PROVE  \E b, s, rest : LeadsBy(S, conf, l, b, s, rest)
<1>1. PICK b \in Seq({Blank}), s \in S \ {Blank}, rest \in Seq(S) : Leads(l, b, s, rest)
  BY GoodOrBlank
<1>2. rest \in Seq(Items)
  BY SeqOver
<1>3. <<Blank>> \o rest \in Seq(S)
  BY BlankInFront
<1>4. /\ Says(conf, l, <<s>>, rest) /\ Says(conf, l, <<s>>, <<Blank>> \o rest)
      /\ <<Blank>> \o rest \in Seq(Items)
  BY <1>1, LedSays
<1>5. LeadsBy(S, conf, l, b, s, rest)
  BY <1>1, <1>2, <1>3, <1>4 DEF LeadsBy
<1> QED
  BY <1>5

LEMMA LoadLeftMade ==
  ASSUME NEW conf, NEW rem \in Seq(Good(conf)), NEW gl \in Seq(Entries), NEW apps \in Seq(Seq(Entries)),
         NEW str, NEW g, Ready(str, rem, <<>>), Kept(conf, gl, apps, rem), FirstValues(g, gl)
  PROVE  LoadLeft(conf, str, apps, g)
BY DEF LoadLeft

LEMMA LoadParamStep ==
  ASSUME config \in Configs, Readable(config), LoadLeft(config, text, applications, global), LoadParam
  PROVE  LoadLeft(config, text', applications, global')
<1> DEFINE G == Good(config)
<1>1. PICK rem \in Seq(G), gl \in Seq(Entries) :
        /\ applications \in Seq(Seq(Entries)) /\ Ready(text, rem, <<>>)
        /\ Kept(config, gl, applications, rem) /\ FirstValues(global, gl)
  BY DEF LoadLeft
<1>2. \A s \in G : s \in Items /\ s \in Marked
  BY GoodMarked
<1>3. rem \in Seq(Items) /\ <<>> \in Seq(Lexeme)
  BY <1>1, <1>2, SeqOver, EmptySeq
<1>4. text = TextOf(rem) /\ text \in Seq(Lexeme)
  BY <1>1, <1>3, ReadyLast
<1>5. rem \notin Seq({Blank})
  <2>1. PICK m \in Nat : Long(text, m)
    BY <1>4, LongIs
  <2> QED
    BY <1>4, <2>1, BlankMute, MuteTurns
<1>60. PICK b, s, rest : LeadsBy(G, config, rem, b, s, rest)
  <2>1. Blank \in G
    BY BlankGood
  <2> QED
    BY <1>2, <1>1, <1>5, <2>1, LeftFirst
<1>6. /\ s \in G \ {Blank} /\ rest \in Seq(G)
      /\ Leads(rem, b, s, rest) /\ rest \in Seq(Items)
      /\ <<Blank>> \o rest \in Seq(G) /\ <<Blank>> \o rest \in Seq(Items)
      /\ Says(config, rem, <<s>>, rest) /\ Says(config, rem, <<s>>, <<Blank>> \o rest)
  BY <1>60 DEF LeadsBy
<1>7. PICK r : r = <<Blank>> \o rest
  OBVIOUS
<1>8. r \in Seq(G) /\ r \in Seq(Items) /\ Says(config, rem, <<s>>, r)
  BY <1>6, <1>7
<1> HIDE DEF G
<1>9. CASE s \in Parameters
  <2>1. PICK v \in Seq(Lexeme) : Ready(v, r, <<>>) /\ ReadsParam(text, s.name, s.value, v)
    BY <1>1, <1>3, <1>6, <1>7, <1>9, ParamFirst
  <2>2. s.name \in Words /\ s.name # "include"
    BY <1>9 DEF Parameters
  <2>3. text' = v /\ global' = With(global, Entry(s))
    BY <2>1, <2>2, LoadParamReads DEF Entry
  <2>4. Kept(config, Append(gl, Entry(s)), applications, r) /\ Append(gl, Entry(s)) \in Seq(Entries)
    BY <1>1, <1>8, <1>9, KeptParam
  <2>5. FirstValues(global', Append(gl, Entry(s)))
    BY <1>1, <1>9, <2>3, ParamSays, FirstValuesMore
  <2> QED
    BY <1>1, <1>8, <2>1, <2>3, <2>4, <2>5, LoadLeftMade DEF G
<1>10. CASE s \in Comments
  <2>1. PICK u \in Seq(Lexeme) : Ready(u, rest, <<>>) /\ ReadsComment(text, u)
    BY <1>1, <1>3, <1>6, <1>10, CommentFirst
  <2>2. text' = u /\ global' = global
    BY <2>1, LoadParamComment
  <2>3. Kept(config, gl, applications, rest)
    BY <1>1, <1>6, <1>10, CommentAlike, KeptAlike
  <2> QED
    BY <1>1, <1>6, <2>1, <2>2, <2>3, LoadLeftMade DEF G
<1>11. CASE s \in Includes
  <2>1. PICK v \in Seq(Lexeme) : Ready(v, r, <<>>) /\ ReadsParam(text, "include", <<s.file>>, v)
    BY <1>1, <1>3, <1>6, <1>7, <1>11, IncludeFirst
  <2>2. text' = includeConfigFile(s.file, v) /\ global' = global
    <3>1. "include" \in Words /\ <<s.file>>[1] = s.file
      BY ConfigsAssumption
    <3> QED
      BY <2>1, <3>1, LoadParamReads
  <2>3. PICK m : m = Included(config, s)
    OBVIOUS
  <2>4. m \in Seq(G) /\ Plain(config, s)
    BY <1>6, <2>3, GoodIncluded DEF G, Good
  <2>5. /\ m \o r \in Seq(Items) /\ SaysAlike(config, rem, m \o r)
        /\ SaysNothing(config, r) => SaysAlike(config, rem, m)
    BY <1>8, <1>11, <2>3, <2>4, IncludeAlike
  <2>6. \/ Ready(text', m \o r, <<>>)
        \/ v \in Seq(Space) /\ Ready(text', m, <<>>)
    BY <1>3, <1>8, <1>11, <2>1, <2>2, <2>3, <2>4, IncludeTurn
  <2>7. CASE Ready(text', m \o r, <<>>)
    <3>1. m \o r \in Seq(G)
      BY <1>8, <2>4, ConcatProperties
    <3>2. Kept(config, gl, applications, m \o r)
      BY <1>1, <2>5, KeptAlike
    <3> QED
      BY <1>1, <2>2, <2>7, <3>1, <3>2, LoadLeftMade DEF G
  <2>8. CASE v \in Seq(Space) /\ Ready(text', m, <<>>)
    <3>1. v = TextOf(r)
      BY <1>8, <2>1, ReadyLast
    <3>2. SaysNothing(config, r)
      BY <1>2, <1>8, <2>8, <3>1, SpaceMute, MarkedSays DEF G
    <3>3. Kept(config, gl, applications, m)
      BY <1>1, <2>5, <3>2, KeptAlike
    <3> QED
      BY <1>1, <2>2, <2>4, <2>8, <3>3, LoadLeftMade DEF G
  <2> QED
    BY <2>6, <2>7, <2>8
<1>12. CASE s \in Servs
  <2>1. PICK t : t = TextOf(<<Blank>> \o s.body)
    OBVIOUS
  <2>2. Quiet(t)
    <3>1. <<Blank>> \o s.body \in Seq(Allowed(config))
      BY <1>6, <1>12, GoodBody DEF G
    <3>2. <<Blank>> \o s.body \in Seq(Hidden)
      BY <3>1, GoodMarked, SeqOver
    <3> QED
      BY <2>1, <3>2, QuietText
  <2>3. PICK v \in Seq(Lexeme) : ReadsServer(text, t, v)
    BY <1>1, <1>3, <1>6, <1>12, <2>1, <2>2, ServerFirst
  <2> QED
    BY <2>3, LoadParamServer
<1> QED
  <2>1. s \in Items /\ s # Blank
    BY <1>2, <1>6
  <2> QED
    BY <1>9, <1>10, <1>11, <1>12, <2>1, KindOfItem

LEMMA ServerLeftMade ==
  ASSUME NEW conf, NEW brem \in Seq(Allowed(conf)), NEW rem \in Seq(Good(conf)), NEW gl \in Seq(Entries),
         NEW apps \in Seq(Seq(Entries)), NEW a \in Seq(Entries), NEW str, NEW behind, NEW g,
         Ready(behind, rem, <<>>), Ready(str, brem, Closing(behind)),
         KeptIn(conf, gl, apps, a, brem, rem), FirstValues(g, gl)
  PROVE  ServerLeft(conf, str, behind, apps, a, g)
BY DEF ServerLeft

LEMMA LoadBlockStep ==
  ASSUME config \in Configs, Readable(config), LoadLeft(config, text, applications, global), LoadBlock
  PROVE  \/ pc' = "load" /\ LoadLeft(config, text', applications, global)
         \/ pc' = "server" /\ ServerLeft(config, text', after', applications, app', global)
<1> DEFINE G == Good(config)
<1>1. PICK rem \in Seq(G), gl \in Seq(Entries) :
        /\ applications \in Seq(Seq(Entries)) /\ Ready(text, rem, <<>>)
        /\ Kept(config, gl, applications, rem) /\ FirstValues(global, gl)
  BY DEF LoadLeft
<1>2. \A s \in G : s \in Items /\ s \in Marked
  BY GoodMarked
<1>3. rem \in Seq(Items) /\ <<>> \in Seq(Lexeme)
  BY <1>1, <1>2, SeqOver, EmptySeq
<1>4. text = TextOf(rem) /\ text \in Seq(Lexeme)
  BY <1>1, <1>3, ReadyLast
<1>5. rem \notin Seq({Blank})
  <2>1. PICK m \in Nat : Long(text, m)
    BY <1>4, LongIs
  <2> QED
    BY <1>4, <2>1, BlankMute, MuteTurns
<1>6. PICK b, s, rest : LeadsBy(G, config, rem, b, s, rest)
  <2>1. Blank \in G
    BY BlankGood
  <2> QED
    BY <1>2, <1>1, <1>5, <2>1, LeftFirst
<1>7. PICK r : r = <<Blank>> \o rest
  OBVIOUS
<1>8. /\ s \in G \ {Blank} /\ rest \in Seq(G) /\ Leads(rem, b, s, rest) /\ rest \in Seq(Items)
      /\ r \in Seq(G) /\ r \in Seq(Items) /\ Says(config, rem, <<s>>, r)
  BY <1>6, <1>7 DEF LeadsBy
<1> HIDE DEF G
<1>9. CASE s \in Parameters
  <2>1. PICK v \in Seq(Lexeme) : Ready(v, r, <<>>) /\ ReadsParam(text, s.name, s.value, v)
    BY <1>1, <1>3, <1>7, <1>8, <1>9, ParamFirst
  <2> QED
    BY <2>1, LoadBlockParam
<1>10. CASE s \in Comments
  <2>1. PICK u \in Seq(Lexeme) : Ready(u, rest, <<>>) /\ ReadsComment(text, u)
    BY <1>1, <1>3, <1>8, <1>10, CommentFirst
  <2>2. text' = <<"nl">> \o u /\ pc' = "load"
    BY <2>1, LoadBlockComment, LoadBlockOthers
  <2>3. Ready(text', r, <<>>)
    BY <1>3, <1>7, <1>8, <2>1, <2>2, BlankAhead
  <2>4. Kept(config, gl, applications, r)
    BY <1>1, <1>8, <1>10, CommentAlike, KeptAlike
  <2> QED
    BY <1>1, <1>8, <2>2, <2>3, <2>4, LoadLeftMade DEF G
<1>11. CASE s \in Includes
  <2>1. PICK v \in Seq(Lexeme) : Ready(v, r, <<>>) /\ ReadsParam(text, "include", <<s.file>>, v)
    BY <1>1, <1>3, <1>7, <1>8, <1>11, IncludeFirst
  <2> QED
    BY <2>1, LoadBlockParam
<1>12. CASE s \in Servs
  <2>1. PICK body : body = <<Blank>> \o s.body
    OBVIOUS
  <2>2. PICK t : t = TextOf(body)
    OBVIOUS
  <2>3. body \in Seq(Allowed(config)) /\ Quiet(t)
    <3>1. body \in Seq(Allowed(config))
      BY <1>8, <1>12, <2>1, GoodBody DEF G
    <3>2. body \in Seq(Hidden)
      BY <3>1, GoodMarked, SeqOver
    <3> QED
      BY <2>2, <3>1, <3>2, QuietText
  <2>4. PICK v \in Seq(Lexeme) : Ready(v, r, <<>>) /\ ReadsServer(text, t, v)
    BY <1>1, <1>3, <1>7, <1>8, <1>12, <2>1, <2>2, <2>3, ServerFirst
  <2>5. pc' = "server" /\ text' = t \o (<<"}">> \o v) /\ after' = v /\ app' = <<>>
    BY <2>4, LoadBlockServer
  <2>6. Ready(text', body, Closing(after')) /\ Ready(after', r, <<>>)
    BY <2>2, <2>4, <2>5 DEF Ready, Closing
  <2>7. KeptIn(config, gl, applications, <<>>, body, r)
    BY <1>1, <1>8, <1>12, <2>1, KeptServer
  <2>8. <<>> \in Seq(Entries)
    BY EmptySeq
  <2> QED
    BY <1>1, <1>8, <2>3, <2>5, <2>6, <2>7, <2>8, ServerLeftMade DEF G
<1> QED
  <2>1. s \in Items /\ s # Blank
    BY <1>2, <1>8
  <2> QED
    BY <1>9, <1>10, <1>11, <1>12, <2>1, KindOfItem

LEMMA NotAbove ==
  ASSUME NEW m \in Nat
  PROVE  m <= m /\ ~(m + 1 <= m)
OBVIOUS

\* Where no sign ends a parameter any more, all is read.
LEMMA LoadEndStep ==
  ASSUME config \in Configs, LoadLeft(config, text, applications, global),
         FirstOf(text, {";"}, 1) = Npos(text)
  PROVE  \E gl \in Seq(Entries) :
           Globals(config) = gl /\ Servers(config) = applications /\ FirstValues(global, gl)
<1>1. PICK rem \in Seq(Good(config)), gl \in Seq(Entries) :
        /\ applications \in Seq(Seq(Entries)) /\ Ready(text, rem, <<>>)
        /\ Kept(config, gl, applications, rem) /\ FirstValues(global, gl)
  BY DEF LoadLeft
<1>2. \A s \in Good(config) : s \in Items /\ s \in Marked
  BY GoodMarked
<1>3. rem \in Seq(Items)
  BY <1>1, <1>2, SeqOver
<1>4. text = TextOf(rem) /\ text \in Seq(Lexeme)
  BY <1>1, <1>3, ReadyLast
<1>5. text \in Seq(Mute)
  <2>1. PICK m \in Nat : Long(text, m)
    BY <1>4, LongIs
  <2>2. ~(FirstOf(text, {";"}, 1) <= m)
    <3>1. Npos(text) = m + 1
      BY <2>1 DEF Npos, Long
    <3>2. ~(m + 1 <= m)
      BY NotAbove
    <3> QED
      BY <3>1, <3>2
  <2>3. m <= m /\ m = Len(text)
    BY <2>1, NotAbove DEF Long
  <2>4. \A i \in 1 .. m : text[i] \in Mute
    BY <1>4, <2>1, <2>2, <2>3, Mutely
  <2> QED
    BY <1>4, <2>3, <2>4, SeqFrom
<1>6. SaysNothing(config, rem)
  BY <1>1, <1>2, <1>4, <1>5, MarkedSays
<1> QED
  BY <1>1, <1>6, ConcatEmptySeq DEF Kept, SaysNothing

\* The text of a block: the statements, the brace and what is behind it.
LEMMA BraceIs ==
  ASSUME NEW c, c = <<"}">>
  PROVE  c \in Seq(Lexeme) /\ Long(c, 1) /\ Closes(c, 1)
<1>1. "}" \in Lexeme
  BY SignsHere DEF SignsAre
<1> QED
  BY <1>1, OneElement DEF Long, Closes

InBlock(str, t, behind) == Join3(str, t, <<"}">>, behind)

LEMMA BlockParts ==
  ASSUME NEW t \in Seq(Lexeme), NEW n \in Nat, Long(t, n), NEW behind \in Seq(Lexeme), NEW str,
         InBlock(str, t, behind)
  PROVE  \E e \in Nat : \E len \in Nat :
           /\ e = n + 1 /\ e <= len /\ str \in Seq(Lexeme) /\ Long(str, len)
           /\ e = len - Len(behind) /\ Holds(str, 0, t) /\ Closes(str, e) /\ Rest(str, e + 1) = behind
<1>1. PICK c : c = <<"}">>
  OBVIOUS
<1>2. c \in Seq(Lexeme) /\ Long(c, 1) /\ Closes(c, 1)
  BY <1>1, BraceIs
<1>3. PICK l \in Nat : Long(behind, l)
  BY LongIs
<1>4. Join3(str, t, c, behind)
  BY <1>1 DEF InBlock
<1>5. /\ str \in Seq(Lexeme) /\ Long(str, n + 1 + l)
      /\ Holds(str, 0, t) /\ Holds(str, n, c) /\ Rest(str, n + 1 + 1) = behind
  BY <1>2, <1>3, <1>4, Made3Is
<1>6. str[n + 1] = c[1]
  <2>1. 1 \in 1 .. 1
    OBVIOUS
  <2> QED
    BY <1>2, <1>5, <2>1, HeldAt
<1>7. PICK e \in Nat, len \in Nat : e = n + 1 /\ len = n + 1 + l
  BY <1>3
<1>8. e <= len /\ e = len - l /\ l = Len(behind)
  BY <1>3, <1>7 DEF Long
<1>9. Closes(str, e)
  BY <1>2, <1>6, <1>7 DEF Closes
<1> QED
  BY <1>5, <1>7, <1>8, <1>9

\* The brace behind a quiet text is found, when this text goes on the line of an other one.
LEMMA EndsBehind ==
  ASSUME NEW t, Quiet(t), Joined(t), NEW n \in Nat, Long(t, n), n # 0, NEW behind \in Seq(Lexeme), NEW x,
         InBlock(x, t, behind), NEW p \in Seq(Lexeme), NEW k \in Nat, Long(p, k)
  PROVE  Behind(p, x, k) = behind
<1>1. t \in Seq(Lexeme)
  BY DEF Quiet
<1>2. PICK g : g = p \o t
  OBVIOUS
<1>3. g \in Seq(Lexeme) /\ Long(g, k + n) /\ Holds(g, k, t)
  BY <1>1, <1>2, JoinIs
<1>4. PICK str : str = p \o x
  OBVIOUS
<1>5. InBlock(str, g, behind)
  <2>1. PICK c \in Seq(Lexeme) : c = <<"}">>
    BY BraceIs
  <2>2. PICK h \in Seq(Lexeme) : h = c \o behind
    BY <2>1, ConcatProperties
  <2>3. Grouped(p, t, h)
    BY <1>1, GroupedIs
  <2> QED
    BY <1>2, <1>4, <2>1, <2>2, <2>3 DEF InBlock, Join3, Grouped
<1>6. PICK q \in Nat : q = k + n
  OBVIOUS
<1>7. PICK e \in Nat, len \in Nat :
        /\ e = q + 1 /\ e <= len /\ str \in Seq(Lexeme) /\ Long(str, len)
        /\ Holds(str, 0, g) /\ Closes(str, e) /\ Rest(str, e + 1) = behind
  BY <1>3, <1>5, <1>6, BlockParts
<1>8. Holds(str, k, t)
  <2>1. 0 \in Nat /\ k + n <= q /\ Long(g, q) /\ 0 + k = k
    BY <1>3, <1>6
  <2>2. Holds(str, 0 + k, t)
    BY <1>3, <1>6, <1>7, <2>1, HeldIn
  <2> QED
    BY <2>1, <2>2
<1>9. findBlockEnd(str, k + 1) = e
  <2>1. e = k + n + 1 /\ Follows(t, k)
    BY <1>6, <1>7 DEF Follows
  <2> QED
    BY <1>7, <1>8, <2>1, BlockEndIs
<1> QED
  BY <1>4, <1>7, <1>9 DEF Behind

\* The text of a file, or the rest of a line, goes on a line without a brace in a comment.
LEMMA JoinedOpen ==
  ASSUME NEW y \in Seq(Open), NEW x, EndsLine(x, y), NEW z \in Seq(Lexeme)
  PROVE  Joined(x \o z)
<1>0. PICK t : t = x \o z
  OBVIOUS
<1>1. y \in Seq(Lexeme)
  BY SeqOver DEF Open
<1>2. PICK m \in Nat : Long(y, m)
  BY LongIs
<1>3. PICK k \in Nat : /\ k = m + 1 /\ x \in Seq(Lexeme) /\ Long(x, k) /\ x[k] = "nl"
                       /\ \A i \in 1 .. m : x[i] = y[i]
  BY <1>1, <1>2, LineEnds
<1>4. Holds(t, 0, x)
  <2>1. PICK l \in Nat : Long(z, l)
    BY LongIs
  <2> QED
    BY <1>0, <1>3, <2>1, JoinIs
<1>5. ASSUME NEW i \in 1 .. k PROVE t[i] = x[i]
  <2>1. t[0 + i] = x[i]
    BY <1>3, <1>4, HeldAt
  <2> QED
    BY <2>1
<1> SUFFICES ASSUME NEW j \in Nat, Begins(t, 1, j), Closes(t, j) PROVE FALSE
  BY <1>0 DEF Joined
<1>6. 1 <= j /\ Without(t, 1, j, {"nl"})
  BY DEF Begins
<1>7. j \in 1 .. m
  <2>1. CASE k <= j
    <3>1. k \in 1 .. j /\ k \in 1 .. k
      BY <1>2, <1>3, <2>1
    <3>2. t[k] = "nl"
      BY <1>3, <1>5, <3>1
    <3> QED
      BY <1>6, <3>1, <3>2 DEF Without
  <2> QED
    BY <1>3, <1>6, <2>1
<1>8. t[j] = y[j]
  <2>1. j \in 1 .. k
    BY <1>3, <1>7
  <2> QED
    BY <1>3, <1>5, <1>7, <2>1
<1>9. y[j] \in Open
  BY <1>2, <1>7, ElementOfSeq DEF Long
<1> QED
  BY <1>8, <1>9 DEF Closes, Open

LEMMA FirstOfSeq ==
  ASSUME NEW S, NEW l \in Seq(S), l # <<>>
  PROVE  l[1] \in S /\ Tail(l) \in Seq(S) /\ l = <<l[1]>> \o Tail(l)
OBVIOUS

LEMMA JoinedText ==
  ASSUME NEW l \in Seq(Items), l # <<>>, l[1] \in Lines \union {Blank}, ~Braced(l[1])
  PROVE  Joined(TextOf(l))
<1>1. PICK s \in Lines \union {Blank} : s = l[1] /\ ~Braced(s)
  OBVIOUS
<1>2. PICK a \in Seq(Items), r \in Seq(Items) : a = <<s>> /\ r = Tail(l) /\ l = a \o r
  <2>1. l[1] \in Items /\ Tail(l) \in Seq(Items) /\ l = <<l[1]>> \o Tail(l)
    BY FirstOfSeq
  <2>2. s \in Items
    BY <1>1, <2>1
  <2>3. <<s>> \in Seq(Items)
    BY <2>2, OneElement
  <2> QED
    BY <1>1, <2>1, <2>3
<1>3. PICK y \in Seq(Open) : EndsLine(TextOf(a), y)
  BY <1>1, <1>2, OpenItem
<1>4. TextOf(l) = TextOf(a) \o TextOf(r) /\ TextOf(r) \in Seq(Lexeme)
  <2>1. MapsParts(TextG, a, r) /\ Mapped(TextG, r) \in Seq(Lexeme)
    BY TextTyped, MappedJoin
  <2> QED
    BY <1>2, <2>1 DEF MapsParts, TextOf
<1> QED
  BY <1>3, <1>4, JoinedOpen

LEMMA ReadyInBlock ==
  ASSUME NEW l \in Seq(Items), NEW behind \in Seq(Lexeme), NEW str, Ready(str, l, Closing(behind))
  PROVE  /\ Closing(behind) \in Seq(Lexeme) /\ TextOf(l) \in Seq(Lexeme)
         /\ InBlock(str, TextOf(l), behind)
<1>1. PICK c \in Seq(Lexeme) : c = <<"}">>
  BY BraceIs
<1>2. c \o behind \in Seq(Lexeme)
  BY ConcatProperties
<1>3. TextOf(l) \in Seq(Lexeme)
  BY TextTyped, MappedJoin DEF TextOf
<1> QED
  BY <1>1, <1>2, <1>3 DEF Closing, Ready, InBlock, Join3

LEMMA NotSpace ==
  ASSUME NEW r \in Seq(Items), NEW behind \in Seq(Lexeme), NEW v, Ready(v, r, Closing(behind))
  PROVE  v \notin Seq(Space)
<1> SUFFICES ASSUME v \in Seq(Space) PROVE FALSE
  OBVIOUS
<1>1. PICK t \in Seq(Lexeme) : t = TextOf(r) /\ InBlock(v, t, behind)
  BY ReadyInBlock
<1>2. PICK n \in Nat : Long(t, n)
  BY LongIs
<1>3. PICK e \in Nat, len \in Nat : e = n + 1 /\ e <= len /\ Long(v, len) /\ Closes(v, e)
  BY <1>1, <1>2, BlockParts
<1>4. e \in 1 .. len /\ len = Len(v)
  BY <1>2, <1>3 DEF Long
<1>5. v[e] \in Space
  BY <1>4, ElementOfSeq
<1> QED
  BY <1>3, <1>5 DEF Closes, Space

\* A block without the sign that ends a parameter: the turn is over, and nothing is said.
LEMMA MuteBlock ==
  ASSUME NEW str, NEW t \in Seq(Mute), NEW behind \in Seq(Lexeme), InBlock(str, t, behind)
  PROVE  ~(FirstOf(str, {";"}, 1) < Len(str) - Len(behind))
<1>1. t \in Seq(Lexeme)
  BY SeqOver DEF Mute
<1>2. PICK n \in Nat : Long(t, n)
  BY LongIs
<1>3. PICK e \in Nat, len \in Nat :
        /\ e = n + 1 /\ e <= len /\ str \in Seq(Lexeme) /\ Long(str, len)
        /\ e = len - Len(behind) /\ Holds(str, 0, t) /\ Closes(str, e)
  BY <1>1, <1>2, BlockParts
<1>4. ASSUME NEW i \in 1 .. e PROVE str[i] \notin {";"}
  <2>1. CASE i = e
    BY <1>3, <2>1 DEF Closes
  <2>2. CASE i # e
    <3>1. i \in 1 .. n
      BY <1>2, <1>3, <2>2
    <3>2. str[0 + i] = t[i] /\ 0 + i = i
      BY <1>2, <1>3, <3>1, HeldAt
    <3>3. t[i] \in Mute
      BY <1>2, <3>1, ElementOfSeq DEF Long
    <3> QED
      BY <3>2, <3>3 DEF Mute
  <2> QED
    BY <2>1, <2>2
<1>5. Without(str, 1, e, {";"})
  BY <1>4 DEF Without
<1>6. FirstOf(str, {";"}, 1) \in Nat /\ e < FirstOf(str, {";"}, 1)
  <2>1. e <= Len(str) /\ 1 <= e + 1 /\ 1 \in Nat \ {0}
    BY <1>2, <1>3 DEF Long
  <2> QED
    BY <1>3, <1>5, <2>1, FirstBehind
<1>7. Len(str) - Len(behind) = e
  BY <1>3 DEF Long
<1> QED
  BY <1>3, <1>6, <1>7, NotBoth

BlockOver(str, behind) == FirstOf(str, {";"}, 1) >= Len(str) - Len(behind)

LEMMA OverIsMute ==
  ASSUME NEW str, NEW t \in Seq(Lexeme), NEW behind \in Seq(Lexeme), InBlock(str, t, behind),
         BlockOver(str, behind)
  PROVE  t \in Seq(Mute)
<1>2. PICK n \in Nat : Long(t, n)
  BY LongIs
<1>3. PICK e \in Nat, len \in Nat :
        /\ e = n + 1 /\ e <= len /\ str \in Seq(Lexeme) /\ Long(str, len)
        /\ e = len - Len(behind) /\ Holds(str, 0, t) /\ Closes(str, e) /\ Rest(str, e + 1) = behind
  BY <1>2, BlockParts
<1>4. FirstOf(str, {";"}, 1) \in Nat
  BY <1>3, FirstUpper DEF Long
<1>5. PICK q \in Nat : q = FirstOf(str, {";"}, 1)
  BY <1>4
<1>6. Len(str) - Len(behind) = e
  BY <1>3 DEF Long
<1>7. q >= e
  BY <1>5, <1>6 DEF BlockOver
<1>8. ~(q <= n) /\ n <= len
  <2>1. n \in Nat /\ e \in Nat /\ len \in Nat /\ e = n + 1 /\ e <= len /\ q \in Nat /\ q >= e
    BY <1>2, <1>3, <1>5, <1>7
  <2> QED
    BY <2>1
<1>9. \A i \in 1 .. n : str[i] \in Mute
  BY <1>2, <1>3, <1>5, <1>8, Mutely
<1>10. ASSUME NEW i \in 1 .. n PROVE t[i] \in Mute
  <2>1. str[0 + i] = t[i] /\ 0 + i = i
    BY <1>2, <1>3, HeldAt
  <2> QED
    BY <1>9, <2>1
<1>11. n = Len(t)
  BY <1>2 DEF Long
<1> QED
  BY <1>10, <1>11, SeqFrom

LEMMA NotEmptyText ==
  ASSUME NEW m \in Seq(Items), NEW rest \in Seq(Items), NEW r, r = <<Blank>> \o rest, r \in Seq(Items)
  PROVE  \E n \in Nat : Long(TextOf(m \o r), n) /\ n # 0
<1>1. PICK M \in Seq(Lexeme), R \in Seq(Lexeme), L \in Seq(Lexeme) :
        M = TextOf(m) /\ R = TextOf(r) /\ L = TextOf(rest)
  BY TextTyped, MappedJoin DEF TextOf
<1>2. TextOf(m \o r) = M \o R
  <2>1. MapsParts(TextG, m, r)
    BY TextTyped, MappedJoin
  <2> QED
    BY <1>1, <2>1 DEF MapsParts, TextOf
<1>3. PICK c \in Seq(Lexeme) : c = <<"nl">> /\ Long(c, 1)
  <2>1. "nl" \in Lexeme
    BY SignsHere DEF SignsAre
  <2> QED
    BY <2>1, OneElement DEF Long
<1>4. R = c \o L
  <2>1. <<>> \in Seq(Lexeme) /\ Ready(L, rest, <<>>)
    BY <1>1, EmptySeq, ConcatEmptySeq DEF Ready
  <2> QED
    BY <1>1, <1>3, <2>1, BlankAhead
<1>5. PICK k \in Nat, j \in Nat : Long(M, k) /\ Long(L, j)
  BY LongIs
<1>6. Long(R, 1 + j)
  BY <1>3, <1>4, <1>5, JoinIs
<1>7. PICK i \in Nat : i = 1 + j
  BY <1>5
<1>8. Long(M \o R, k + i)
  BY <1>5, <1>6, <1>7, JoinIs
<1>9. k + i \in Nat /\ k + i # 0
  BY <1>5, <1>7
<1> QED
  BY <1>2, <1>8, <1>9

\* What is put in the place of an include in a block begins with a line without a brace.
LEMMA SplicedFirst ==
  ASSUME config \in Configs, NEW s \in Allowed(config), NEW m \in Seq(Items), m = Included(config, s),
         NEW rest \in Seq(Items), NEW f, f = m \o (<<Blank>> \o rest)
  PROVE  f # <<>> /\ f[1] \in Lines \union {Blank} /\ ~Braced(f[1])
<1>1. ~Braced(Blank) /\ Blank \in Items
  BY DEF Braced, Blank, Items
<1>2. PICK b \in Seq(Items) : b = <<Blank>> /\ Len(b) = 1 /\ b[1] = Blank
  BY <1>1, OneElement
<1>3. PICK r \in Seq(Items) : r = b \o rest
  BY ConcatProperties
<1>3a. r[1] = Blank /\ Len(r) \in Nat \ {0} /\ f = m \o r
  <2>1. /\ Len(r) = 1 + Len(rest) /\ Len(rest) \in Nat
        /\ \A i \in 1 .. 1 + Len(rest) : r[i] = IF i <= 1 THEN b[i] ELSE rest[i - 1]
    BY <1>2, <1>3, ConcatProperties, LenProperties
  <2>2. 1 \in 1 .. 1 + Len(rest)
    BY <2>1
  <2> QED
    BY <1>2, <1>3, <2>1, <2>2
<1>4. /\ Len(f) = Len(m) + Len(r) /\ Len(m) \in Nat
      /\ \A i \in 1 .. Len(m) + Len(r) : f[i] = IF i <= Len(m) THEN m[i] ELSE r[i - Len(m)]
  <2>1. /\ Len(m \o r) = Len(m) + Len(r) /\ Len(m) \in Nat
        /\ \A i \in 1 .. Len(m) + Len(r) : (m \o r)[i] = IF i <= Len(m) THEN m[i] ELSE r[i - Len(m)]
    BY ConcatProperties, LenProperties
  <2> QED
    BY <1>3a, <2>1
<1>5. f # <<>>
  BY <1>3a, <1>4, EmptySeq
<1>6. CASE m = <<>>
  BY <1>1, <1>3a, <1>4, <1>5, <1>6
<1>7. CASE m # <<>>
  <2>1. f[1] = m[1] /\ 1 \in DOMAIN m
    BY <1>3a, <1>4, <1>7, LenProperties, EmptySeq
  <2>2. m[1] \in Parameters \union Comments /\ ~Braced(m[1])
    BY <1>7, <2>1 DEF Allowed, Inner
  <2> QED
    BY <1>5, <2>1, <2>2 DEF Lines
<1> QED
  BY <1>6, <1>7

LEMMA ServerParamStep ==
  ASSUME config \in Configs, Readable(config),
         ServerLeft(config, text, after, applications, app, global), ServerParam
  PROVE  ServerLeft(config, text', after', applications, app', global)
<1> DEFINE A == Allowed(config)
           G == Good(config)
<1>1. PICK brem \in Seq(A), rem \in Seq(G), gl \in Seq(Entries) :
        /\ applications \in Seq(Seq(Entries)) /\ app \in Seq(Entries)
        /\ Ready(after, rem, <<>>) /\ Ready(text, brem, Closing(after))
        /\ KeptIn(config, gl, applications, app, brem, rem) /\ FirstValues(global, gl)
  BY DEF ServerLeft
<1>2. \A s \in A : s \in Items /\ s \in Marked /\ s \in Hidden
  BY GoodMarked
<1>3. brem \in Seq(Items) /\ rem \in Seq(Items)
  BY <1>1, <1>2, GoodMarked, SeqOver
<1>4. after \in Seq(Lexeme) /\ Closing(after) \in Seq(Lexeme) /\ InBlock(text, TextOf(brem), after)
  <2>1. after \in Seq(Lexeme)
    BY <1>1, <1>3, ReadyLast
  <2> QED
    BY <1>1, <1>3, <2>1, ReadyInBlock
<1>4a. text \in Seq(Lexeme)
  BY <1>1, <1>3, <1>4, ReadyIs
<1>5. brem \notin Seq({Blank})
  <2>1. FirstOf(text, {";"}, 1) < Len(text) - Len(after)
    BY ServerParamOthers
  <2> QED
    BY <1>4, <2>1, BlankMute, MuteBlock
<1>6. PICK b, s, rest : LeadsBy(A, config, brem, b, s, rest)
  <2>1. Blank \in A
    BY BlankGood
  <2> QED
    BY <1>2, <1>1, <1>5, <2>1, LeftFirst
<1>7. PICK r : r = <<Blank>> \o rest
  OBVIOUS
<1>8. /\ s \in A \ {Blank} /\ rest \in Seq(A) /\ Leads(brem, b, s, rest) /\ rest \in Seq(Items)
      /\ r \in Seq(A) /\ r \in Seq(Items) /\ Says(config, brem, <<s>>, r) /\ Says(config, brem, <<s>>, rest)
  BY <1>6, <1>7 DEF LeadsBy
<1> HIDE DEF A, G
<1>9. CASE s \in Parameters
  <2>1. PICK v \in Seq(Lexeme) : Ready(v, r, Closing(after)) /\ ReadsParam(text, s.name, s.value, v)
    BY <1>1, <1>4, <1>7, <1>8, <1>9, ParamFirst
  <2>2. s.name \in Words /\ s.name # "include"
    BY <1>9 DEF Parameters
  <2>3. text' = v /\ after' = after /\ app' = Append(app, Entry(s))
    BY <1>4a, <2>1, <2>2, ServerParamReads DEF Entry
  <2>4. KeptIn(config, gl, applications, Append(app, Entry(s)), r, rem) /\ Append(app, Entry(s)) \in Seq(Entries)
    BY <1>1, <1>8, <1>9, InParam
  <2> QED
    BY <1>1, <1>8, <2>1, <2>3, <2>4, ServerLeftMade DEF A, G
<1>10. CASE s \in Comments
  <2>1. PICK u \in Seq(Lexeme) : Ready(u, rest, Closing(after)) /\ ReadsComment(text, u)
    BY <1>1, <1>4, <1>8, <1>10, CommentFirst
  <2>2. text' = u /\ after' = after /\ app' = app
    BY <2>1, ServerParamComment
  <2>3. KeptIn(config, gl, applications, app, rest, rem)
    BY <1>1, <1>8, <1>10, CommentAlike, KeptAlike
  <2> QED
    BY <1>1, <1>8, <2>1, <2>2, <2>3, ServerLeftMade DEF A, G
<1>11. CASE s \in Includes
  <2>1. PICK v \in Seq(Lexeme) : Ready(v, r, Closing(after)) /\ ReadsParam(text, "include", <<s.file>>, v)
    BY <1>1, <1>4, <1>7, <1>8, <1>11, IncludeFirst
  <2>2. /\ text' = includeConfigFile(s.file, v) /\ app' = app
        /\ \E p \in Seq(Lexeme) : \E k \in Nat : Long(p, k) /\ after' = Behind(p, text', k)
    <3>1. "include" \in Words /\ <<s.file>>[1] = s.file
      BY ConfigsAssumption
    <3> QED
      BY <1>4a, <2>1, <3>1, ServerParamReads
  <2>3. PICK m : m = Included(config, s)
    OBVIOUS
  <2>4. m \in Seq(A) /\ Plain(config, s) /\ m \in Seq(Items)
    BY <1>2, <1>8, <2>3, AllowedIncluded, IncludedTyped DEF A
  <2>5. m \o r \in Seq(Items) /\ SaysAlike(config, brem, m \o r)
    BY <1>8, <1>11, <2>3, <2>4, IncludeAlike
  <2>6. Ready(text', m \o r, Closing(after))
    <3>1. v \notin Seq(Space)
      BY <1>4, <1>8, <2>1, NotSpace
    <3> QED
      BY <1>4, <1>8, <1>11, <2>1, <2>2, <2>3, <2>4, <3>1, IncludeTurn
  <2>7. PICK t : t = TextOf(m \o r)
    OBVIOUS
  <2>8. m \o r \in Seq(A) /\ Quiet(t)
    <3>1. m \o r \in Seq(A)
      BY <1>8, <2>4, ConcatProperties
    <3>2. m \o r \in Seq(Hidden)
      BY <1>2, <3>1, SeqOver
    <3> QED
      BY <2>7, <3>1, <3>2, QuietText
  <2>9. after' = after
    <3>1. PICK n \in Nat : Long(t, n) /\ n # 0
      BY <1>7, <1>8, <2>4, <2>7, NotEmptyText
    <3>2. InBlock(text', t, after)
      BY <1>4, <2>5, <2>6, <2>7, ReadyInBlock
    <3>3. Joined(t)
      <4>1. PICK f : f = m \o r
        OBVIOUS
      <4>2. /\ f \in Seq(Items) /\ f # <<>>
            /\ f[1] \in Lines \union {Blank} /\ ~Braced(f[1])
        BY <1>7, <1>8, <2>3, <2>4, <2>5, <4>1, SplicedFirst DEF A
      <4> QED
        BY <2>7, <4>1, <4>2, JoinedText
    <3> QED
      BY <1>4, <2>2, <2>8, <3>1, <3>2, <3>3, EndsBehind
  <2>10. KeptIn(config, gl, applications, app, m \o r, rem)
    BY <1>1, <2>5, KeptAlike
  <2> QED
    BY <1>1, <2>2, <2>6, <2>8, <2>9, <2>10, ServerLeftMade DEF A, G
<1> QED
  <2>1. s \in Lines
    BY <1>8 DEF A, Allowed
  <2> QED
    BY <1>9, <1>10, <1>11, <2>1 DEF Lines

LEMMA ServerEndStep ==
  ASSUME config \in Configs, ServerLeft(config, text, after, applications, app, global), BlockOver(text, after)
  PROVE  LoadLeft(config, after, Append(applications, app), global)
<1>1. PICK brem \in Seq(Allowed(config)), rem \in Seq(Good(config)), gl \in Seq(Entries) :
        /\ applications \in Seq(Seq(Entries)) /\ app \in Seq(Entries)
        /\ Ready(after, rem, <<>>) /\ Ready(text, brem, Closing(after))
        /\ KeptIn(config, gl, applications, app, brem, rem) /\ FirstValues(global, gl)
  BY DEF ServerLeft
<1>2. \A s \in Allowed(config) : s \in Items /\ s \in Marked
  BY GoodMarked
<1>3. brem \in Seq(Items) /\ rem \in Seq(Items)
  BY <1>1, <1>2, GoodMarked, SeqOver
<1>4. after \in Seq(Lexeme) /\ TextOf(brem) \in Seq(Lexeme) /\ InBlock(text, TextOf(brem), after)
  <2>1. after \in Seq(Lexeme)
    BY <1>1, <1>3, ReadyLast
  <2> QED
    BY <1>1, <1>3, <2>1, ReadyInBlock
<1>5. TextOf(brem) \in Seq(Mute)
  BY <1>4, OverIsMute
<1>6. SaysNothing(config, brem)
  BY <1>1, <1>2, <1>5, MarkedSays
<1>7. Kept(config, gl, Append(applications, app), rem)
  BY <1>1, <1>6, KeptEnd
<1>8. Append(applications, app) \in Seq(Seq(Entries))
  BY <1>1, AppendProperties
<1> QED
  BY <1>1, <1>7, <1>8, LoadLeftMade

-----------------------------------------------------------------------------
(* The invariant                                                            *)

Unread == pc \in {"init", "cleared"} => global = NoParameters
Read   == applications = Servers(config) /\ FirstValues(global, Globals(config))
TextInv ==
  /\ config \in Configs /\ Unread
  /\ Readable(config) =>
       /\ pc = "load"   => LoadLeft(config, text, applications, global)
       /\ pc = "server" => ServerLeft(config, text, after, applications, app, global)
       /\ pc = "mimes"  => Read

LEMMA ReadIsKept == (pc = "mimes" /\ Readable(config) => Read) => TextIsKept
BY DEF Read, FirstValues, TextIsKept

LEMMA TextInit == Init => TextInv
BY DEF Init, TextInv, Unread

LEMMA BeginsToLoad ==
  ASSUME NEW conf \in Configs, Readable(conf)
  PROVE  LoadLeft(conf, FileText(conf, "main.conf"), <<>>, NoParameters)
<1>1. "main.conf" \in DOMAIN conf.files
  BY ConfigsAssumption
<1>2. PICK rem \in Seq(Good(conf)) : rem = conf.files["main.conf"]
  BY <1>1, GoodFiles
<1>3. PICK str : str = FileText(conf, "main.conf")
  OBVIOUS
<1>4. str = TextOf(rem)
  BY <1>1, <1>2, <1>3, FileTextIs
<1>5. rem \in Seq(Items)
  BY <1>1, <1>2, FilesTyped
<1>6. Told(conf, rem) = Globals(conf) /\ Hosted(conf, rem) = Servers(conf)
  BY <1>2 DEF Told, Hosted, Globals, Servers
<1>7. Speaks(conf, rem) /\ TextOf(rem) \in Seq(Lexeme)
  BY <1>5, SaysTyped, TextTyped, MappedJoin DEF TextOf
<1>8. Ready(str, rem, <<>>)
  BY <1>4, <1>7, ConcatEmptySeq DEF Ready
<1>9. Kept(conf, <<>>, <<>>, rem)
  BY <1>6, <1>7, ConcatEmptySeq DEF Kept, Speaks
<1>10. <<>> \in Seq(Entries) /\ <<>> \in Seq(Seq(Entries))
  BY EmptySeq
<1> QED
  BY <1>3, <1>8, <1>9, <1>10, FirstValuesNone, LoadLeftMade

\* The turns that read nothing of the text.
LEMMA TextUnmoved ==
  ASSUME TextInv, [Next]_vars, ~LoadConfig, ~LoadParam, ~LoadBlock, ~ServerParam, ~ServerEnd, ~LoadEnd
  PROVE  TextInv'
<1>1. \/ /\ UNCHANGED <<pc, config, text, after, applications, app, global>>
      \/ /\ pc' \notin {"init", "cleared", "load", "server"} /\ config' = config
         /\ pc' # "mimes"
      \/ /\ pc' = "mimes" /\ pc = "mimes" /\ UNCHANGED <<config, applications, global>>
      \/ pc' \in {"cleared", "ended"} /\ global' = NoParameters /\ config' = config
      \/ pc = "cleared" /\ pc' = "init" /\ global' = global /\ config' = config
  <2>1. CASE UNCHANGED vars
    BY <2>1 DEF vars, parsed, known
  <2>2. CASE ParseMimes
    BY <2>2 DEF ParseMimes, parsed
  <2>3. CASE ParseMimesEnd
    BY <2>3 DEF ParseMimesEnd
  <2>4. CASE AddApplication
    BY <2>4 DEF AddApplication
  <2>5. CASE AddApplicationsEnd
    BY <2>5 DEF AddApplicationsEnd
  <2>6. CASE InitAppPorts
    BY <2>6 DEF InitAppPorts, parsed, known
  <2>7. CASE Start
    BY <2>7 DEF Start
  <2>8. CASE Clear
    BY <2>8 DEF Clear
  <2>9. CASE Restart
    BY <2>9 DEF Restart, known
  <2>10. CASE Stopped
    BY <2>1, <2>10 DEF Stopped
  <2> QED
    BY <2>1, <2>2, <2>3, <2>4, <2>5, <2>6, <2>7, <2>8, <2>9, <2>10 DEF Next, Server
<1>2. CASE UNCHANGED <<pc, config, text, after, applications, app, global>>
  BY <1>2 DEF TextInv, Unread, Read
<1>3. CASE pc' \notin {"init", "cleared", "load", "server", "mimes"} /\ config' = config
  BY <1>3 DEF TextInv, Unread
<1>4. CASE pc' = "mimes" /\ pc = "mimes" /\ UNCHANGED <<config, applications, global>>
  <2>1. pc' = "mimes" /\ config' \in Configs /\ (Readable(config') => Read')
    BY <1>4 DEF TextInv, Read
  <2> QED
    BY <2>1 DEF TextInv, Unread
<1>5. CASE pc' \in {"cleared", "ended"} /\ global' = NoParameters /\ config' = config
  BY <1>5 DEF TextInv, Unread
<1>6. CASE pc = "cleared" /\ pc' = "init" /\ global' = global /\ config' = config
  BY <1>6 DEF TextInv, Unread
<1> QED
  BY <1>1, <1>2, <1>3, <1>4, <1>5, <1>6

LEMMA TextStep == TextInv /\ [Next]_vars => TextInv'
<1> SUFFICES ASSUME TextInv, [Next]_vars PROVE TextInv'
  OBVIOUS
<1>1. CASE LoadConfig
  <2>1. config' \in Configs /\ global' = NoParameters
    BY <1>1 DEF LoadConfig, TextInv, Unread, known
  <2>2. CASE pc' = "ended"
    BY <2>1, <2>2 DEF TextInv, Unread
  <2>3. CASE pc' # "ended"
    <3>1. pc' = "load" /\ text' = FileText(config', "main.conf") /\ applications' = <<>>
      BY <1>1, <2>3 DEF LoadConfig
    <3>2. Readable(config') => LoadLeft(config', text', applications', global')
      BY <2>1, <3>1, BeginsToLoad
    <3> QED
      BY <2>1, <3>1, <3>2 DEF TextInv, Unread
  <2> QED
    BY <2>2, <2>3
<1>2. CASE LoadParam
  <2>1. pc = "load" /\ UNCHANGED <<pc, config, applications>>
    BY <1>2, LoadParamOthers
  <2>2. Readable(config) => LoadLeft(config, text', applications, global')
    BY <1>2, <2>1, LoadParamStep DEF TextInv
  <2> QED
    BY <2>1, <2>2 DEF TextInv, Unread
<1>3. CASE LoadBlock
  <2>1. pc = "load" /\ UNCHANGED <<config, applications, global>> /\ pc' \in {"load", "ended", "server"}
    BY <1>3 DEF LoadBlock, known
  <2>2. Readable(config) =>
          \/ pc' = "load" /\ LoadLeft(config, text', applications, global)
          \/ pc' = "server" /\ ServerLeft(config, text', after', applications, app', global)
    BY <1>3, <2>1, LoadBlockStep DEF TextInv
  <2> QED
    BY <2>1, <2>2 DEF TextInv, Unread
<1>4. CASE ServerParam
  <2>1. pc = "server" /\ UNCHANGED <<pc, config, applications, global>>
    BY <1>4, ServerParamOthers
  <2>2. Readable(config) => ServerLeft(config, text', after', applications, app', global)
    BY <1>4, <2>1, ServerParamStep DEF TextInv
  <2> QED
    BY <2>1, <2>2 DEF TextInv, Unread
<1>5. CASE ServerEnd
  <2>1. /\ pc = "server" /\ pc' = "load" /\ text' = after /\ applications' = Append(applications, app)
        /\ UNCHANGED <<config, global>> /\ BlockOver(text, after)
    BY <1>5 DEF ServerEnd, known, BlockOver
  <2>2. Readable(config) => LoadLeft(config, after, Append(applications, app), global)
    BY <2>1, ServerEndStep DEF TextInv
  <2> QED
    BY <2>1, <2>2 DEF TextInv, Unread
<1>6. CASE LoadEnd
  <2>1. /\ pc = "load" /\ pc' = "mimes" /\ UNCHANGED <<config, applications, global>>
        /\ FirstOf(text, {";"}, 1) = Npos(text)
    BY <1>6 DEF LoadEnd
  <2>2. Readable(config) => Read
    BY <2>1, LoadEndStep DEF TextInv, Read
  <2>3. config' \in Configs /\ (Readable(config') => Read')
    BY <2>1, <2>2 DEF TextInv, Read
  <2> QED
    BY <2>1, <2>3 DEF TextInv, Unread
<1> QED
  BY <1>1, <1>2, <1>3, <1>4, <1>5, <1>6, TextUnmoved

\* Startup.ConfigurationIsKept: for every configuration in which the statements can be told
\* apart, whatever its files hold and include, what the parser keeps is what they say -- every
\* block with all its parameters, of the global ones the first value -- and every application
\* is found under its names.
THEOREM ConfigurationKept == Spec => []ConfigurationIsKept
<1>1. TextInv => TextIsKept
  <2>1. TextInv => (pc = "mimes" /\ Readable(config) => Read)
    BY DEF TextInv
  <2> QED
    BY <2>1, ReadIsKept
<1>2. Spec => []TextInv
  BY TextInit, TextStep, PTL DEF Spec
<1>3. Spec => []HostsAreFound
  BY HostsFound
<1>4. TextIsKept /\ HostsAreFound => ConfigurationIsKept
  BY DEF ConfigurationIsKept
<1> QED
  BY <1>1, <1>2, <1>3, <1>4, PTL
=============================================================================
