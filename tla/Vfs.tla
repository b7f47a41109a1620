-------------------------------- MODULE Vfs ---------------------------------
(***************************************************************************)
(* The virtual file system (fs/vfs/vfs.cpp): file handles on a tree of     *)
(* nodes whose children a provider (the initramfs) appends on demand, into *)
(* a vector that moves them when it grows (vector.h).  Clients are threads *)
(* with one handle each.  An operation on a handle is one step, under the  *)
(* node's lock; opening a path is a walk of many.                          *)
(***************************************************************************)
EXTENDS Initramfs

CONSTANTS Clients,
          Tars,               \* the archives
          Paths,              \* the paths opened: sequences of names
          MINIMUM_VECTOR_SIZE,
          ReadSize,           \* the length of a client's buffer
          MaxNodes            \* bound: nodes in memory at a time

ASSUME VfsAssumption ==
  /\ {MINIMUM_VECTOR_SIZE, ReadSize} \subseteq Nat \ {0} /\ MaxNodes \in Nat
  /\ \A tar \in Tars : Len(Entries(tar)) > 0 /\ Entries(tar)[1].type = "DIRECTORY"

Root == 0
Addresses == 0 .. MaxNodes - 1
Null == MaxNodes

VARIABLES
  entries,  \* the initramfs' entries
  nodes,    \* the FileNodes: address -> node, for the addresses in use
  pc,       \* what the client is doing
  current,  \* FileHandle(path): the node of the handle `current`
  path,     \* FileHandle(path): the components still to go
  index,    \* FileHandle(path): nextIndex
  handle,   \* the client's handle
  wanted,   \* history: the path opened
  moved     \* history: a vector has moved a node that somebody held

vars == <<entries, nodes, pc, current, path, index, handle, wanted, moved>>
walk == <<current, path, index, wanted>>

\* A FileNode.  Its provider is the initramfs, or null before the mount.
Node(name, type, entry) ==
  [name |-> name, type |-> type, openCount |-> 0, children |-> <<>>, capacity |-> 0,
   entry |-> entry, populated |-> FALSE, provider |-> TRUE]

\* offset is where the client reads next.
EmptyHandle == [node |-> Null, writable |-> FALSE, error |-> "CLOSED", offset |-> 0]

Live == DOMAIN nodes
\* Where the clients' handles, and the handles in their walks, point.
Held == ({current[p] : p \in Clients} \cup {handle[p].node : p \in Clients}) \ {Null}

Init ==
  /\ \E tar \in Tars : entries = Entries(tar)
  /\ nodes = (Root :> [Node(<<>>, "DIRECTORY", 0) EXCEPT !.provider = FALSE])
  /\ pc = [p \in Clients |-> "idle"]
  /\ current = [p \in Clients |-> Null]
  /\ path = [p \in Clients |-> <<>>]
  /\ index = [p \in Clients |-> 0]
  /\ handle = [p \in Clients |-> EmptyHandle]
  /\ wanted = [p \in Clients |-> <<>>]
  /\ moved = FALSE
-----------------------------------------------------------------------------
(* Vector<FileNode> and populateDirectory() *)

\* An address for new data: memory that a handle still points to is not
\* given out again, so that using it can be told.
Fresh(ns) == CHOOSE a \in Addresses \ (DOMAIN ns \cup Held) : TRUE

\* resize(): move(newData, data, size), delete[] data
Resize(ns, dir, capacity) ==
  LET old == ns[dir].children
      step(acc, a) == LET b == Fresh(acc) IN
        [x \in (DOMAIN acc \cup {b}) \ {a} |->
           IF x = b THEN acc[a]
           ELSE IF x = dir THEN [acc[x] EXCEPT !.children =
                                   [k \in DOMAIN @ |-> IF @[k] = a THEN b ELSE @[k]]]
           ELSE acc[x]]
  IN  [FoldLeft(step, ns, old) EXCEPT ![dir].capacity = capacity]

\* push_back(child)
PushBack(ns, dir, child) ==
  LET full == Len(ns[dir].children) >= ns[dir].capacity
      room == IF full THEN Resize(ns, dir, IF ns[dir].capacity < MINIMUM_VECTOR_SIZE
                                           THEN MINIMUM_VECTOR_SIZE
                                           ELSE ns[dir].capacity * 2)
                      ELSE ns
      a == Fresh(room)
  IN  (a :> child) @@ [room EXCEPT ![dir].children = Append(@, a)]

\* The node made for entry k below directory entry e.
Child(k, e) == Node(BaseName(entries[k].name, entries[e].name), entries[k].type, k)

\* `if (!node->populated) populateDirectory(*node)`; nothing sets populated.
Populate(dir) ==
  IF nodes[dir].populated THEN nodes
  ELSE LET e == nodes[dir].entry
       IN  FoldLeft(LAMBDA ns, k : PushBack(ns, dir, Child(k, e)),
                    nodes, PopulateDirectory(entries, e))

\* The bound leaves room for the children and for a vector that moves.
Room(dir) ==
  Cardinality(Live \cup Held) + Len(nodes[dir].children)
    + 2 * Len(PopulateDirectory(entries, nodes[dir].entry)) <= MaxNodes

\* One operation's populateDirectory(), and whether it moves somebody's node.
PopulateStep(dir, ns) ==
  /\ Room(dir)
  /\ moved' = (moved \/ Held \ DOMAIN ns # Held \ Live)
-----------------------------------------------------------------------------
(* FileHandle(path, writable) *)

\* FileHandle current(&root, false).  Only "/" can be opened before the mount.
StartOpen(p, q, writable) ==
  /\ pc[p] = "idle"
  /\ q # <<>> => nodes[Root].provider
  /\ pc' = [pc EXCEPT ![p] = "find"]
  /\ current' = [current EXCEPT ![p] = Root]
  /\ nodes' = [nodes EXCEPT ![Root].openCount = @ + 1]
  /\ path' = [path EXCEPT ![p] = q]
  /\ wanted' = [wanted EXCEPT ![p] = q]
  /\ handle' = [handle EXCEPT ![p] = [EmptyHandle EXCEPT !.writable = writable]]
  /\ UNCHANGED <<entries, index, moved>>

\* The children with the name: findChild() returns the first one.
Matches(ns, dir, name) ==
  {k \in 1 .. Len(ns[dir].children) : ns[ns[dir].children[k]].name = name}

\* Mutant: the directory is not closed when a component is missing.
FindChildKeepsOpen(p) ==
  LET dir == current[p]
      ns == IF nodes[dir].type = "DIRECTORY" THEN Populate(dir) ELSE nodes
      found == Matches(ns, dir, Head(path[p]))
  IN
  /\ pc[p] = "find" /\ path[p] # <<>> /\ dir \in Live
  /\ PopulateStep(dir, ns)
  /\ \/ /\ nodes[dir].type = "DIRECTORY" /\ found # {}
        /\ nodes' = ns
        /\ index' = [index EXCEPT ![p] = CHOOSE k \in found : \A j \in found : k <= j]
        /\ pc' = [pc EXCEPT ![p] = "open"]
        /\ UNCHANGED <<current, handle>>
     \/ /\ nodes[dir].type # "DIRECTORY" \/ found = {}
        /\ nodes' = ns
        /\ current' = [current EXCEPT ![p] = Null]
        /\ handle' = [handle EXCEPT ![p].error = "NOT_FOUND"]
        /\ pc' = [pc EXCEPT ![p] = "failed"]
        /\ UNCHANGED index
  /\ UNCHANGED <<entries, path, wanted>>

\* current.findChild(component); if there is none, current.close() and the
\* handle is left closed with NOT_FOUND.
FindChild(p) ==
  LET dir == current[p]
      ns == IF nodes[dir].type = "DIRECTORY" THEN Populate(dir) ELSE nodes
      found == Matches(ns, dir, Head(path[p]))
  IN
  /\ pc[p] = "find" /\ path[p] # <<>> /\ dir \in Live
  /\ PopulateStep(dir, ns)
  /\ \/ /\ nodes[dir].type = "DIRECTORY" /\ found # {}
        /\ nodes' = ns
        /\ index' = [index EXCEPT ![p] = CHOOSE k \in found : \A j \in found : k <= j]
        /\ pc' = [pc EXCEPT ![p] = "open"]
        /\ UNCHANGED <<current, handle>>
     \/ /\ nodes[dir].type # "DIRECTORY" \/ found = {}
        /\ nodes' = [ns EXCEPT ![dir].openCount = @ - 1]
        /\ current' = [current EXCEPT ![p] = Null]
        /\ handle' = [handle EXCEPT ![p].error = "NOT_FOUND"]
        /\ pc' = [pc EXCEPT ![p] = "failed"]
        /\ UNCHANGED index
  /\ UNCHANGED <<entries, path, wanted>>

\* Mutant: openChild() counts from 1.
OpenChildNext(p) ==
  LET dir == current[p]
      ns == Populate(dir)
      child == ns[dir].children[(index[p] % Len(ns[dir].children)) + 1]
  IN
  /\ pc[p] = "open" /\ dir \in Live
  /\ PopulateStep(dir, ns)
  /\ nodes' = [ns EXCEPT ![child].openCount = @ + 1, ![dir].openCount = @ - 1]
  /\ current' = [current EXCEPT ![p] = child]
  /\ path' = [path EXCEPT ![p] = Tail(@)]
  /\ pc' = [pc EXCEPT ![p] = "find"]
  /\ UNCHANGED <<entries, index, handle, wanted>>

\* current.openChild(nextIndex, false), which populates again; current.close()
OpenChild(p) ==
  LET dir == current[p]
      ns == Populate(dir)
      child == ns[dir].children[index[p]]
  IN
  /\ pc[p] = "open" /\ dir \in Live
  /\ PopulateStep(dir, ns)
  /\ nodes' = [ns EXCEPT ![child].openCount = @ + 1, ![dir].openCount = @ - 1]
  /\ current' = [current EXCEPT ![p] = child]
  /\ path' = [path EXCEPT ![p] = Tail(@)]
  /\ pc' = [pc EXCEPT ![p] = "find"]
  /\ UNCHANGED <<entries, index, handle, wanted>>

\* node = current.node; current.close()
EndWalk(p) ==
  /\ pc[p] = "find" /\ path[p] = <<>> /\ current[p] \in Live
  /\ handle' = [handle EXCEPT ![p].node = current[p]]
  /\ current' = [current EXCEPT ![p] = Null]
  /\ nodes' = [nodes EXCEPT ![current[p]].openCount = @ - 1]
  /\ pc' = [pc EXCEPT ![p] = "reopen"]
  /\ UNCHANGED <<entries, path, index, wanted, moved>>

\* node->openCount++ under the lock
Reopen(p) ==
  /\ pc[p] = "reopen" /\ handle[p].node \in Live
  /\ nodes' = [nodes EXCEPT ![handle[p].node].openCount = @ + 1]
  /\ handle' = [handle EXCEPT ![p].error = "OKAY"]
  /\ pc' = [pc EXCEPT ![p] = "ready"]
  /\ UNCHANGED <<entries, walk, moved>>
-----------------------------------------------------------------------------
(* Operations on an open handle *)

Ready(p) == pc[p] = "ready" /\ handle[p].node \in Live

\* close() leaves `open` set and the node null.
Close(p) ==
  /\ Ready(p)
  /\ nodes' = [nodes EXCEPT ![handle[p].node].openCount = @ - 1]
  /\ handle' = [handle EXCEPT ![p].node = Null, ![p].error = "CLOSED"]
  /\ pc' = [pc EXCEPT ![p] = "closed"]
  /\ UNCHANGED <<entries, walk, moved>>

\* Any operation on a handle that close() has been called on finds `open` set
\* and follows the null pointer, where fs.h:60 says that it does nothing.
UseClosed(p) ==
  /\ pc[p] = "closed"
  /\ pc' = [pc EXCEPT ![p] = "crashed"]
  /\ UNCHANGED <<entries, nodes, walk, handle, moved>>

\* childName(index), findChild(name): only the children and the error change.
ListChildren(p) ==
  LET dir == handle[p].node IN
  /\ Ready(p)
  /\ \/ /\ nodes[dir].type = "DIRECTORY" /\ nodes[dir].provider
        /\ nodes' = Populate(dir)
        /\ PopulateStep(dir, nodes')
        /\ UNCHANGED handle
     \/ /\ nodes[dir].type # "DIRECTORY"
        /\ handle' = [handle EXCEPT ![p].error = "NOT_DIRECTORY"]
        /\ UNCHANGED <<nodes, moved>>
  /\ UNCHANGED <<entries, pc, walk>>

\* read(offset, ReadSize, buffer), which reads on from where the last one ended
Read(p) ==
  LET n == nodes[handle[p].node]
      refused == n.type # "FILE"
      got == IF refused THEN 0 ELSE ReadLength(entries[n.entry].size, handle[p].offset, ReadSize)
  IN
  /\ Ready(p)
  /\ handle' = [handle EXCEPT ![p].error = IF refused THEN "NOT_FILE" ELSE @,
                              ![p].offset = @ + got]
  /\ UNCHANGED <<entries, nodes, pc, walk, moved>>

\* write(): the initramfs does not implement it, so nothing is written.
Write(p) ==
  /\ Ready(p)
  /\ handle' = [handle EXCEPT ![p].error =
                  IF ~handle[p].writable THEN "READ_ONLY"
                  ELSE IF nodes[handle[p].node].type # "FILE" THEN "NOT_FILE" ELSE @]
  /\ UNCHANGED <<entries, nodes, pc, walk, moved>>

\* Mutant: mount() asks only for a directory without children.
MountAnyway(p) ==
  LET dir == handle[p].node IN
  /\ Ready(p)
  /\ \/ /\ handle[p].writable /\ nodes[dir].type = "DIRECTORY"
        /\ nodes[dir].children = <<>>
        /\ nodes' = [nodes EXCEPT ![dir].provider = TRUE, ![dir].populated = FALSE,
                                  ![dir].entry = 1]
        /\ UNCHANGED handle
     \/ /\ handle[p].writable /\ nodes[dir].type = "DIRECTORY"
        /\ nodes[dir].children # <<>>
        /\ handle' = [handle EXCEPT ![p].error = "BUSY"]
        /\ UNCHANGED nodes
  /\ UNCHANGED <<entries, pc, walk, moved>>

\* mount(new InitramfsFsProvider()), with its initRoot()
Mount(p) ==
  LET dir == handle[p].node
      refuse(error) == handle' = [handle EXCEPT ![p].error = error] /\ UNCHANGED nodes
  IN
  /\ Ready(p)
  /\ \/ ~handle[p].writable /\ refuse("READ_ONLY")
     \/ handle[p].writable /\ nodes[dir].type # "DIRECTORY" /\ refuse("NOT_DIRECTORY")
     \/ /\ handle[p].writable /\ nodes[dir].type = "DIRECTORY"
        /\ IF nodes[dir].children = <<>> /\ nodes[dir].openCount = 1
           THEN /\ nodes' = [nodes EXCEPT ![dir].provider = TRUE, ![dir].populated = FALSE,
                                          ![dir].entry = 1]
                /\ UNCHANGED handle
           ELSE refuse("BUSY")
  /\ UNCHANGED <<entries, pc, walk, moved>>

\* The client drops a handle that it has closed or could not open.
Abandon(p) ==
  /\ pc[p] \in {"failed", "closed"}
  /\ pc' = [pc EXCEPT ![p] = "idle"]
  /\ handle' = [handle EXCEPT ![p] = EmptyHandle]
  /\ wanted' = [wanted EXCEPT ![p] = <<>>]
  /\ path' = [path EXCEPT ![p] = <<>>]
  /\ UNCHANGED <<entries, nodes, current, index, moved>>

\* The client's next access goes to memory that holds no node.
Stray(p) ==
  /\ \/ pc[p] \in {"find", "open"} /\ current[p] \notin Live
     \/ pc[p] \in {"reopen", "ready"} /\ handle[p].node \notin Live
  /\ pc' = [pc EXCEPT ![p] = "stray"]
  /\ UNCHANGED <<entries, nodes, walk, handle, moved>>

Next ==
  /\ \A p \in Clients : pc[p] \notin {"stray", "crashed"}
  /\ \E p \in Clients :
       \/ \E q \in Paths, writable \in BOOLEAN : StartOpen(p, q, writable)
       \/ FindChild(p) \/ OpenChild(p) \/ EndWalk(p) \/ Reopen(p)
       \/ Close(p) \/ ListChildren(p) \/ Mount(p) \/ Abandon(p) \/ Stray(p)
       \/ UseClosed(p) \/ Read(p) \/ Write(p)

Spec == Init /\ [][Next]_vars
-----------------------------------------------------------------------------
TypeOK ==
  /\ Live \subseteq Addresses /\ Root \in Live
  /\ \A a \in Live :
       /\ nodes[a].type \in {"FILE", "DIRECTORY"} /\ nodes[a].openCount \in Nat
       /\ ToSet(nodes[a].children) \subseteq Live /\ Len(nodes[a].children) <= nodes[a].capacity
       /\ nodes[a].entry \in 0 .. Len(entries)
       /\ nodes[a].populated \in BOOLEAN /\ nodes[a].provider \in BOOLEAN
  /\ pc \in [Clients -> {"idle", "find", "open", "reopen", "ready", "closed", "failed",
                         "stray", "crashed"}]
  /\ current \in [Clients -> Addresses \cup {Null}]
  /\ index \in [Clients -> Nat]
  /\ \A p \in Clients :
       /\ handle[p].node \in Addresses \cup {Null} /\ handle[p].writable \in BOOLEAN
       /\ handle[p].error \in {"OKAY", "CLOSED", "NOT_FOUND", "READ_ONLY", "NOT_FILE",
                               "NOT_DIRECTORY", "BUSY"}
  /\ moved \in BOOLEAN

\* Handles and nodes fit together until a vector moves a node that somebody has
\* open (vector.h:98-106).  openCount, which mount() relies on, is the number of
\* open handles, those inside path walks included: every way out of the walk and
\* every close() takes back what was counted (vfs.cpp:27-62, 75-83).  An
\* operation on a handle that is not closed reaches a node and not freed memory
\* or a null pointer, and reading on to the end stays inside the file's data.
HandlesMatchNodes ==
  /\ TypeOK
  /\ ~moved =>
       /\ \A p \in Clients : pc[p] # "stray"
       /\ \A a \in Live :
            nodes[a].openCount = Cardinality({p \in Clients : current[p] = a})
                               + Cardinality({p \in Clients : pc[p] = "ready" /\ handle[p].node = a})
  /\ \A p \in Clients : Ready(p) /\ handle[p].offset > 0
       => handle[p].offset <= entries[nodes[handle[p].node].entry].size

\* The file a path leads to is the one it names, although findChild() and
\* openChild() are two calls with an index between them and both append to the
\* children; and an open fails only if the archive has no such path, whatever
\* other clients list, open and close meanwhile, as long as nobody mounts below
\* the root (vfs.cpp:37-46).
OpensWhatIsNamed ==
  /\ \A p \in Clients : Ready(p) /\ nodes[handle[p].node].provider /\ handle[p].node # Root
                          => nodes[handle[p].node].name = Last(wanted[p])
  /\ (\A a \in Live \ {Root} : nodes[a].entry # 1) =>
       \A p \in Clients : pc[p] = "failed" =>
         LET names == [k \in DOMAIN wanted[p] |-> <<"/">> \o wanted[p][k]]
         IN  \A k \in DOMAIN entries : entries[k].name # entries[1].name \o FlattenSeq(names)

\* The children of a directory are the entries one component below it, if no
\* other entry's name goes on after the directory's without a slash
\* (initramfs.cpp:79-102).
ListsChildren ==
  \A a \in Live :
    LET dir == entries[nodes[a].entry].name
        listed == {nodes[b].name : b \in ToSet(nodes[a].children)}
    IN  /\ nodes[a].children # <<>>
        /\ ~\E k \in DOMAIN entries : Extends(entries[k].name, dir)
        => listed = {SubString(entries[k].name, Len(dir) + 1) :
                       k \in {j \in DOMAIN entries : IsChild(entries[j].name, dir)}}

\* A file system is mounted only on a directory that nobody else has open and
\* whose old children nobody can reach (vfs.cpp:181).
MountsAlone ==
  [][\A p \in Clients : Mount(p) /\ nodes' # nodes
       => /\ nodes[handle[p].node].children = <<>>
          /\ \A q \in Clients \ {p} : /\ current[q] # handle[p].node
                                      /\ pc[q] = "ready" => handle[q].node # handle[p].node]_vars
=============================================================================
