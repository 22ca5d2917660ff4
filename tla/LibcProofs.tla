----------------------------- MODULE LibcProofs -----------------------------
(***************************************************************************)
(* Proofs about the device descriptor and the missing libc, for any number *)
(* of descriptors and streams, any names and values, and any time: the     *)
(* device stays open whatever the title does with descriptors of its own   *)
(* (Device, Files), what a directory lists is found under the name it is   *)
(* listed by (Files), the environment reads back what was set in it and    *)
(* its blocks have one owner (Env), and a broken-down time is the instant  *)
(* it is of (Calendar).                                                    *)
(***************************************************************************)
EXTENDS Files, Env, Calendar, WellFoundedInduction, TLAPS

\* A non-empty set of naturals has a least element.
LEMMA LeastNatural ==
  ASSUME NEW T \in SUBSET Nat, T # {}
  PROVE  \E m \in T : \A k \in T : m <= k
<1>1. IsWellFoundedOn(OpToRel(<, Nat), Nat)
  BY NatLessThanWellFounded
<1>2. PICK x \in T : \A y \in T : ~ (<<y, x>> \in OpToRel(<, Nat))
  BY <1>1, WFMin, Zenon
<1>3. \A y \in T : ~ (y < x)
  BY <1>2 DEF OpToRel
<1>4. QED
  BY <1>3

----------------------------------------------------------------------------
\* The device descriptor.

\* What a descriptor may be open on, and what the winsys holds.
OpenOn == {"none", "stream", "eboot", "title", "dir"}
Held   == {"stream", "eboot"}

DeviceTypeOK ==
  /\ winsysFd \in Fds \cup {Token}
  /\ file \in [Fds -> OpenOn]
  /\ root \in BOOLEAN /\ started \in BOOLEAN
  /\ handed \subseteq Fds
  /\ DOMAIN dirs = Streams
  /\ \A s \in Streams : "fd" \in DOMAIN dirs[s] /\ dirs[s].fd \in Fds \cup {Token}

\* Before .init_array has run nothing is held, and there is something to take.
NotStarted ==
  /\ winsysFd = Token /\ handed = {}
  /\ root \/ file[Stderr] = "stream"
  /\ file[3] = "none"
  /\ \A s \in Streams : dirs[s].fd = Token

\* From then on the descriptor and all that was given out are open on what the winsys
\* holds; streams have descriptors of their own.
HoldsDevice ==
  /\ ~started => NotStarted
  /\ started => winsysFd \in Fds /\ file[winsysFd] \in Held
  /\ \A fd \in handed : file[fd] \in Held
  /\ \A s \in Streams : dirs[s].fd \in Fds => file[dirs[s].fd] = "dir"
  /\ \A s, t \in Streams : dirs[s].fd \in Fds /\ dirs[s].fd = dirs[t].fd => s = t
  /\ \A s \in Streams : dirs[s].fd = Token => dirs[s] = NoDir

DeviceInv == DeviceTypeOK /\ HoldsDevice

\* open and F_DUPFD give a number that was free.
LEMMA LowestIs ==
  ASSUME NEW table, NEW from \in Nat, Free(table, from) # {}
  PROVE  Lowest(table, from) \in Fds /\ table[Lowest(table, from)] = "none"
<1>1. Free(table, from) \in SUBSET Nat
  BY DeviceAssumption DEF Free, Fds
<1>2. \E m \in Free(table, from) : \A k \in Free(table, from) : m <= k
  BY <1>1, LeastNatural
<1>3. Lowest(table, from) \in Free(table, from)
  BY <1>2 DEF Lowest
<1>4. QED
  BY <1>3 DEF Free

\* The token is no descriptor.
LEMMA TokenIs == Token \notin Fds /\ Stderr \in Fds /\ 3 \in Fds /\ 0 \in Fds /\ 1 \in Fds
  BY DeviceAssumption DEF Token, Fds, Stderr

\* Claiming again is answered with what is held already; the first time it finds the
\* eboot or standard error.
LEMMA ClaimIs ==
  ASSUME DeviceInv
  PROVE  /\ started => Claim.fd = winsysFd /\ Claim.file = file
         /\ ~started => /\ Claim.fd \in Fds /\ Claim.file \in [Fds -> OpenOn]
                        /\ Claim.file[Claim.fd] \in Held
<1>1. ASSUME started PROVE Claim.fd = winsysFd /\ Claim.file = file
  <2>1. winsysFd # Token
    BY <1>1, TokenIs DEF DeviceInv, HoldsDevice
  <2>2. QED
    BY <2>1 DEF Claim, Outcome
<1>2. ASSUME ~started PROVE /\ Claim.fd \in Fds /\ Claim.file \in [Fds -> OpenOn]
                            /\ Claim.file[Claim.fd] \in Held
  <2>1. winsysFd = Token /\ (root \/ file[Stderr] = "stream") /\ file[3] = "none"
        /\ file \in [Fds -> OpenOn] /\ root \in BOOLEAN
    BY <1>2 DEF DeviceInv, HoldsDevice, NotStarted, DeviceTypeOK
  <2>2. Free(file, 0) # {}
    BY <2>1, TokenIs DEF Free
  <2>3. Claim = ClaimNew
    BY <2>1 DEF Claim
  <2>4. CASE root
    <3>1. ClaimNew = Outcome(Lowest(file, 0), [file EXCEPT ![Lowest(file, 0)] = "eboot"])
      BY <2>2, <2>4 DEF ClaimNew
    <3>2. Lowest(file, 0) \in Fds
      BY <2>2, LowestIs
    <3>3. QED
      BY <2>1, <2>3, <3>1, <3>2 DEF Outcome, OpenOn, Held
  <2>5. CASE ~root
    <3>1. IsOpen(Stderr) /\ file[Stderr] = "stream"
      BY <2>1, <2>5, TokenIs DEF IsOpen
    <3>2. ClaimNew = Outcome(Stderr, file)
      BY <2>5, <3>1 DEF ClaimNew
    <3>3. QED
      BY <2>1, <2>3, <3>1, <3>2, TokenIs DEF Outcome, OpenOn, Held
  <2>6. QED
    BY <2>1, <2>4, <2>5
<1>3. QED
  BY <1>1, <1>2

\* The descriptor and the streams through a step that changes no descriptor of theirs.
LEMMA StillHeld ==
  ASSUME DeviceInv, started, started', winsysFd' = winsysFd, root' \in BOOLEAN,
         file' \in [Fds -> OpenOn], dirs' = dirs, handed' \subseteq Fds,
         \A fd \in Fds : file[fd] \in Held \cup {"dir"} =>
           file'[fd] = file[fd]
             \/ (fd \notin handed \cup {winsysFd} /\ file[fd] # "dir"),
         \A fd \in handed' \ handed : file'[fd] \in Held
  PROVE  DeviceInv'
<1>1. DeviceTypeOK'
  BY DEF DeviceInv, DeviceTypeOK
<1>2. winsysFd \in Fds /\ file[winsysFd] \in Held /\ file'[winsysFd] \in Held
  BY DEF DeviceInv, HoldsDevice, Held
<1>3. \A fd \in handed' : file'[fd] \in Held
  BY DEF DeviceInv, HoldsDevice, DeviceTypeOK, Held
<1>4. \A s \in Streams : dirs[s].fd \in Fds => file'[dirs[s].fd] = "dir"
  BY DEF DeviceInv, HoldsDevice
<1>5. QED
  BY <1>1, <1>2, <1>3, <1>4 DEF DeviceInv, HoldsDevice

\* The winsys's own operations, and the rest of the title.
LEMMA DeviceStep ==
  ASSUME DeviceInv, Next, dirs' = dirs
  PROVE  DeviceInv'
<1>0. DeviceTypeOK /\ HoldsDevice /\ file \in [Fds -> OpenOn] /\ handed \subseteq Fds
      /\ root \in BOOLEAN
  BY DEF DeviceInv, DeviceTypeOK
<1>1. CASE Constructor
  <2>1. /\ ~started /\ started' = TRUE /\ winsysFd' = Claim.fd /\ file' = Claim.file
        /\ root' = root /\ handed' = handed
    BY <1>1 DEF Constructor
  <2>2. Claim.fd \in Fds /\ Claim.file \in [Fds -> OpenOn] /\ Claim.file[Claim.fd] \in Held
    BY <2>1, ClaimIs
  <2>3. handed = {} /\ \A s \in Streams : dirs[s].fd = Token
    BY <2>1 DEF DeviceInv, HoldsDevice, NotStarted
  <2>4. DeviceTypeOK'
    BY <1>0, <2>1, <2>2 DEF DeviceTypeOK
  <2>5. HoldsDevice'
    BY <1>0, <2>1, <2>2, <2>3, TokenIs DEF HoldsDevice
  <2>6. QED
    BY <2>4, <2>5 DEF DeviceInv
<1>2. CASE Open
  <2>1. /\ started /\ started' = started /\ root' = root
        /\ winsysFd' = winsysFd /\ file' = file /\ handed' = handed \cup {winsysFd}
    BY <1>2, ClaimIs DEF Open
  <2>2. winsysFd \in Fds /\ file[winsysFd] \in Held
    BY <1>0, <2>1 DEF HoldsDevice
  <2>3. QED
    BY <1>0, <2>1, <2>2, StillHeld
<1>3. CASE OpenRenderNode
  <2> DEFINE ok == winsysFd # Token /\ file[winsysFd] # "none" /\ Free(file, 3) # {}
             n == Lowest(file, 3)
  <2>1. /\ started /\ started' = started /\ root' = root /\ winsysFd' = winsysFd
        /\ file' = IF ok THEN [file EXCEPT ![n] = file[winsysFd]] ELSE file
        /\ handed' = IF ok THEN handed \cup {n} ELSE handed
    BY <1>3, ClaimIs DEF OpenRenderNode
  <2>2. winsysFd \in Fds /\ file[winsysFd] \in Held
    BY <1>0, <2>1 DEF HoldsDevice
  <2>3. CASE ok
    <3>1. n \in Fds /\ file[n] = "none"
      BY <2>3, LowestIs
    <3> HIDE DEF n
    <3>2. /\ file' = [file EXCEPT ![n] = file[winsysFd]] /\ handed' = handed \cup {n}
      BY <2>1, <2>3
    <3>3. file' \in [Fds -> OpenOn] /\ file'[n] \in Held
          /\ \A fd \in Fds : fd # n => file'[fd] = file[fd]
      BY <1>0, <2>2, <3>1, <3>2 DEF OpenOn, Held
    <3>4. \A fd \in Fds : file[fd] \in Held \cup {"dir"} => file'[fd] = file[fd]
      BY <3>1, <3>3 DEF Held
    <3>5. QED
      BY <1>0, <2>1, <3>1, <3>2, <3>3, <3>4, StillHeld
  <2>4. CASE ~ok
    BY <1>0, <2>1, <2>4, StillHeld
  <2>5. QED
    BY <2>3, <2>4
<1>4. ASSUME NEW fd \in handed, Close(fd) PROVE DeviceInv'
  BY <1>0, <1>4, StillHeld DEF Close
<1>5. CASE Escape
  BY <1>0, <1>5, StillHeld DEF Escape
<1>6. CASE TitleOpens
  <2> DEFINE n == Lowest(file, 0)
  <2>1. n \in Fds /\ file[n] = "none"
    BY <1>6, LowestIs DEF TitleOpens
  <2>2. /\ started /\ started' = started /\ root' = root /\ winsysFd' = winsysFd /\ handed' = handed
        /\ file' = [file EXCEPT ![n] = "title"]
    BY <1>6 DEF TitleOpens
  <2> HIDE DEF n
  <2>3. file' \in [Fds -> OpenOn] /\ \A fd \in Fds : fd # n => file'[fd] = file[fd]
    BY <1>0, <2>1, <2>2 DEF OpenOn
  <2>4. \A fd \in Fds : file[fd] \in Held \cup {"dir"} => file'[fd] = file[fd]
    BY <2>1, <2>3 DEF Held
  <2>5. QED
    BY <1>0, <2>2, <2>3, <2>4, StillHeld
<1>7. ASSUME NEW fd \in Fds, TitleCloses(fd) PROVE DeviceInv'
  <2>1. /\ started /\ started' = started /\ root' = root /\ winsysFd' = winsysFd /\ handed' = handed
        /\ file' = [file EXCEPT ![fd] = "none"]
        /\ file[fd] \in {"title", "stream"} /\ fd \notin handed \cup {winsysFd}
    BY <1>7 DEF TitleCloses
  <2>2. file' \in [Fds -> OpenOn] /\ \A o \in Fds : o # fd => file'[o] = file[o]
    BY <1>0, <2>1 DEF OpenOn
  <2>3. \A o \in Fds : file[o] \in Held \cup {"dir"} =>
          file'[o] = file[o] \/ (o \notin handed \cup {winsysFd} /\ file[o] # "dir")
    BY <2>1, <2>2
  <2>4. QED
    BY <1>0, <2>1, <2>2, <2>3, StillHeld
<1>8. QED
  BY <1>1, <1>2, <1>3, <1>4, <1>5, <1>6, <1>7 DEF Next

\* Streams take and give back descriptors that are nobody else's.
LEMMA StreamStep ==
  ASSUME DeviceInv, NEW s \in Streams,
         \/ \E p \in Paths : Opendir(s, p)
         \/ \E e \in DOMAIN Tree \cup DOMAIN Elsewhere : Readdir(s, e)
         \/ Closedir(s)
  PROVE  DeviceInv'
<1>0. /\ DeviceTypeOK /\ HoldsDevice /\ file \in [Fds -> OpenOn] /\ handed \subseteq Fds
      /\ root \in BOOLEAN /\ DOMAIN dirs = Streams /\ "fd" \in DOMAIN dirs[s]
      /\ dirs[s].fd \in Fds \cup {Token}
  BY DEF DeviceInv, DeviceTypeOK
<1>1. ASSUME NEW p \in Paths, Opendir(s, p) PROVE DeviceInv'
  <2> DEFINE n == Lowest(file, 0)
             d == [fd |-> n, path |-> AbsolutePath(p), seen |-> {}, entry |-> NoEntry, root |-> root]
  <2>1. n \in Fds /\ file[n] = "none"
    BY <1>1, LowestIs DEF Opendir, Opens
  <2>2. /\ started /\ started' = started /\ root' = root /\ winsysFd' = winsysFd /\ handed' = handed
        /\ file' = [file EXCEPT ![n] = "dir"] /\ dirs' = [dirs EXCEPT ![s] = d]
    BY <1>1 DEF Opendir, Between
  <2>3. d.fd = n /\ "fd" \in DOMAIN d
    OBVIOUS
  <2> HIDE DEF n, d
  <2>4. /\ file' \in [Fds -> OpenOn] /\ file'[n] = "dir"
        /\ \A fd \in Fds : fd # n => file'[fd] = file[fd]
    BY <1>0, <2>1, <2>2 DEF OpenOn
  <2>5. dirs'[s] = d /\ DOMAIN dirs' = Streams /\ \A t \in Streams : t # s => dirs'[t] = dirs[t]
    BY <1>0, <2>2
  <2>6. DeviceTypeOK'
    BY <1>0, <2>1, <2>2, <2>3, <2>4, <2>5 DEF DeviceTypeOK
  <2>7. \A t \in Streams : dirs[t].fd \in Fds => dirs[t].fd # n
    BY <1>0, <2>1 DEF HoldsDevice
  <2>8. winsysFd # n /\ n \notin handed
    BY <1>0, <2>1, <2>2 DEF HoldsDevice, Held
  <2>9. HoldsDevice'
    BY <1>0, <2>1, <2>2, <2>3, <2>4, <2>5, <2>7, <2>8, TokenIs DEF HoldsDevice, DeviceTypeOK
  <2>10. QED
    BY <2>6, <2>9 DEF DeviceInv
<1>2. ASSUME NEW e, Readdir(s, e) PROVE DeviceInv'
  <2>1. /\ started /\ UNCHANGED vars /\ dirs[s] # NoDir
        /\ dirs' = [dirs EXCEPT ![s].seen = @ \cup {e}, ![s].entry = [name |-> Last(e), type |-> Kind(e)]]
    BY <1>2 DEF Readdir, Between
  <2>2. UNCHANGED <<winsysFd, file, root, started, handed>>
    BY <2>1 DEF vars
  <2>3. /\ dirs'[s].fd = dirs[s].fd /\ "fd" \in DOMAIN dirs'[s] /\ DOMAIN dirs' = Streams
        /\ \A t \in Streams : t # s => dirs'[t] = dirs[t]
    BY <1>0, <2>1
  <2>4. dirs[s].fd # Token
    BY <1>0, <2>1 DEF HoldsDevice
  <2>5. DeviceTypeOK'
    BY <1>0, <2>2, <2>3 DEF DeviceTypeOK
  <2>6. HoldsDevice'
    BY <1>0, <2>1, <2>2, <2>3, <2>4 DEF HoldsDevice
  <2>7. QED
    BY <2>5, <2>6 DEF DeviceInv
<1>3. CASE Closedir(s)
  <2> DEFINE n == dirs[s].fd
  <2>1. /\ started /\ started' = started /\ root' = root /\ winsysFd' = winsysFd /\ handed' = handed
        /\ file' = [file EXCEPT ![n] = "none"] /\ dirs' = [dirs EXCEPT ![s] = NoDir] /\ dirs[s] # NoDir
    BY <1>3 DEF Closedir, Between
  <2>2. n \in Fds /\ file[n] = "dir"
    BY <1>0, <2>1 DEF HoldsDevice
  <2>3. \A t \in Streams : t # s => dirs[t].fd # n
    BY <1>0, <2>2 DEF HoldsDevice
  <2>4. winsysFd # n /\ n \notin handed
    BY <1>0, <2>1, <2>2 DEF HoldsDevice, Held
  <2> HIDE DEF n
  <2>5. /\ file' \in [Fds -> OpenOn]
        /\ \A fd \in Fds : fd # n => file'[fd] = file[fd]
    BY <1>0, <2>1, <2>2 DEF OpenOn
  <2>6. dirs'[s] = NoDir /\ DOMAIN dirs' = Streams /\ \A t \in Streams : t # s => dirs'[t] = dirs[t]
    BY <1>0, <2>1
  <2>7. NoDir.fd = Token /\ "fd" \in DOMAIN NoDir
    BY DEF NoDir
  <2>8. DeviceTypeOK'
    BY <1>0, <2>1, <2>5, <2>6, <2>7 DEF DeviceTypeOK
  <2>9. HoldsDevice'
    BY <1>0, <2>1, <2>3, <2>4, <2>5, <2>6, <2>7, TokenIs DEF HoldsDevice, DeviceTypeOK
  <2>10. QED
    BY <2>8, <2>9 DEF DeviceInv
<1>4. QED
  BY <1>1, <1>2, <1>3

\* The descriptor is held through every step.
LEMMA DeviceInductive == DeviceInv /\ [FilesNext]_allVars => DeviceInv'
<1> SUFFICES ASSUME DeviceInv, [FilesNext]_allVars PROVE DeviceInv'
  OBVIOUS
<1>1. ASSUME UNCHANGED <<winsysFd, file, root, started, handed, dirs>> PROVE DeviceInv'
  BY <1>1 DEF DeviceInv, DeviceTypeOK, HoldsDevice, NotStarted
<1>2. CASE UNCHANGED allVars
  BY <1>1, <1>2 DEF allVars, vars, filesVars
<1>3. ASSUME NEW op, NEW p \in Paths, Exists(op, p) PROVE DeviceInv'
  BY <1>1, <1>3 DEF Exists, vars
<1>4. CASE ChangeDir \/ Stat
  BY <1>1, <1>4 DEF ChangeDir, Stat, vars
<1>5. CASE Next /\ dirs' = dirs
  BY <1>5, DeviceStep
<1>6. QED
  BY <1>2, <1>3, <1>4, <1>5, StreamStep DEF FilesNext

\* A title that finds its eboot, or has a standard error, has a device to claim.
LEMMA DeviceStart == {} \notin Starts /\ FilesInit => DeviceInv
<1> SUFFICES ASSUME {} \notin Starts, FilesInit PROVE DeviceInv
  OBVIOUS
<1>1. PICK start \in Starts :
        /\ root = ("eboot" \in start)
        /\ file = [fd \in Fds |->
                    IF fd < 2 \/ (fd = Stderr /\ "stderr" \in start) THEN "stream" ELSE "none"]
  BY DEF FilesInit, Init
<1>2. "eboot" \in start \/ "stderr" \in start
  BY DeviceAssumption
<1>3. winsysFd = Token /\ started = FALSE /\ handed = {} /\ dirs = [s \in Streams |-> NoDir]
  BY DEF FilesInit, Init
<1>4. file \in [Fds -> OpenOn] /\ file[3] = "none"
  BY <1>1, TokenIs DEF OpenOn, Stderr
<1>5. root \/ file[Stderr] = "stream"
  BY <1>1, <1>2, TokenIs
<1>6. \A s \in Streams : dirs[s] = NoDir /\ dirs[s].fd = Token /\ "fd" \in DOMAIN dirs[s]
  BY <1>3 DEF NoDir
<1>7. root \in BOOLEAN
  BY <1>1
<1>8. DeviceTypeOK
  BY <1>3, <1>4, <1>6, <1>7 DEF DeviceTypeOK
<1>9. HoldsDevice
  BY <1>3, <1>4, <1>5, <1>6, TokenIs DEF HoldsDevice, NotStarted
<1>10. QED
  BY <1>8, <1>9 DEF DeviceInv

\* With any number of descriptors, streams and paths, as long as the title starts with its
\* eboot readable or with a standard error: the device descriptor is taken once, and it and
\* every duplicate are served until they are closed.
THEOREM DeviceStaysOpen == {} \notin Starts => (FilesSpec => StaysOpen)
<1> SUFFICES ASSUME {} \notin Starts PROVE FilesSpec => StaysOpen
  OBVIOUS
<1>1. FilesInit => DeviceInv
  BY DeviceStart
<1>2. ASSUME DeviceInv, DeviceInv', [FilesNext]_allVars
      PROVE  [/\ handed # {} => winsysFd' = winsysFd
              /\ \A fd \in handed' : Served(fd)']_vars
  <2>1. \A fd \in handed' : Served(fd)'
    BY <1>2 DEF DeviceInv, DeviceTypeOK, HoldsDevice, Served, IsOpen, Held
  <2>2. ASSUME handed # {}, winsysFd' # winsysFd PROVE FALSE
    <3>1. started
      BY <1>2, <2>2 DEF DeviceInv, HoldsDevice, NotStarted, DeviceTypeOK
    <3>2. Claim.fd = winsysFd
      BY <1>2, <3>1, ClaimIs
    <3>3. ~Constructor
      BY <3>1 DEF Constructor
    <3>4. QED
      BY <1>2, <2>2, <3>2, <3>3 DEF FilesNext, Next, Open, OpenRenderNode, Close, Escape, TitleOpens,
           TitleCloses, Exists, ChangeDir, Stat, Opendir, Readdir, Closedir, allVars, vars
  <2>3. QED
    BY <2>1, <2>2
<1>3. QED
  BY <1>1, <1>2, DeviceInductive, PTL DEF FilesSpec, StaysOpen

----------------------------------------------------------------------------
\* Names, stat and directory streams.

\* A name without "." and ".." is its own canonical form: the components are copied one
\* by one, and there is only one way of doing it.
LEMMA CanonicalPlain ==
  ASSUME NEW d, CanonicalName(d)
  PROVE  Canonical(d) = d
<1> DEFINE f == [k \in 0 .. Len(d) |-> SubSeq(d, 1, k)]
<1>0. /\ d \in Seq(STRING) /\ Len(d) \in Nat
      /\ \A k \in 1 .. Len(d) : d[k] # "." /\ d[k] # ".."
  BY DEF CanonicalName
<1>1. \A k \in 1 .. Len(d) : Extended(SubSeq(d, 1, k - 1), d[k]) = SubSeq(d, 1, k)
  <2>1. SUFFICES ASSUME NEW k \in 1 .. Len(d)
                 PROVE  Extended(SubSeq(d, 1, k - 1), d[k]) = SubSeq(d, 1, k)
    OBVIOUS
  <2>2. Extended(SubSeq(d, 1, k - 1), d[k]) = Append(SubSeq(d, 1, k - 1), d[k])
    BY <1>0 DEF Extended
  <2>3. Append(SubSeq(d, 1, k - 1), d[k]) = SubSeq(d, 1, k)
    BY <1>0
  <2>4. QED
    BY <2>2, <2>3
<1>2. f = [k \in 0 .. Len(d) |-> IF k = 0 THEN <<>> ELSE Extended(f[k - 1], d[k])]
  <2>1. \A k \in 0 .. Len(d) : f[k] = IF k = 0 THEN <<>> ELSE Extended(f[k - 1], d[k])
    <3>1. SUFFICES ASSUME NEW k \in 0 .. Len(d)
                   PROVE  f[k] = IF k = 0 THEN <<>> ELSE Extended(f[k - 1], d[k])
      OBVIOUS
    <3>2. CASE k = 0
      BY <1>0, <3>2
    <3>3. CASE k # 0
      <4>1. k \in 1 .. Len(d) /\ k - 1 \in 0 .. Len(d)
        BY <1>0, <3>3
      <4>2. f[k - 1] = SubSeq(d, 1, k - 1) /\ f[k] = SubSeq(d, 1, k)
        BY <4>1
      <4>3. QED
        BY <1>1, <3>3, <4>1, <4>2
    <3>4. QED
      BY <3>2, <3>3
  <2>2. QED
    BY <2>1
<1>3. ASSUME NEW g, g = [k \in 0 .. Len(d) |-> IF k = 0 THEN <<>> ELSE Extended(g[k - 1], d[k])]
      PROVE  g = f
  <2> DEFINE Wrong == {k \in 0 .. Len(d) : g[k] # f[k]}
  <2>1. DOMAIN g = 0 .. Len(d) /\ DOMAIN f = 0 .. Len(d) /\ g = [k \in 0 .. Len(d) |-> g[k]]
    BY <1>3
  <2>2. \A k \in 0 .. Len(d) : g[k] = IF k = 0 THEN <<>> ELSE Extended(g[k - 1], d[k])
    BY <1>3
  <2>3. \A k \in 0 .. Len(d) : f[k] = IF k = 0 THEN <<>> ELSE Extended(f[k - 1], d[k])
    BY <1>2
  <2>f. f = [k \in 0 .. Len(d) |-> f[k]]
    OBVIOUS
  <2> HIDE DEF f
  <2>4. Wrong = {}
    <3>1. SUFFICES ASSUME Wrong # {} PROVE FALSE
      OBVIOUS
    <3>2. Wrong \in SUBSET Nat
      BY <1>0
    <3>3. PICK m \in Wrong : \A k \in Wrong : m <= k
      BY <3>1, <3>2, LeastNatural
    <3>4. m \in 0 .. Len(d) /\ g[m] # f[m]
      BY <3>3
    <3>5. m # 0
      BY <2>2, <2>3, <3>4
    <3>6. m - 1 \in 0 .. Len(d) /\ m - 1 \notin Wrong
      BY <1>0, <3>3, <3>4, <3>5
    <3>7. g[m - 1] = f[m - 1]
      BY <3>6
    <3>8. QED
      BY <2>2, <2>3, <3>4, <3>5, <3>7
  <2>5. \A k \in 0 .. Len(d) : g[k] = f[k]
    BY <2>4
  <2>6. QED
    BY <2>1, <2>5, <2>f
<1>4. f[Len(d)] = d
  BY <1>0
<1> HIDE DEF f
<1>5. Canonical(d) = f[Len(d)]
  BY <1>2, <1>3, Zenon DEF Canonical
<1>6. QED
  BY <1>4, <1>5

\* What a path names under a root, and where it leads from a working directory.
KindUnder(r, path) ==
  LET tree == IF r THEN Tree ELSE Elsewhere
  IN  IF path \in DOMAIN tree THEN tree[path] ELSE "none"

PathFrom(dir, p) ==
  LET joined == IF p.absolute THEN p.parts ELSE dir \o p.parts
  IN  IF Len(joined) > PathMax THEN AsWritten ELSE Canonical(joined)

\* The question under way is about a path that existed, from the directory the title is
\* in still.
QueryMeans ==
  query # NoCall =>
    /\ query.canon = PathFrom(cwd, query.path)
    /\ KindUnder(query.root, query.canon) \in {"dir", "file"}

\* A fair answer is what the path named, or calls it a file if it is as long as paths go;
\* and nothing is called a directory that is none.
SaidOf(said, fair, r, path) ==
  /\ (said = "dir") => (KindUnder(r, path) = "dir")
  /\ fair => (said = KindUnder(r, path) \/ (said = "file" /\ ~Roomy(path)))

AnswerMeans ==
  answer # NoCall =>
    SaidOf(answer.said, answer.fair, answer.root, PathFrom(answer.cwd, answer.path))

\* What readdir last gave is one of the directory's entries.
GivenBy(d, e) ==
  /\ Len(e) = Len(d.path) + 1 /\ Front(e) = d.path
  /\ d.entry = [name |-> Last(e), type |-> KindUnder(d.root, e)]

EntryMeans(d) ==
  /\ DOMAIN d = {"fd", "path", "seen", "entry", "root"}
  /\ d.entry # NoEntry => \E e \in DOMAIN Tree \cup DOMAIN Elsewhere : GivenBy(d, e)

ListingInv ==
  /\ root \in BOOLEAN /\ DOMAIN dirs = Streams
  /\ QueryMeans /\ AnswerMeans
  /\ \A s \in Streams : EntryMeans(dirs[s])

\* The entry's name, from the directory it was found in, is the entry.
LEMMA ListingMeans == ListingInv => ListingResolves
<1>1. SUFFICES ASSUME ListingInv, NEW s \in Streams, answer # NoCall, dirs[s].entry # NoEntry,
                      answer.path = [absolute |-> FALSE, parts |-> <<dirs[s].entry.name>>],
                      answer.cwd = dirs[s].path, answer.root = dirs[s].root
               PROVE  \/ answer.said = dirs[s].entry.type
                      \/ ~answer.fair /\ answer.said # "dir"
                      \/ /\ answer.said = "file"
                         /\ ~Roomy(Append(dirs[s].path, dirs[s].entry.name))
  BY DEF ListingResolves
<1>2. PICK e \in DOMAIN Tree \cup DOMAIN Elsewhere : GivenBy(dirs[s], e)
  BY <1>1 DEF ListingInv, EntryMeans
<1>3. CanonicalName(e)
  BY <1>2, FilesAssumption
<1>4. e \in Seq(STRING) /\ Len(e) \in 1 .. PathMax /\ PathMax \in Nat
  BY <1>3, FilesAssumption DEF CanonicalName
<1>5. /\ dirs[s].entry.name = Last(e) /\ dirs[s].entry.type = KindUnder(dirs[s].root, e)
      /\ dirs[s].path = Front(e)
  BY <1>2 DEF GivenBy
<1>6. Front(e) \o <<Last(e)>> = e
  BY <1>4 DEF Front, Last
<1>7. answer.path.absolute = FALSE /\ answer.path.parts = <<Last(e)>>
  BY <1>1, <1>5
<1>8. PathFrom(answer.cwd, answer.path) = e
  <2>1. answer.cwd \o answer.path.parts = e
    BY <1>1, <1>5, <1>6, <1>7
  <2>2. ~ (Len(e) > PathMax)
    BY <1>4
  <2>3. PathFrom(answer.cwd, answer.path) = Canonical(e)
    BY <1>7, <2>1, <2>2 DEF PathFrom
  <2>4. QED
    BY <2>3, <1>3, CanonicalPlain
<1>9. SaidOf(answer.said, answer.fair, answer.root, e)
  BY <1>1, <1>8 DEF ListingInv, AnswerMeans
<1>10. Append(dirs[s].path, dirs[s].entry.name) = e
  BY <1>4, <1>5 DEF Front, Last
<1>11. QED
  BY <1>1, <1>5, <1>9, <1>10 DEF SaidOf

\* The operators of the model are those of the present root and directory.
LEMMA KindIs ==
  /\ \A path : Kind(path) = KindUnder(root, path)
  /\ \A p : AbsolutePath(p) = PathFrom(cwd, p)
<1>1. \A path : Kind(path) = KindUnder(root, path)
  BY DEF Kind, KindUnder
<1>2. \A p : AbsolutePath(p) = PathFrom(cwd, p)
  BY DEF AbsolutePath, PathFrom, Joined
<1>3. QED
  BY <1>1, <1>2

\* What exists is a directory or a file, whatever the root.
LEMMA KindsAre == \A r, path : KindUnder(r, path) \in {"none", "dir", "file"}
<1>1. SUFFICES ASSUME NEW r, NEW path PROVE KindUnder(r, path) \in {"none", "dir", "file"}
  OBVIOUS
<1>2. CASE r
  BY <1>2, FilesAssumption DEF KindUnder
<1>3. CASE ~r
  BY <1>3, FilesAssumption DEF KindUnder
<1>4. QED
  BY <1>2, <1>3

\* stat and chdir keep it.
LEMMA QueryStep ==
  ASSUME ListingInv, (\E p \in Paths : Exists("stat", p) \/ Exists("chdir", p)) \/ ChangeDir \/ Stat
  PROVE  ListingInv'
<1>0. root \in BOOLEAN /\ DOMAIN dirs = Streams /\ QueryMeans /\ \A s \in Streams : EntryMeans(dirs[s])
  BY DEF ListingInv
<1>1. root' = root /\ dirs' = dirs
  BY DEF Exists, ChangeDir, Stat, vars
<1>2. \A s \in Streams : EntryMeans(dirs[s])'
  BY <1>0, <1>1 DEF EntryMeans, GivenBy
<1>3. ASSUME NEW op, NEW p \in Paths, Exists(op, p) PROVE QueryMeans' /\ AnswerMeans'
  <2>1. cwd' = cwd
    BY <1>3 DEF Exists
  <2>2. CASE Opens(AbsolutePath(p), {"dir", "file"})
    <3>1. /\ query' = [op |-> op, path |-> p, canon |-> AbsolutePath(p), root |-> root]
          /\ answer' = NoCall
      BY <1>3, <2>2 DEF Exists
    <3>2. KindUnder(root, PathFrom(cwd, p)) \in {"dir", "file"}
      BY <2>2, KindIs DEF Opens
    <3>3. query'.canon = PathFrom(cwd, p) /\ query'.path = p /\ query'.root = root
      BY <3>1, KindIs
    <3>4. QED
      BY <2>1, <3>1, <3>2, <3>3 DEF QueryMeans, AnswerMeans
  <2>3. CASE ~Opens(AbsolutePath(p), {"dir", "file"})
    <3>1. /\ query' = NoCall
          /\ answer' = IF op = "stat" THEN Stated(p, "none", ~Starved) ELSE NoCall
      BY <1>3, <2>3 DEF Exists
    <3>2. ASSUME ~Starved PROVE KindUnder(root, PathFrom(cwd, p)) = "none"
      BY <2>3, <3>2, KindIs, KindsAre DEF Opens, Starved
    <3>3. CASE op = "stat"
      <4>1. /\ answer'.fair = ~Starved /\ answer'.said = "none" /\ answer'.root = root
            /\ answer'.cwd = cwd /\ answer'.path = p
        BY <3>1, <3>3 DEF Stated
      <4>2. QED
        BY <3>1, <3>2, <4>1 DEF QueryMeans, AnswerMeans, SaidOf
    <3>4. QED
      BY <3>1, <3>3 DEF QueryMeans, AnswerMeans
  <2>4. QED
    BY <2>2, <2>3
<1>4. ASSUME ChangeDir PROVE QueryMeans' /\ AnswerMeans'
  BY <1>4 DEF ChangeDir, QueryMeans, AnswerMeans
<1>5. ASSUME Stat PROVE QueryMeans' /\ AnswerMeans'
  <2> DEFINE here == KindUnder(root, query.canon)
             said == IF StatIsDirectory THEN "dir" ELSE "file"
             fair == ~Starved /\ root = query.root
  <2>1. /\ query # NoCall /\ query' = NoCall
        /\ answer' = Stated(query.path, said, fair)
    BY <1>5 DEF Stat
  <2>2. query.canon = PathFrom(cwd, query.path) /\ KindUnder(query.root, query.canon) \in {"dir", "file"}
    BY <1>0, <2>1 DEF QueryMeans
  <2>3. SaidOf(said, fair, root, PathFrom(cwd, query.path))
    <3>1. fair => here \in {"dir", "file"}
      BY <2>2
    <3>2. StatIsDirectory => here = "dir"
      BY KindIs DEF StatIsDirectory, Opens
    <3>3. fair /\ here = "dir" /\ Roomy(query.canon) => StatIsDirectory
      BY KindIs DEF StatIsDirectory, Opens, Starved
    <3>4. QED
      BY <2>2, <3>1, <3>2, <3>3 DEF SaidOf
  <2> HIDE DEF said, fair
  <2>4. /\ answer'.fair = fair /\ answer'.said = said /\ answer'.root = root
        /\ answer'.cwd = cwd /\ answer'.path = query.path
    BY <2>1 DEF Stated
  <2>5. QED
    BY <2>1, <2>3, <2>4 DEF QueryMeans, AnswerMeans
<1>6. QueryMeans' /\ AnswerMeans'
  BY <1>3, <1>4, <1>5
<1>7. QED
  BY <1>0, <1>1, <1>2, <1>6 DEF ListingInv

\* A step that leaves the directory, the question and the other streams alone.
LEMMA ListingKept ==
  ASSUME ListingInv, root' \in BOOLEAN, cwd' = cwd, query' = query, answer' = NoCall,
         DOMAIN dirs' = Streams, NEW s, \A t \in Streams : t # s => dirs'[t] = dirs[t],
         s \in Streams => EntryMeans(dirs'[s])
  PROVE  ListingInv'
<1>1. QueryMeans' /\ AnswerMeans'
  BY DEF ListingInv, QueryMeans, AnswerMeans
<1>2. ASSUME NEW t \in Streams PROVE EntryMeans(dirs[t])'
  <2>1. EntryMeans(dirs'[t])
    BY DEF ListingInv
  <2>2. QED
    BY <2>1 DEF EntryMeans, GivenBy
<1>3. QED
  BY <1>1, <1>2 DEF ListingInv

\* Streams keep it.
LEMMA ListingStep ==
  ASSUME ListingInv, NEW s \in Streams,
         \/ \E p \in Paths : Opendir(s, p)
         \/ \E e \in DOMAIN Tree \cup DOMAIN Elsewhere : Readdir(s, e)
         \/ Closedir(s)
  PROVE  ListingInv'
<1>0. root \in BOOLEAN /\ DOMAIN dirs = Streams /\ EntryMeans(dirs[s])
  BY DEF ListingInv
<1>1. ASSUME NEW p \in Paths, Opendir(s, p) PROVE ListingInv'
  <2> DEFINE d == [fd |-> Lowest(file, 0), path |-> AbsolutePath(p), seen |-> {}, entry |-> NoEntry,
                   root |-> root]
  <2>1. /\ root' = root /\ cwd' = cwd /\ query' = query /\ answer' = NoCall
        /\ dirs' = [dirs EXCEPT ![s] = d]
    BY <1>1 DEF Opendir
  <2>2. EntryMeans(d)
    BY DEF EntryMeans
  <2> HIDE DEF d
  <2>3. DOMAIN dirs' = Streams /\ dirs'[s] = d /\ \A t \in Streams : t # s => dirs'[t] = dirs[t]
    BY <1>0, <2>1
  <2>4. QED
    BY <1>0, <2>1, <2>2, <2>3, ListingKept
<1>2. ASSUME NEW e \in DOMAIN Tree \cup DOMAIN Elsewhere, Readdir(s, e) PROVE ListingInv'
  <2> DEFINE given == [name |-> Last(e), type |-> Kind(e)]
  <2>1. /\ root' = root /\ cwd' = cwd /\ query' = query /\ answer' = NoCall
        /\ root = dirs[s].root /\ e \in Entries(dirs[s].path)
        /\ dirs' = [dirs EXCEPT ![s].seen = @ \cup {e}, ![s].entry = given]
    BY <1>2 DEF Readdir, vars
  <2>2. given = [name |-> Last(e), type |-> KindUnder(dirs[s].root, e)]
    BY <2>1, KindIs
  <2> HIDE DEF given
  <2>3. DOMAIN dirs[s] = {"fd", "path", "seen", "entry", "root"}
    BY <1>0 DEF EntryMeans
  <2>4. /\ DOMAIN dirs' = Streams /\ \A t \in Streams : t # s => dirs'[t] = dirs[t]
        /\ DOMAIN dirs'[s] = {"fd", "path", "seen", "entry", "root"}
        /\ dirs'[s].entry = given /\ dirs'[s].path = dirs[s].path /\ dirs'[s].root = dirs[s].root
    BY <1>0, <2>1, <2>3
  <2>5. Len(e) = Len(dirs[s].path) + 1 /\ Front(e) = dirs[s].path
    BY <2>1 DEF Entries
  <2>6. GivenBy(dirs'[s], e)
    BY <2>2, <2>4, <2>5 DEF GivenBy
  <2>7. EntryMeans(dirs'[s])
    BY <1>2, <2>4, <2>6 DEF EntryMeans
  <2>8. QED
    BY <1>0, <2>1, <2>4, <2>7, ListingKept
<1>3. ASSUME Closedir(s) PROVE ListingInv'
  <2>1. /\ root' = root /\ cwd' = cwd /\ query' = query /\ answer' = NoCall
        /\ dirs' = [dirs EXCEPT ![s] = NoDir]
    BY <1>3 DEF Closedir
  <2>2. EntryMeans(NoDir)
    BY DEF EntryMeans, NoDir
  <2>3. DOMAIN dirs' = Streams /\ dirs'[s] = NoDir /\ \A t \in Streams : t # s => dirs'[t] = dirs[t]
    BY <1>0, <2>1
  <2>4. QED
    BY <1>0, <2>1, <2>2, <2>3, ListingKept
<1>4. QED
  BY <1>1, <1>2, <1>3

\* ListingInv is inductive.
LEMMA ListingInductive == ListingInv /\ [FilesNext]_allVars => ListingInv'
<1>1. SUFFICES ASSUME ListingInv, [FilesNext]_allVars PROVE ListingInv'
  OBVIOUS
<1>2. CASE Next /\ answer' = NoCall /\ UNCHANGED <<cwd, dirs, query>>
  <2>1. root \in BOOLEAN /\ DOMAIN dirs = Streams /\ \A s \in Streams : EntryMeans(dirs[s])
    BY <1>1 DEF ListingInv
  <2>2. root' \in BOOLEAN
    BY <1>2, <2>1 DEF Next, Constructor, Open, OpenRenderNode, Close, Escape, TitleOpens, TitleCloses
  <2>3. QED
    BY <1>1, <1>2, <2>1, <2>2, ListingKept
<1>3. CASE UNCHANGED allVars
  <2>1. UNCHANGED <<root, cwd, dirs, query, answer>>
    BY <1>3 DEF allVars, vars, filesVars
  <2>2. QED
    BY <1>1, <2>1 DEF ListingInv, QueryMeans, AnswerMeans, EntryMeans, GivenBy
<1>4. QED
  BY <1>1, <1>2, <1>3, QueryStep, ListingStep DEF FilesNext

\* And holds at the start.
LEMMA ListingStart == FilesInit => ListingInv
<1>1. SUFFICES ASSUME FilesInit PROVE ListingInv
  OBVIOUS
<1>2. root \in BOOLEAN /\ dirs = [s \in Streams |-> NoDir] /\ query = NoCall /\ answer = NoCall
  BY <1>1 DEF FilesInit, Init
<1>3. EntryMeans(NoDir)
  BY DEF EntryMeans, NoDir
<1>4. QED
  BY <1>2, <1>3 DEF ListingInv, QueryMeans, AnswerMeans

\* What readdir lists, stat finds from the directory it was listed in, and as the same
\* kind of thing, for any tree, any paths and any number of descriptors and streams
\* (readdir, stat, chdir and oops_mesa_absolute_path).  A directory whose name leaves no
\* room for "/." is called a file; answers that went without a descriptor, or across a
\* change of root, may be wrong but never call a file a directory.
THEOREM ListedIsFound == FilesSpec => []ListingResolves
<1>1. FilesSpec => []ListingInv
  BY ListingStart, ListingInductive, PTL DEF FilesSpec
<1>2. QED
  BY <1>1, ListingMeans, PTL

----------------------------------------------------------------------------
\* The environment table.

Chars == STRING \cup {"="}

\* What a block of the table holds, byte by byte.
LEMMA TextIs ==
  ASSUME NEW m \in Seq(Chars), NEW v \in Seq(Chars)
  PROVE  /\ Text(m, v) \in Seq(Chars)
         /\ Len(Text(m, v)) = Len(m) + 1 + Len(v)
         /\ \A k \in 1 .. Len(m) : Text(m, v)[k] = m[k]
         /\ Text(m, v)[Len(m) + 1] = "="
         /\ \A k \in 1 .. Len(v) : Text(m, v)[Len(m) + 1 + k] = v[k]
<1>1. <<"=">> \in Seq(Chars) /\ Len(<<"=">>) = 1 /\ <<"=">>[1] = "="
  BY DEF Chars
<1>2. /\ m \o <<"=">> \in Seq(Chars) /\ Len(m \o <<"=">>) = Len(m) + 1
      /\ \A k \in 1 .. Len(m) : (m \o <<"=">>)[k] = m[k]
      /\ (m \o <<"=">>)[Len(m) + 1] = "="
  BY <1>1
<1> DEFINE a == m \o <<"=">>
<1> HIDE DEF a
<1>3. /\ a \o v \in Seq(Chars) /\ Len(a \o v) = Len(a) + Len(v)
      /\ \A k \in 1 .. Len(a) : (a \o v)[k] = a[k]
      /\ \A k \in 1 .. Len(v) : (a \o v)[Len(a) + k] = v[k]
  BY <1>2 DEF a
<1>4. Len(m) \in Nat /\ Len(v) \in Nat /\ Len(a) = Len(m) + 1
  BY <1>2 DEF a
<1>5. Text(m, v) = a \o v
  BY DEF Text, a
<1>6. QED
  BY <1>2, <1>3, <1>4, <1>5 DEF a

\* An entry answers to exactly one name, also when a name begins or ends another.
LEMMA EntryIs ==
  ASSUME NEW m \in Seq(Chars), NEW n \in Seq(Chars), NEW v \in Seq(Chars), NameOk(m), NameOk(n)
  PROVE  IsEntry(Text(m, v), n) <=> m = n
<1> DEFINE t == Text(m, v)
<1>1. /\ t \in Seq(Chars) /\ Len(t) = Len(m) + 1 + Len(v)
      /\ \A k \in 1 .. Len(m) : t[k] = m[k]
      /\ t[Len(m) + 1] = "="
  BY TextIs
<1>2. Len(m) \in Nat /\ Len(n) \in Nat /\ Len(v) \in Nat
  OBVIOUS
<1> HIDE DEF t
<1>3. Len(t) > Len(n) => /\ SubSeq(t, 1, Len(n)) \in Seq(Chars)
                         /\ Len(SubSeq(t, 1, Len(n))) = Len(n)
                         /\ \A k \in 1 .. Len(n) : SubSeq(t, 1, Len(n))[k] = t[k]
  BY <1>1, <1>2
<1>4. ASSUME IsEntry(t, n) PROVE m = n
  <2>1. Len(t) > Len(n) /\ t[Len(n) + 1] = "=" /\ \A k \in 1 .. Len(n) : t[k] = n[k]
    BY <1>3, <1>4 DEF IsEntry
  <2>2. ~(Len(n) < Len(m))
    <3> SUFFICES ASSUME Len(n) < Len(m) PROVE FALSE
      OBVIOUS
    <3>1. Len(n) + 1 \in 1 .. Len(m)
      BY <1>2
    <3>2. m[Len(n) + 1] = "="
      BY <1>1, <2>1, <3>1
    <3>3. QED
      BY <3>1, <3>2 DEF NameOk
  <2>3. ~(Len(m) < Len(n))
    <3> SUFFICES ASSUME Len(m) < Len(n) PROVE FALSE
      OBVIOUS
    <3>1. Len(m) + 1 \in 1 .. Len(n)
      BY <1>2
    <3>2. n[Len(m) + 1] = "="
      BY <1>1, <2>1, <3>1
    <3>3. QED
      BY <3>1, <3>2 DEF NameOk
  <2>4. Len(m) = Len(n)
    BY <1>2, <2>2, <2>3
  <2>5. \A k \in 1 .. Len(m) : m[k] = n[k]
    BY <1>1, <2>1, <2>4
  <2>6. QED
    BY <2>4, <2>5
<1>5. ASSUME m = n PROVE IsEntry(t, n)
  <2>1. Len(t) > Len(n)
    BY <1>1, <1>2, <1>5
  <2>2. \A k \in 1 .. Len(n) : SubSeq(t, 1, Len(n))[k] = n[k]
    BY <1>1, <1>3, <1>5, <2>1
  <2>3. SubSeq(t, 1, Len(n)) = n
    BY <1>3, <2>1, <2>2
  <2>4. QED
    BY <1>1, <1>5, <2>1, <2>3 DEF IsEntry
<1>6. QED
  BY <1>4, <1>5 DEF t

\* What getenv points at is the value.
LEMMA ValueIs ==
  ASSUME NEW m \in Seq(Chars), NEW v \in Seq(Chars)
  PROVE  SubSeq(Text(m, v), Len(m) + 2, Len(Text(m, v))) = v
<1> DEFINE t == Text(m, v)
           u == SubSeq(t, Len(m) + 2, Len(t))
<1>1. /\ t \in Seq(Chars) /\ Len(t) = Len(m) + 1 + Len(v)
      /\ \A k \in 1 .. Len(v) : t[Len(m) + 1 + k] = v[k]
  BY TextIs
<1>2. Len(m) \in Nat /\ Len(v) \in Nat
  OBVIOUS
<1> HIDE DEF t
<1>3. /\ u \in Seq(Chars) /\ Len(u) = Len(v)
      /\ \A k \in 1 .. Len(v) : u[k] = t[(Len(m) + 2) + k - 1]
  BY <1>1, <1>2
<1>4. \A k \in 1 .. Len(v) : u[k] = v[k]
  BY <1>1, <1>2, <1>3
<1> HIDE DEF u
<1>5. u = v
  BY <1>3, <1>4
<1>6. QED
  BY <1>5 DEF t, u

\* The names POSIX accepts, and the slots that hold some entry.
GoodNames == {n \in Names : NameOk(n)}
Filled == {i \in EnvSlots : env[i] # 0}

EnvTypeOK ==
  /\ env \in [EnvSlots -> 0 .. MaxBlocks]
  /\ block \in [Blocks -> Seq(Chars)]
  /\ want \in [Names -> Values \cup {Unset}]
  /\ ptr \in [Names -> 0 .. MaxBlocks]

\* The blocks allocated are those in the table, each in one slot.
TableOwns ==
  /\ \A b \in Blocks : block[b] # <<>> <=> \E i \in Filled : env[i] = b
  /\ \A i, j \in Filled : env[i] = env[j] => i = j

\* The table is the map POSIX has: a slot holds the value of a name that is set, and a
\* name that is set has exactly one slot.
TableIsMap ==
  /\ \A i \in Filled : \E n \in GoodNames :
       want[n] # Unset /\ block[env[i]] = Text(n, want[n])
  /\ \A n \in GoodNames : want[n] # Unset =>
       \E i \in Filled : block[env[i]] = Text(n, want[n])
  /\ \A n \in GoodNames : \A i, j \in Matching(n) : i = j
  /\ \A n \in Names : n \notin GoodNames => want[n] = Unset

\* A pointer getenv gave still points at its variable.
PointersGood ==
  \A n \in Names : ptr[n] # 0 =>
    n \in GoodNames /\ want[n] # Unset /\ block[ptr[n]] = Text(n, want[n])

\* BlocksHeld and EnvReadsBack say what a caller sees; that no name has two slots, and
\* that every slot's text is a variable, is what keeps them through the next call.
EnvInv == EnvTypeOK /\ TableOwns /\ TableIsMap /\ PointersGood

\* Names and values are texts, and Unset is neither empty nor a value.
LEMMA TextTypes ==
  /\ \A n \in Names : n \in Seq(Chars)
  /\ \A v \in Values : v \in Seq(Chars) /\ v # Unset
  /\ \A n \in GoodNames : n \in Names /\ n \in Seq(Chars) /\ NameOk(n)
<1>1. Seq(STRING) \subseteq Seq(Chars)
  BY DEF Chars
<1>2. QED
  BY <1>1, EnvAssumption DEF GoodNames, Unset

\* The first of the slots found is one of them.
LEMMA FirstIs ==
  ASSUME NEW S \in SUBSET EnvSlots, S # {}
  PROVE  First(S) \in S
<1>1. S \in SUBSET Nat
  BY EnvAssumption DEF EnvSlots
<1>2. \E m \in S : \A k \in S : m <= k
  BY <1>1, LeastNatural
<1>3. QED
  BY <1>2 DEF First

\* A slot is found under a name exactly when its text is that variable's.
LEMMA MatchIs ==
  ASSUME EnvInv, NEW n \in GoodNames
  PROVE  /\ \A i \in Matching(n) : i \in Filled /\ want[n] # Unset
                                   /\ block[env[i]] = Text(n, want[n])
         /\ \A i \in Filled : block[env[i]] = Text(n, want[n]) /\ want[n] # Unset
                                => i \in Matching(n)
         /\ want[n] # Unset <=> Matching(n) # {}
<1>1. n \in Seq(Chars) /\ NameOk(n) /\ n \in Names
  BY TextTypes
<1>2. ASSUME NEW i \in Matching(n)
      PROVE  i \in Filled /\ want[n] # Unset /\ block[env[i]] = Text(n, want[n])
  <2>1. i \in Filled /\ IsEntry(block[env[i]], n)
    BY DEF Matching, Filled
  <2>2. PICK m \in GoodNames : want[m] # Unset /\ block[env[i]] = Text(m, want[m])
    BY <2>1 DEF EnvInv, TableIsMap
  <2>3. m \in Seq(Chars) /\ NameOk(m) /\ want[m] \in Seq(Chars)
    BY <2>2, TextTypes DEF EnvInv, EnvTypeOK
  <2>4. m = n
    BY <1>1, <2>1, <2>2, <2>3, EntryIs
  <2>5. QED
    BY <2>1, <2>2, <2>4
<1>3. ASSUME NEW i \in Filled, block[env[i]] = Text(n, want[n]), want[n] # Unset
      PROVE  i \in Matching(n)
  <2>1. want[n] \in Seq(Chars)
    BY <1>1, <1>3, TextTypes DEF EnvInv, EnvTypeOK
  <2>2. IsEntry(Text(n, want[n]), n)
    BY <1>1, <2>1, EntryIs
  <2>3. QED
    BY <1>3, <2>2 DEF Matching, Filled
<1>4. want[n] # Unset => Matching(n) # {}
  BY <1>3 DEF EnvInv, TableIsMap
<1>5. QED
  BY <1>2, <1>3, <1>4

\* The invariant is what the two properties say, and more.
LEMMA EnvMeans == EnvInv => BlocksHeld /\ EnvReadsBack
<1> SUFFICES ASSUME EnvInv PROVE BlocksHeld /\ EnvReadsBack
  OBVIOUS
<1>1. BlocksHeld
  <2>1. \A i \in Filled : env[i] \in Blocks
    BY DEF EnvInv, EnvTypeOK, Filled, Blocks
  <2>2. {b \in Blocks : block[b] # <<>>} = {env[i] : i \in Filled}
    BY <2>1 DEF EnvInv, TableOwns
  <2>3. \A i, j \in EnvSlots : env[i] # 0 /\ env[i] = env[j] => i = j
    BY DEF EnvInv, TableOwns, Filled
  <2>4. \A n \in Names : ptr[n] # 0 => block[ptr[n]] = Text(n, want[n])
    BY DEF EnvInv, PointersGood
  <2>5. QED
    BY <2>2, <2>3, <2>4 DEF BlocksHeld, Filled
<1>2. EnvReadsBack
  <2> SUFFICES ASSUME NEW n \in GoodNames PROVE Found(n) = want[n]
    BY DEF EnvReadsBack, GoodNames
  <2>1. CASE Matching(n) = {}
    BY <2>1, MatchIs DEF Found
  <2>2. CASE Matching(n) # {}
    <3> DEFINE i == First(Matching(n))
               t == block[env[i]]
    <3>1. i \in Matching(n)
      <4>1. Matching(n) \in SUBSET EnvSlots
        BY DEF Matching
      <4>2. QED
        BY <2>2, <4>1, FirstIs
    <3>2. want[n] # Unset /\ t = Text(n, want[n])
      BY <3>1, MatchIs
    <3>3. n \in Seq(Chars) /\ want[n] \in Seq(Chars)
      BY <3>2, TextTypes DEF EnvInv, EnvTypeOK
    <3>4. SubSeq(Text(n, want[n]), Len(n) + 2, Len(Text(n, want[n]))) = want[n]
      BY <3>3, ValueIs
    <3>5. Found(n) = SubSeq(t, Len(n) + 2, Len(t))
      BY <2>2 DEF Found
    <3>6. QED
      BY <3>2, <3>4, <3>5
  <2>3. QED
    BY <2>1, <2>2
<1>3. QED
  BY <1>1, <1>2

\* Setting and unsetting a name touches one slot: its own, or an empty one.
TheSlot(name, s) ==
  /\ s \in EnvSlots
  /\ Matching(name) \subseteq {s}
  /\ s \in Filled => s \in Matching(name)

\* The entries elsewhere are other names', in other blocks.
LEMMA OthersApart ==
  ASSUME EnvInv, NEW name \in GoodNames, NEW s, TheSlot(name, s)
  PROVE  /\ \A i \in Filled \ {s} : /\ ~IsEntry(block[env[i]], name)
                                    /\ \E n \in GoodNames \ {name} :
                                         want[n] # Unset /\ block[env[i]] = Text(n, want[n])
         /\ \A n \in GoodNames \ {name} : Matching(n) \subseteq Filled \ {s}
         /\ \A n \in GoodNames \ {name} : want[n] # Unset =>
              \E i \in Filled \ {s} : block[env[i]] = Text(n, want[n])
         /\ \A n \in Names \ {name} : ptr[n] # 0 => ptr[n] \in Blocks /\ ptr[n] # env[s]
<1>1. \A n \in GoodNames \ {name} : Matching(n) \subseteq Filled \ {s}
  <2> SUFFICES ASSUME NEW n \in GoodNames, n # name, NEW i \in Matching(n)
               PROVE  i \in Filled /\ i # s
    OBVIOUS
  <2>1. i \in Filled /\ want[n] # Unset /\ block[env[i]] = Text(n, want[n])
    BY MatchIs
  <2>2. ASSUME i = s PROVE FALSE
    <3>1. i \in Matching(name)
      BY <2>1, <2>2 DEF TheSlot
    <3>2. IsEntry(Text(n, want[n]), name)
      BY <2>1, <3>1 DEF Matching
    <3>3. want[n] \in Seq(Chars)
      BY <2>1, TextTypes DEF EnvInv, EnvTypeOK
    <3>4. n = name
      BY <3>2, <3>3, TextTypes, EntryIs
    <3>5. QED
      BY <3>4
  <2>3. QED
    BY <2>1, <2>2
<1>2. ASSUME NEW i \in Filled \ {s}
      PROVE  /\ ~IsEntry(block[env[i]], name)
             /\ \E n \in GoodNames \ {name} : want[n] # Unset /\ block[env[i]] = Text(n, want[n])
  <2>1. i \notin Matching(name)
    BY DEF TheSlot
  <2>2. ~IsEntry(block[env[i]], name)
    BY <2>1 DEF Matching, Filled
  <2>3. PICK n \in GoodNames : want[n] # Unset /\ block[env[i]] = Text(n, want[n])
    BY DEF EnvInv, TableIsMap
  <2>4. n # name
    BY <2>1, <2>3, MatchIs
  <2>5. QED
    BY <2>2, <2>3, <2>4
<1>3. ASSUME NEW n \in GoodNames \ {name}, want[n] # Unset
      PROVE  \E i \in Filled \ {s} : block[env[i]] = Text(n, want[n])
  <2>1. PICK i \in Matching(n) : TRUE
    BY <1>3, MatchIs
  <2>2. block[env[i]] = Text(n, want[n])
    BY <2>1, MatchIs
  <2>3. QED
    BY <1>1, <2>1, <2>2
<1>4. ASSUME NEW n \in Names \ {name}, ptr[n] # 0
      PROVE  ptr[n] \in Blocks /\ ptr[n] # env[s]
  <2>1. ptr[n] \in Blocks
    BY <1>4 DEF EnvInv, EnvTypeOK, Blocks
  <2>2. n \in GoodNames /\ want[n] # Unset /\ block[ptr[n]] = Text(n, want[n])
    BY <1>4 DEF EnvInv, PointersGood
  <2>3. ASSUME ptr[n] = env[s] PROVE FALSE
    <3>1. s \in Filled
      BY <2>1, <2>3, <1>4 DEF Filled, TheSlot
    <3>2. s \in Matching(n)
      BY <2>2, <2>3, <3>1, MatchIs
    <3>3. QED
      BY <1>1, <2>2, <3>2
  <2>4. QED
    BY <2>1, <2>3
<1>5. QED
  BY <1>1, <1>2, <1>3, <1>4

\* The text of an entry is never empty, so an allocated block never looks free.
LEMMA TextFilled ==
  ASSUME NEW m \in Seq(Chars), NEW v \in Seq(Chars)
  PROVE  Text(m, v) # <<>>
<1>1. Len(Text(m, v)) = Len(m) + 1 + Len(v)
  BY TextIs
<1>2. Len(m) \in Nat /\ Len(v) \in Nat /\ Len(<<>>) = 0
  OBVIOUS
<1>3. QED
  BY <1>1, <1>2

\* What getenv does is only to remember the block.
LEMMA GetenvStep ==
  ASSUME EnvInv, NEW name \in Names, Getenv(name)
  PROVE  EnvInv'
<1> DEFINE p == IF Matching(name) = {} THEN 0 ELSE env[First(Matching(name))]
<1>1. /\ ptr' = [ptr EXCEPT ![name] = p]
      /\ env' = env /\ block' = block /\ want' = want
      /\ name \in GoodNames
  BY DEF Getenv, GoodNames
<1>2. p = 0 \/ (p \in Blocks /\ want[name] # Unset /\ block[p] = Text(name, want[name]))
  <2>1. CASE Matching(name) = {}
    BY <2>1
  <2>2. CASE Matching(name) # {}
    <3>1. First(Matching(name)) \in Matching(name)
      <4>1. Matching(name) \in SUBSET EnvSlots
        BY DEF Matching
      <4>2. QED
        BY <2>2, <4>1, FirstIs
    <3>2. /\ First(Matching(name)) \in Filled /\ want[name] # Unset
          /\ block[env[First(Matching(name))]] = Text(name, want[name])
      BY <1>1, <3>1, MatchIs
    <3>3. QED
      BY <2>2, <3>2 DEF Filled, EnvInv, EnvTypeOK, Blocks
  <2>3. QED
    BY <2>1, <2>2
<1> HIDE DEF p
<1>3. p \in 0 .. MaxBlocks
  BY <1>2, EnvAssumption DEF Blocks
<1>4. EnvTypeOK'
  BY <1>1, <1>3 DEF EnvInv, EnvTypeOK
<1>5. TableOwns'
  BY <1>1 DEF EnvInv, TableOwns, Filled
<1>6. TableIsMap'
  BY <1>1 DEF EnvInv, TableIsMap, Filled, Matching
<1>7. PointersGood'
  <2> SUFFICES ASSUME NEW n \in Names, ptr'[n] # 0
               PROVE  n \in GoodNames /\ want[n] # Unset /\ block[ptr'[n]] = Text(n, want[n])
    BY <1>1 DEF PointersGood
  <2>1. CASE n = name
    BY <1>1, <1>2, <2>1 DEF EnvInv, EnvTypeOK
  <2>2. CASE n # name
    BY <1>1, <2>2 DEF EnvInv, EnvTypeOK, PointersGood
  <2>3. QED
    BY <2>1, <2>2
<1>8. QED
  BY <1>4, <1>5, <1>6, <1>7 DEF EnvInv

\* setenv: whichever way the new block gets into the table, the variable is set.
LEMMA SetenvStep ==
  ASSUME EnvInv, NEW name \in Names, NEW value \in Values, NEW overwrite \in BOOLEAN,
         Setenv(name, value, overwrite)
  PROVE  EnvInv'
<1> DEFINE s == IF Matching(name) # {} THEN First(Matching(name)) ELSE First(Empty)
           x == Text(name, value)
<1>1. name \in GoodNames /\ (Matching(name) # {} \/ Empty # {}) /\ ~KeepsExisting(name, overwrite)
  BY DEF Setenv, GoodNames
<1>2. TheSlot(name, s)
  <2>1. Matching(name) \in SUBSET EnvSlots /\ Empty \in SUBSET EnvSlots
    BY DEF Matching, Empty
  <2>2. CASE Matching(name) # {}
    <3>1. s \in Matching(name)
      BY <2>1, <2>2, FirstIs
    <3>2. Matching(name) \subseteq {s}
      BY <1>1, <3>1 DEF EnvInv, TableIsMap
    <3>3. QED
      BY <2>1, <3>1, <3>2 DEF TheSlot
  <2>3. CASE Matching(name) = {}
    <3>1. s \in Empty
      BY <1>1, <2>1, <2>3, FirstIs
    <3>2. QED
      BY <2>3, <3>1 DEF TheSlot, Empty, Filled
  <2>4. QED
    BY <2>2, <2>3
<1>3. PICK b \in Blocks : /\ block[b] = <<>>
                          /\ block' = Freed(b, x, env[s])
                          /\ env' = [env EXCEPT ![s] = b]
  BY DEF Setenv, Allocated
<1>4. want' = [want EXCEPT ![name] = value] /\ ptr' = [ptr EXCEPT ![name] = 0]
  <2>1. overwrite \/ want[name] = Unset
    BY <1>1, MatchIs DEF KeepsExisting
  <2>2. QED
    BY <2>1 DEF Setenv
<1>5. name \in Seq(Chars) /\ value \in Seq(Chars) /\ value # Unset /\ NameOk(name)
  BY <1>1, TextTypes
<1>6. x \in Seq(Chars) /\ x # <<>>
  <2>1. x \in Seq(Chars)
    BY <1>5, TextIs
  <2>2. x # <<>>
    BY <1>5, TextFilled
  <2>3. QED
    BY <2>1, <2>2
<1>7. \A n \in GoodNames : IsEntry(x, n) <=> n = name
  BY <1>5, TextTypes, EntryIs
<1>8. b # 0 /\ b # env[s] /\ s \in EnvSlots
  <2>1. b # 0
    BY DEF Blocks
  <2>2. env[s] # 0 => block[env[s]] # <<>>
    BY <1>2 DEF EnvInv, TableOwns, TheSlot, Filled, EnvTypeOK, Blocks
  <2>3. QED
    BY <1>2, <1>3, <2>1, <2>2 DEF TheSlot
<1> HIDE DEF s, x
<1>9. /\ Filled' = Filled \cup {s} /\ env'[s] = b
      /\ \A i \in Filled \ {s} : env'[i] = env[i]
  BY <1>3, <1>8 DEF Filled, EnvInv, EnvTypeOK
<1>10. /\ block'[b] = x
       /\ \A c \in Blocks : c # b /\ c # env[s] => block'[c] = block[c]
       /\ env[s] \in Blocks => block'[env[s]] = <<>>
  BY <1>3, <1>8 DEF Freed
<1>11. \A i \in Filled \ {s} : /\ env[i] \in Blocks /\ env[i] # b /\ env[i] # env[s]
                               /\ block'[env'[i]] = block[env[i]]
  <2> SUFFICES ASSUME NEW i \in Filled \ {s}
               PROVE  /\ env[i] \in Blocks /\ env[i] # b /\ env[i] # env[s]
                      /\ block'[env'[i]] = block[env[i]]
    OBVIOUS
  <2>1. env[i] \in Blocks
    BY DEF Filled, EnvInv, EnvTypeOK, Blocks
  <2>2. block[env[i]] # <<>>
    BY <2>1 DEF EnvInv, TableOwns
  <2>3. env[i] # b
    BY <1>3, <2>2
  <2>4. env[i] # env[s]
    BY <1>8 DEF EnvInv, TableOwns, Filled
  <2>5. QED
    BY <1>9, <1>10, <2>1, <2>3, <2>4
<1>12. block'[env'[s]] = x
  BY <1>9, <1>10
<1>13. EnvTypeOK'
  <2>1. env' \in [EnvSlots -> 0 .. MaxBlocks]
    BY <1>3, <1>8 DEF EnvInv, EnvTypeOK, Blocks
  <2>2. block' \in [Blocks -> Seq(Chars)]
    BY <1>3, <1>6 DEF EnvInv, EnvTypeOK, Freed
  <2>3. want' \in [Names -> Values \cup {Unset}] /\ ptr' \in [Names -> 0 .. MaxBlocks]
    BY <1>4, EnvAssumption DEF EnvInv, EnvTypeOK
  <2>4. QED
    BY <2>1, <2>2, <2>3 DEF EnvTypeOK
<1>14. TableOwns'
  <2>1. ASSUME NEW c \in Blocks PROVE block'[c] # <<>> <=> \E i \in Filled' : env'[i] = c
    <3>1. CASE c = b
      BY <3>1, <1>6, <1>9, <1>10
    <3>2. CASE c = env[s]
      BY <3>2, <1>8, <1>9, <1>10, <1>11
    <3>3. CASE c # b /\ c # env[s]
      BY <3>3, <1>9, <1>10, <1>11 DEF EnvInv, TableOwns
    <3>4. QED
      BY <3>1, <3>2, <3>3
  <2>2. \A i, j \in Filled' : env'[i] = env'[j] => i = j
    BY <1>9, <1>11 DEF EnvInv, TableOwns
  <2>3. QED
    BY <2>1, <2>2 DEF TableOwns
<1>15. /\ want'[name] = value /\ ptr'[name] = 0
       /\ \A n \in Names \ {name} : want'[n] = want[n] /\ ptr'[n] = ptr[n]
       /\ \A n \in GoodNames : n \in Names
  BY <1>4, TextTypes DEF EnvInv, EnvTypeOK
<1>16. TableIsMap'
  <2>1. ASSUME NEW i \in Filled'
        PROVE  \E n \in GoodNames : want'[n] # Unset /\ block'[env'[i]] = Text(n, want'[n])
    <3>1. CASE i = s
      BY <3>1, <1>1, <1>5, <1>12, <1>15 DEF x
    <3>2. CASE i # s
      <4>1. i \in Filled \ {s}
        BY <1>9, <3>2
      <4>2. PICK n \in GoodNames \ {name} : want[n] # Unset /\ block[env[i]] = Text(n, want[n])
        BY <1>1, <1>2, <4>1, OthersApart
      <4>3. QED
        BY <4>1, <4>2, <1>11, <1>15
    <3>3. QED
      BY <3>1, <3>2
  <2>2. ASSUME NEW n \in GoodNames, want'[n] # Unset
        PROVE  \E i \in Filled' : block'[env'[i]] = Text(n, want'[n])
    <3>1. CASE n = name
      BY <3>1, <1>9, <1>12, <1>15 DEF x
    <3>2. CASE n # name
      <4>1. want'[n] = want[n] /\ want[n] # Unset
        BY <2>2, <3>2, <1>15
      <4>2. PICK i \in Filled \ {s} : block[env[i]] = Text(n, want[n])
        BY <1>1, <1>2, <3>2, <4>1, OthersApart
      <4>3. QED
        BY <4>1, <4>2, <1>9, <1>11
    <3>3. QED
      BY <3>1, <3>2
  <2>3. ASSUME NEW n \in GoodNames, NEW i \in Matching(n)', NEW j \in Matching(n)'
        PROVE  i = j
    <3>0. ASSUME NEW k \in Matching(n)'
          PROVE  (n = name /\ k = s) \/ (n # name /\ k # s /\ k \in Matching(n))
      <4>1. k \in Filled' /\ IsEntry(block'[env'[k]], n)
        BY <3>0 DEF Matching, Filled
      <4>2. CASE k = s
        BY <4>1, <4>2, <1>7, <1>12
      <4>3. CASE k # s
        <5>1. k \in Filled \ {s} /\ IsEntry(block[env[k]], n)
          BY <4>1, <4>3, <1>9, <1>11
        <5>2. n # name
          BY <5>1, <1>1, <1>2, OthersApart
        <5>3. QED
          BY <4>3, <5>1, <5>2 DEF Matching, Filled
      <4>4. QED
        BY <4>2, <4>3
    <3>1. QED
      BY <3>0 DEF EnvInv, TableIsMap
  <2>4. \A n \in Names : n \notin GoodNames => want'[n] = Unset
    BY <1>1, <1>15 DEF EnvInv, TableIsMap
  <2>5. QED
    BY <2>1, <2>2, <2>3, <2>4 DEF TableIsMap, GoodNames
<1>17. PointersGood'
  <2> SUFFICES ASSUME NEW n \in Names, ptr'[n] # 0
               PROVE  n \in GoodNames /\ want'[n] # Unset /\ block'[ptr'[n]] = Text(n, want'[n])
    BY DEF PointersGood, GoodNames
  <2>1. n # name /\ ptr'[n] = ptr[n] /\ want'[n] = want[n]
    BY <1>15
  <2>2. n \in GoodNames /\ want[n] # Unset /\ block[ptr[n]] = Text(n, want[n])
    BY <2>1 DEF EnvInv, PointersGood
  <2>3. ptr[n] \in Blocks /\ ptr[n] # env[s]
    BY <1>1, <1>2, <2>1, OthersApart
  <2>4. want[n] \in Seq(Chars) /\ n \in Seq(Chars)
    BY <2>2, TextTypes DEF EnvInv, EnvTypeOK
  <2>5. ptr[n] # b
    BY <1>3, <2>2, <2>4, TextFilled
  <2>6. QED
    BY <1>10, <2>1, <2>2, <2>3, <2>5
<1>18. QED
  BY <1>13, <1>14, <1>16, <1>17 DEF EnvInv

\* unsetenv: the entry and its block go, and nothing else.
LEMMA UnsetenvStep ==
  ASSUME EnvInv, NEW name \in Names, Unsetenv(name)
  PROVE  EnvInv'
<1>1. /\ name \in GoodNames
      /\ want' = [want EXCEPT ![name] = Unset] /\ ptr' = [ptr EXCEPT ![name] = 0]
  BY DEF Unsetenv, GoodNames
<1>2. /\ want'[name] = Unset /\ ptr'[name] = 0
      /\ \A n \in Names \ {name} : want'[n] = want[n] /\ ptr'[n] = ptr[n]
      /\ \A n \in GoodNames : n \in Names
  BY <1>1, TextTypes DEF EnvInv, EnvTypeOK
<1>3. want' \in [Names -> Values \cup {Unset}] /\ ptr' \in [Names -> 0 .. MaxBlocks]
  BY <1>1, EnvAssumption DEF EnvInv, EnvTypeOK
<1>4. CASE Matching(name) = {}
  <2>1. env' = env /\ block' = block
    BY <1>4 DEF Unsetenv
  <2>2. want[name] = Unset
    BY <1>1, <1>4, MatchIs
  <2>3. want' = want
    BY <1>1, <2>2 DEF EnvInv, EnvTypeOK
  <2>4. PointersGood'
    BY <1>2, <2>1, <2>3 DEF EnvInv, PointersGood
  <2>5. EnvTypeOK' /\ TableOwns'
    BY <1>3, <2>1 DEF EnvInv, EnvTypeOK, TableOwns, Filled
  <2>6. TableIsMap'
    BY <2>1, <2>3 DEF EnvInv, TableIsMap, Filled, Matching
  <2>7. QED
    BY <2>4, <2>5, <2>6 DEF EnvInv
<1>5. CASE Matching(name) # {}
  <2> DEFINE s == First(Matching(name))
  <2>1. block' = [block EXCEPT ![env[s]] = <<>>] /\ env' = [env EXCEPT ![s] = 0]
    BY <1>5 DEF Unsetenv
  <2>2. s \in Matching(name) /\ s \in EnvSlots
    <3>1. Matching(name) \in SUBSET EnvSlots
      BY DEF Matching
    <3>2. QED
      BY <1>5, <3>1, FirstIs
  <2> HIDE DEF s
  <2>3. TheSlot(name, s)
    BY <1>1, <2>2 DEF TheSlot, EnvInv, TableIsMap
  <2>4. s \in Filled /\ env[s] \in Blocks
    BY <2>2 DEF Matching, Filled, EnvInv, EnvTypeOK, Blocks
  <2>5. /\ Filled' = Filled \ {s}
        /\ \A i \in Filled \ {s} : env'[i] = env[i]
    BY <2>1, <2>2 DEF Filled, EnvInv, EnvTypeOK
  <2>6. /\ block'[env[s]] = <<>>
        /\ \A c \in Blocks : c # env[s] => block'[c] = block[c]
    BY <2>1, <2>4 DEF EnvInv, EnvTypeOK
  <2>7. \A i \in Filled \ {s} : /\ env[i] \in Blocks /\ env[i] # env[s]
                                /\ block'[env'[i]] = block[env[i]]
    <3> SUFFICES ASSUME NEW i \in Filled \ {s}
                 PROVE  /\ env[i] \in Blocks /\ env[i] # env[s]
                        /\ block'[env'[i]] = block[env[i]]
      OBVIOUS
    <3>1. env[i] \in Blocks
      BY DEF Filled, EnvInv, EnvTypeOK, Blocks
    <3>2. env[i] # env[s]
      BY <2>4 DEF EnvInv, TableOwns
    <3>3. QED
      BY <2>5, <2>6, <3>1, <3>2
  <2>8. EnvTypeOK'
    <3>1. env' \in [EnvSlots -> 0 .. MaxBlocks]
      <4>1. 0 \in 0 .. MaxBlocks
        BY EnvAssumption
      <4>2. QED
        BY <2>1, <4>1 DEF EnvInv, EnvTypeOK
    <3>2. block' \in [Blocks -> Seq(Chars)]
      <4>1. <<>> \in Seq(Chars)
        OBVIOUS
      <4>2. QED
        BY <2>1, <4>1 DEF EnvInv, EnvTypeOK
    <3>3. QED
      BY <1>3, <3>1, <3>2 DEF EnvTypeOK
  <2>9. TableOwns'
    <3>1. ASSUME NEW c \in Blocks PROVE block'[c] # <<>> <=> \E i \in Filled' : env'[i] = c
      <4>1. CASE c = env[s]
        BY <4>1, <2>5, <2>6, <2>7
      <4>2. CASE c # env[s]
        BY <4>2, <2>5, <2>6, <2>7 DEF EnvInv, TableOwns
      <4>3. QED
        BY <4>1, <4>2
    <3>2. \A i, j \in Filled' : env'[i] = env'[j] => i = j
      BY <2>5 DEF EnvInv, TableOwns
    <3>3. QED
      BY <3>1, <3>2 DEF TableOwns
  <2>10. TableIsMap'
    <3>1. ASSUME NEW i \in Filled'
          PROVE  \E n \in GoodNames : want'[n] # Unset /\ block'[env'[i]] = Text(n, want'[n])
      <4>1. i \in Filled \ {s}
        BY <2>5
      <4>2. PICK n \in GoodNames \ {name} : want[n] # Unset /\ block[env[i]] = Text(n, want[n])
        BY <1>1, <2>3, <4>1, OthersApart
      <4>3. QED
        BY <4>1, <4>2, <2>7, <1>2
    <3>2. ASSUME NEW n \in GoodNames, want'[n] # Unset
          PROVE  \E i \in Filled' : block'[env'[i]] = Text(n, want'[n])
      <4>1. n # name /\ want'[n] = want[n] /\ want[n] # Unset
        BY <3>2, <1>2
      <4>2. PICK i \in Filled \ {s} : block[env[i]] = Text(n, want[n])
        BY <1>1, <2>3, <4>1, OthersApart
      <4>3. QED
        BY <4>1, <4>2, <2>5, <2>7
    <3>3. ASSUME NEW n \in GoodNames, NEW i \in Matching(n)', NEW j \in Matching(n)'
          PROVE  i = j
      <4>0. ASSUME NEW k \in Matching(n)' PROVE k \in Matching(n)
        <5>1. k \in Filled' /\ IsEntry(block'[env'[k]], n)
          BY <4>0 DEF Matching, Filled
        <5>2. k \in Filled /\ IsEntry(block[env[k]], n)
          BY <5>1, <2>5, <2>7
        <5>3. QED
          BY <5>2 DEF Matching, Filled
      <4>1. QED
        BY <4>0 DEF EnvInv, TableIsMap
    <3>4. \A n \in Names : n \notin GoodNames => want'[n] = Unset
      BY <1>2 DEF EnvInv, TableIsMap
    <3>5. QED
      BY <3>1, <3>2, <3>3, <3>4 DEF TableIsMap, GoodNames
  <2>11. PointersGood'
    <3> SUFFICES ASSUME NEW n \in Names, ptr'[n] # 0
                 PROVE  n \in GoodNames /\ want'[n] # Unset /\ block'[ptr'[n]] = Text(n, want'[n])
      BY DEF PointersGood, GoodNames
    <3>1. n # name /\ ptr'[n] = ptr[n] /\ want'[n] = want[n]
      BY <1>2
    <3>2. n \in GoodNames /\ want[n] # Unset /\ block[ptr[n]] = Text(n, want[n])
      BY <3>1 DEF EnvInv, PointersGood
    <3>3. ptr[n] \in Blocks /\ ptr[n] # env[s]
      BY <1>1, <2>3, <3>1, OthersApart
    <3>4. QED
      BY <2>6, <3>1, <3>2, <3>3
  <2>12. QED
    BY <2>8, <2>9, <2>10, <2>11 DEF EnvInv
<1>6. QED
  BY <1>4, <1>5

\* The invariant holds from the empty table on.
LEMMA EnvInductive ==
  /\ EnvInit => EnvInv
  /\ EnvInv /\ [EnvNext]_envVars => EnvInv'
<1>1. ASSUME EnvInit PROVE EnvInv
  <2>1. EnvTypeOK
    BY <1>1, EnvAssumption DEF EnvInit, EnvTypeOK
  <2>2. Filled = {} /\ \A n \in Names : Matching(n) = {}
    BY <1>1 DEF EnvInit, Filled, Matching
  <2>3. TableOwns /\ PointersGood
    BY <1>1, <2>2 DEF EnvInit, TableOwns, PointersGood
  <2>4. TableIsMap
    BY <1>1, <2>2, TextTypes DEF EnvInit, TableIsMap
  <2>5. QED
    BY <2>1, <2>3, <2>4 DEF EnvInv
<1>2. ASSUME EnvInv, [EnvNext]_envVars PROVE EnvInv'
  <2>1. CASE UNCHANGED envVars
    BY <1>2, <2>1 DEF envVars, EnvInv, EnvTypeOK, TableOwns, TableIsMap, PointersGood, Filled, Matching
  <2>2. CASE EnvNext
    <3>1. PICK name \in Names :
            \/ Getenv(name) \/ Unsetenv(name)
            \/ \E overwrite \in BOOLEAN : \/ SetenvNothing(name, overwrite)
                                          \/ \E value \in Values : Setenv(name, value, overwrite)
      BY <2>2 DEF EnvNext
    <3>2. ASSUME NEW overwrite \in BOOLEAN, SetenvNothing(name, overwrite) PROVE EnvInv'
      BY <2>1, <3>2 DEF SetenvNothing
    <3>3. QED
      BY <1>2, <3>1, <3>2, GetenvStep, UnsetenvStep, SetenvStep
  <2>3. QED
    BY <1>2, <2>1, <2>2
<1>3. QED
  BY <1>1, <1>2

\* For a table of any size, any supply of blocks and any names and values, "=" in a value
\* included: the blocks allocated are those in the table, none leaked and none freed twice,
\* and a pointer getenv gave is good until its own name changes.
THEOREM EnvBlocksHeld == EnvSpec => []BlocksHeld
  BY EnvInductive, EnvMeans, PTL DEF EnvSpec

\* For the same: every name reads back as it was last set, or as unset.
THEOREM EnvReads == EnvSpec => []EnvReadsBack
  BY EnvInductive, EnvMeans, PTL DEF EnvSpec

----------------------------------------------------------------------------
\* Broken-down time.

\* What there is only one quotient and remainder for.
LEMMA QuotientIs ==
  ASSUME NEW a \in Int, NEW b \in Nat \ {0}, NEW q \in Int, NEW r \in Nat, r < b, a = b * q + r
  PROVE  a \div b = q /\ a % b = r
  BY SMT

\* Division that rounds down.
LEMMA DivMod ==
  ASSUME NEW a \in Int, NEW b \in Nat \ {0}
  PROVE  a \div b \in Int /\ a % b \in Nat /\ a % b < b /\ a = b * (a \div b) + (a % b)
<1>1. a \div b \in Int /\ a % b \in 0 .. b - 1
  BY SMT
<1>2. a = b * (a \div b) + (a % b)
  BY SMT
<1>3. QED
  BY <1>1, <1>2

\* The day and the seconds of it are those of a division that rounds down.
LEMMA DayOf ==
  ASSUME NEW t \in Int
  PROVE  DaysOf(t) = t \div Day /\ RemOf(t) = t % Day
<1>1. Day \in Nat \ {0}
  BY CalendarAssumption
<1>2. CASE t >= 0
  <2>1. Quot(t, Day) = t \div Day
    BY <1>2 DEF Quot
  <2>2. t \div Day \in Int /\ t % Day \in Nat /\ t = Day * (t \div Day) + (t % Day)
    BY <1>1, DivMod
  <2>3. Rem(t, Day) = t % Day
    BY <2>1, <2>2, <1>1 DEF Rem
  <2>4. QED
    BY <2>1, <2>2, <2>3, <1>1 DEF DaysOf, RemOf
<1>3. CASE t < 0
  <2> DEFINE q == (-t) \div Day
             r == (-t) % Day
  <2>1. q \in Int /\ r \in Nat /\ r < Day /\ -t = Day * q + r
    BY <1>1, <1>3, DivMod
  <2>2. Quot(t, Day) = -q
    BY <1>3 DEF Quot
  <2> HIDE DEF q, r
  <2>3. Day * (-q) = -(Day * q) /\ Day * (-q - 1) = -(Day * q) - Day /\ Day * q \in Int
    BY <2>1, <1>1
  <2>4. Rem(t, Day) = -r
    BY <2>1, <2>2, <2>3, <1>1 DEF Rem
  <2>5. CASE r = 0
    <3>1. t = Day * (-q) + 0
      BY <2>1, <2>3, <2>5
    <3>2. t \div Day = -q /\ t % Day = 0
      BY <3>1, <2>1, <1>1, QuotientIs
    <3>3. QED
      BY <3>2, <2>2, <2>4, <2>5, <2>1 DEF DaysOf, RemOf
  <2>6. CASE r > 0
    <3>1. t = Day * (-q - 1) + (Day - r) /\ Day - r \in Nat /\ Day - r < Day /\ -q - 1 \in Int
      BY <2>1, <2>3, <2>6, <1>1
    <3>2. t \div Day = -q - 1 /\ t % Day = Day - r
      BY <3>1, <1>1, QuotientIs
    <3>3. QED
      BY <3>2, <2>2, <2>4, <2>6, <2>1, <1>1 DEF DaysOf, RemOf
  <2>7. QED
    BY <2>1, <2>5, <2>6
<1>4. QED
  BY <1>2, <1>3

\* The day of the week.
LEMMA WeekdayIs ==
  ASSUME NEW d \in Int
  PROVE  Weekday(d) = (d + 4) % 7
<1>1. CASE d >= 0
  BY <1>1, SMT DEF Weekday, Rem, Quot
<1>2. CASE d < 0
  BY <1>2, SMT DEF Weekday, Rem, Quot
<1>3. QED
  BY <1>1, <1>2, SMT

\* C's remainder tells a leap year before year 0 as well.
LEMMA LeapIs ==
  ASSUME NEW y \in Int
  PROVE  Leap(y) <=> IsLeap(y)
<1>1. \A b \in {4, 100, 400} : Rem(y, b) = 0 <=> y % b = 0
  <2>1. CASE y >= 0
    BY <2>1, SMT DEF Rem, Quot
  <2>2. CASE y < 0
    BY <2>2, SMT DEF Rem, Quot
  <2>3. QED
    BY <2>1, <2>2, SMT
<1>2. y % 400 = 0 => y % 4 = 0
  BY SMT
<1>3. QED
  BY <1>1, <1>2, SMT DEF Leap, IsLeap

\* The era of a day, and the day of the era.
LEMMA EraIs ==
  ASSUME NEW d \in Int
  PROVE  Era(d) \in Int /\ 0 <= d - Era(d) * 146097 /\ d - Era(d) * 146097 <= 146096
<1>1. CASE d >= 0
  BY <1>1, SMT DEF Era, Quot
<1>2. CASE d < 0
  BY <1>2, SMT DEF Era, Quot
<1>3. QED
  BY <1>1, <1>2, SMT

\* The year of the era a day of it is in, as localtime_r finds it.
YearOfEra(doe) == (doe - doe \div 1460 + doe \div 36524 - doe \div 146096) \div 365

\* A century of an era, four years of the century and a year of those.
Place(c, q, g) == c \in 0 .. 3 /\ q \in 0 .. 24 /\ g \in 0 .. 3

\* A day of the era by that and the day of the year, which runs from March.
DayAt(doe, c, q, g, r) ==
  /\ Place(c, q, g) /\ r \in 0 .. 365
  /\ doe = 36524 * c + 1461 * q + 365 * g + r
  /\ r = 365 => g = 3 /\ (q = 24 => c = 3)
  /\ YearOfEra(doe) = 100 * c + 4 * q + g

\* Every day of the era is in the year localtime_r finds for it.
LEMMA YearIs ==
  ASSUME NEW doe \in Int, 0 <= doe, doe <= 146096
  PROVE  \E c, q, g, r : DayAt(doe, c, q, g, r)
<1>1. PICK c \in 0 .. 3, e \in Int : 0 <= e /\ e <= 36524 /\ doe = 36524 * c + e /\ (e = 36524 => c = 3)
  <2>1. CASE doe = 146096
    <3>1. 3 \in 0 .. 3 /\ 36524 \in Int /\ doe = 36524 * 3 + 36524
      BY <2>1, SMT
    <3>2. QED
      BY <3>1, SMT
  <2>2. CASE doe # 146096
    <3>1. doe \div 36524 \in 0 .. 3 /\ doe % 36524 \in Int /\ 0 <= doe % 36524 /\ doe % 36524 < 36524
          /\ doe = 36524 * (doe \div 36524) + (doe % 36524)
      BY <2>2, SMT
    <3>2. QED
      BY <3>1, SMT
  <2>3. QED
    BY <2>1, <2>2, SMT
<1>2. PICK q \in 0 .. 24, f \in Int : 0 <= f /\ f <= 1460 /\ e = 1461 * q + f
  <2>1. e \div 1461 \in 0 .. 24 /\ e % 1461 \in Int /\ 0 <= e % 1461 /\ e % 1461 <= 1460 /\ e = 1461 * (e \div 1461) + (e % 1461)
    BY <1>1, SMT
  <2>2. QED
    BY <2>1, SMT
<1>3. PICK g \in 0 .. 3, r \in 0 .. 365 : f = 365 * g + r /\ (r = 365 => g = 3)
  <2>1. CASE f = 1460
    <3>1. 3 \in 0 .. 3 /\ 365 \in 0 .. 365 /\ f = 365 * 3 + 365
      BY <2>1, SMT
    <3>2. QED
      BY <3>1, SMT
  <2>2. CASE f # 1460
    <3>1. f \div 365 \in 0 .. 3 /\ f % 365 \in 0 .. 365 /\ f % 365 < 365
          /\ f = 365 * (f \div 365) + (f % 365)
      BY <1>2, <2>2, SMT
    <3>2. QED
      BY <3>1, SMT
  <2>3. QED
    BY <2>1, <2>2, SMT
<1>4. doe = 36524 * c + 1461 * q + 365 * g + r
  BY <1>1, <1>2, <1>3, SMT
<1>5. r = 365 => g = 3 /\ (q = 24 => c = 3)
  BY <1>1, <1>2, <1>3, SMT
<1>6. doe \div 36524 - doe \div 146096 = c
  BY <1>1, SMT
<1>7. PICK k \in 0 .. 1 : /\ doe \div 1460 = 25 * c + q + k
                          /\ k = 1 <=> 24 * c + q + 365 * g + r >= 1460
  <2>1. 24 * c + q + 365 * g + r < 2920
    BY SMT
  <2>2. doe = 1460 * (25 * c + q) + (24 * c + q + 365 * g + r)
    BY <1>4, SMT
  <2>3. CASE 24 * c + q + 365 * g + r >= 1460
    <3>1. doe \div 1460 = 25 * c + q + 1
      BY <2>1, <2>2, <2>3, SMT
    <3>2. QED
      BY <3>1, <2>3, SMT
  <2>4. CASE 24 * c + q + 365 * g + r < 1460
    <3>1. doe \div 1460 = 25 * c + q + 0
      BY <2>2, <2>4, SMT
    <3>2. QED
      BY <3>1, <2>4, SMT
  <2>5. QED
    BY <2>3, <2>4, SMT
<1>8. k <= r /\ r - k <= 364
  BY <1>5, <1>7, SMT
<1>9. doe - doe \div 1460 + doe \div 36524 - doe \div 146096
        = 365 * (100 * c + 4 * q + g) + (r - k)
  BY <1>4, <1>6, <1>7, SMT
<1>10. YearOfEra(doe) = 100 * c + 4 * q + g
  BY <1>8, <1>9, SMT DEF YearOfEra
<1>11. c \in 0 .. 3 /\ q \in 0 .. 24 /\ g \in 0 .. 3 /\ r \in 0 .. 365
  BY <1>1, <1>2, <1>3, SMT
<1>12. DayAt(doe, c, q, g, r)
  BY <1>4, <1>5, <1>10, <1>11, SMT DEF DayAt, Place
<1>13. QED
  BY <1>12, SMT

\* The month from March, and the day of it, of a day of the year from March.
LEMMA MonthIs ==
  ASSUME NEW r \in 0 .. 365
  PROVE  LET mp  == (5 * r + 2) \div 153
             day == r - (153 * mp + 2) \div 5 + 1
         IN  /\ mp \in 0 .. 11 /\ day \in 1 .. 31
             /\ mp \in {1, 3, 6, 8} => day <= 30
             /\ mp = 11 => day <= 28 \/ (day = 29 /\ r = 365)
<1> DEFINE mp == (5 * r + 2) \div 153
<1>1. mp \in 0 .. 11 /\ 153 * mp <= 5 * r + 2 /\ 5 * r + 2 < 153 * mp + 153
  BY SMT
<1> HIDE DEF mp
<1>2. r - (153 * mp + 2) \div 5 + 1 \in 1 .. 31
  BY <1>1, SMT
<1>3. mp \in {1, 3, 6, 8} => r - (153 * mp + 2) \div 5 + 1 <= 30
  BY <1>1, SMT
<1>4. mp = 11 => r - (153 * mp + 2) \div 5 + 1 <= 28 \/ (r - (153 * mp + 2) \div 5 + 1 = 29 /\ r = 365)
  BY <1>1, SMT
<1>5. QED
  BY <1>1, <1>2, <1>3, <1>4, SMT DEF mp

\* A year by its era, century, four years and place in them.
YearAt(e, c, q, g) == 400 * e + 100 * c + 4 * q + g

\* The leap years up to it, and whether it and the next are leap years.
LEMMA LeapsOf ==
  ASSUME NEW e \in Int, NEW c, NEW q, NEW g, Place(c, q, g)
  PROVE  LET y == YearAt(e, c, q, g)
         IN  /\ y \in Int
             /\ IsLeap(y) <=> g = 0 /\ (q # 0 \/ c = 0)
             /\ IsLeap(y + 1) <=> g = 3 /\ (q # 24 \/ c = 3)
             /\ LeapsUpTo(y) = 97 * e + 24 * c + q
             /\ LeapsUpTo(y - 1) = LeapsUpTo(y) - (IF IsLeap(y) THEN 1 ELSE 0)
<1> USE DEF Place
<1> DEFINE y == 400 * e + 100 * c + 4 * q + g
<1>0. y \in Int
  BY SMT
<1>1. y \div 4 = 100 * e + 25 * c + q /\ y % 4 = g
  BY SMT
<1>2. y \div 100 = 4 * e + c /\ y % 100 = 4 * q + g
  BY SMT
<1>3. y \div 400 = e /\ y % 400 = 100 * c + 4 * q + g
  BY SMT
<1>4. IsLeap(y) <=> g = 0 /\ (q # 0 \/ c = 0)
  BY <1>1, <1>2, <1>3, SMT DEF IsLeap
<1>5. (y + 1) % 4 = 0 <=> g = 3
  BY SMT
<1>6. (y + 1) % 100 = 0 <=> g = 3 /\ q = 24
  BY SMT
<1>7. (y + 1) % 400 = 0 <=> g = 3 /\ q = 24 /\ c = 3
  BY SMT
<1>8. IsLeap(y + 1) <=> g = 3 /\ (q # 24 \/ c = 3)
  BY <1>5, <1>6, <1>7, SMT DEF IsLeap
<1>9. LeapsUpTo(y) = 97 * e + 24 * c + q
  BY <1>1, <1>2, <1>3, SMT DEF LeapsUpTo
<1>10. (y - 1) \div 4 = y \div 4 - (IF g = 0 THEN 1 ELSE 0)
  BY <1>1, SMT
<1>11. (y - 1) \div 100 = y \div 100 - (IF g = 0 /\ q = 0 THEN 1 ELSE 0)
  BY <1>2, SMT
<1>12. (y - 1) \div 400 = y \div 400 - (IF g = 0 /\ q = 0 /\ c = 0 THEN 1 ELSE 0)
  BY <1>3, SMT
<1>13. LeapsUpTo(y - 1) = LeapsUpTo(y) - (IF IsLeap(y) THEN 1 ELSE 0)
  BY <1>1, <1>2, <1>3, <1>4, <1>10, <1>11, <1>12, SMT DEF LeapsUpTo
<1>14. YearAt(e, c, q, g) = y
  BY SMT DEF YearAt
<1> HIDE DEF y
<1>15. QED
  BY <1>0, <1>4, <1>8, <1>9, <1>13, <1>14, SMT

\* The months of a year, and the days before each.
LEMMA MonthsOf ==
  ASSUME NEW y \in Int, NEW mon \in 0 .. 11
  PROVE  DaysBeforeMonth(y, mon) = Before[mon + 1] + (IF IsLeap(y) /\ mon > 1 THEN 1 ELSE 0)
<1>1. mon \in {0, 1, 2, 3, 4, 5, 6, 7, 8, 9, 10, 11}
  BY SMT
<1>2. QED
  BY <1>1, SMT DEF DaysBeforeMonth, Past, MonthLength, Before

\* The date of a day counted from 1970-01-01.
DateOf(d) == Civil(d + 719468)

\* The date of a day exists and is that day's.
LEMMA CivilIs ==
  ASSUME NEW d \in Int
  PROVE  LET date == DateOf(d)
             y    == date.year + 1900
         IN  /\ date.mon \in 0 .. 11 /\ date.mday \in 1 .. MonthLength(y, date.mon)
             /\ DaysBeforeYear(y) + date.yday = d
             /\ date.yday = date.mday - 1 + DaysBeforeMonth(y, date.mon)
<1> DEFINE D   == d + 719468
           era == Era(D)
           doe == D - era * 146097
           yoe == YearOfEra(doe)
           doy == doe - (365 * yoe + yoe \div 4 - yoe \div 100)
           mp  == (5 * doy + 2) \div 153
           y   == yoe + era * 400 + (IF mp >= 10 THEN 1 ELSE 0)
           day == doy - (153 * mp + 2) \div 5 + 1
           mon == IF mp < 10 THEN mp + 2 ELSE mp - 10
           yday == Before[mon + 1] + day - 1 + (IF Leap(y) /\ mon > 1 THEN 1 ELSE 0)
<1>1. Civil(D) = [year |-> y - 1900, mon |-> mon, mday |-> day, yday |-> yday]
  BY SMT DEF Civil, YearOfEra
<1>2. D \in Int
  BY SMT
<1> HIDE DEF D
<1>3. era \in Int /\ 0 <= doe /\ doe <= 146096
  BY <1>2, EraIs, SMT
<1> HIDE DEF era
<1>4. doe \in Int
  BY <1>2, <1>3, SMT
<1> HIDE DEF doe
<1>a. PICK c, q, g, r : DayAt(doe, c, q, g, r)
  BY <1>3, <1>4, YearIs, SMT
<1>5. /\ c \in 0 .. 3 /\ q \in 0 .. 24 /\ g \in 0 .. 3 /\ r \in 0 .. 365
      /\ doe = 36524 * c + 1461 * q + 365 * g + r
      /\ r = 365 => g = 3 /\ (q = 24 => c = 3)
      /\ yoe = 100 * c + 4 * q + g
  BY <1>a, SMT DEF DayAt, Place
<1>6. yoe \div 4 = 25 * c + q /\ yoe \div 100 = c
  BY <1>5, SMT
<1> HIDE DEF yoe
<1>7. doy = r
  BY <1>5, <1>6, SMT
<1> HIDE DEF doy
<1>8. /\ mp \in 0 .. 11 /\ day \in 1 .. 31
      /\ mp \in {1, 3, 6, 8} => day <= 30
      /\ mp = 11 => day <= 28 \/ (day = 29 /\ r = 365)
  BY <1>5, <1>7, MonthIs, SMT
<1> DEFINE z == YearAt(era, c, q, g)
<1>9. /\ z \in Int
      /\ IsLeap(z) <=> g = 0 /\ (q # 0 \/ c = 0)
      /\ IsLeap(z + 1) <=> g = 3 /\ (q # 24 \/ c = 3)
      /\ LeapsUpTo(z) = 97 * era + 24 * c + q
      /\ LeapsUpTo(z - 1) = LeapsUpTo(z) - (IF IsLeap(z) THEN 1 ELSE 0)
  <2>1. Place(c, q, g)
    BY <1>a, SMT DEF DayAt
  <2>2. QED
    BY <1>3, <2>1, LeapsOf, SMT
<1>10. z = yoe + era * 400
  BY <1>3, <1>5, SMT DEF YearAt
<1>11. LeapsUpTo(1969) = 477
  BY SMT DEF LeapsUpTo
<1>12. d = 146097 * era + doe - 719468
  BY <1>2, <1>3, <1>4, SMT DEF D, doe
<1>13. mon \in 0 .. 11
  BY <1>8, SMT
<1>14. y = z + (IF mp >= 10 THEN 1 ELSE 0) /\ y \in Int
  BY <1>8, <1>9, <1>10, SMT
<1>15. Leap(y) <=> IsLeap(y)
  BY <1>14, LeapIs
<1>16. DaysBeforeMonth(y, mon) = Before[mon + 1] + (IF IsLeap(y) /\ mon > 1 THEN 1 ELSE 0)
  BY <1>13, <1>14, MonthsOf
<1>17. yday = day - 1 + DaysBeforeMonth(y, mon) /\ DaysBeforeMonth(y, mon) \in Int
  <2>1. Before[mon + 1] \in Int
    BY <1>13, SMT DEF Before
  <2>2. day \in Int
    BY <1>8, SMT
  <2> HIDE DEF mon, day, y
  <2>3. QED
    BY <2>1, <2>2, <1>15, <1>16, SMT
<1>18. day \in 1 .. MonthLength(y, mon)
  <2>1. mon = 1 => mp = 11 /\ y = z + 1
    BY <1>8, <1>14, SMT
  <2>2. mon \in {3, 5, 8, 10} => mp \in {1, 3, 6, 8}
    BY <1>8, SMT
  <2>3. r = 365 => IsLeap(z + 1)
    BY <1>5, <1>9, SMT
  <2> HIDE DEF mon, y, day, mp, z
  <2>4. QED
    BY <2>1, <2>2, <2>3, <1>8, SMT DEF MonthLength
<1>19. DaysBeforeYear(y) + yday = d
  <2>1. CASE mp < 10
    <3>1. y = z /\ mon = mp + 2
      <4>1. mon = mp + 2
        BY <2>1
      <4> HIDE DEF mp, mon, y, z
      <4>2. y = z
        BY <2>1, <1>8, <1>9, <1>14, SMT
      <4>3. QED
        BY <4>1, <4>2, SMT
    <3>2. Before[mon + 1] + day = r + 60
      <4>1. mp \in {0, 1, 2, 3, 4, 5, 6, 7, 8, 9}
        BY <2>1, <1>8, SMT
      <4> HIDE DEF mp
      <4>2. QED
        BY <4>1, <3>1, <1>7, <1>5, SMT DEF Before
    <3>3. mon > 1 /\ day \in Int /\ Before[mon + 1] \in Int
      <4>1. Before[mon + 1] \in Int
        BY <1>13, SMT DEF Before
      <4>2. QED
        BY <4>1, <3>1, <1>8, SMT
    <3> HIDE DEF mon, day, y, z, mp
    <3>4. yday = r + 59 + (IF IsLeap(z) THEN 1 ELSE 0)
      BY <3>1, <3>2, <3>3, <1>5, <1>15, SMT
    <3> HIDE DEF yday
    <3>5. DaysBeforeYear(y) = 365 * (z - 1970) + LeapsUpTo(z - 1) - 477
      BY <3>1, <1>11, SMT DEF DaysBeforeYear
    <3>6. QED
      BY <3>4, <3>5, <1>3, <1>5, <1>9, <1>12, SMT DEF z, YearAt
  <2>2. CASE mp >= 10
    <3>1. y = z + 1 /\ mon = mp - 10
      BY <2>2, <1>8, <1>14, SMT
    <3>2. Before[mon + 1] + day = r - 305
      <4>1. mp \in {10, 11}
        BY <2>2, <1>8, SMT
      <4> HIDE DEF mp
      <4>2. QED
        BY <4>1, <3>1, <1>7, <1>5, SMT DEF Before
    <3>3. mon <= 1 /\ day \in Int /\ Before[mon + 1] \in Int
      <4>1. Before[mon + 1] \in Int
        BY <1>13, SMT DEF Before
      <4>2. QED
        BY <4>1, <3>1, <1>8, SMT
    <3>4. mon \in Int
      BY <1>13, SMT
    <3> HIDE DEF mon, day, y, z, mp
    <3>5. yday = r - 306
      BY <3>2, <3>3, <3>4, <1>5, SMT
    <3> HIDE DEF yday
    <3>6. y - 1 = z
      BY <3>1, <1>9, SMT
    <3>7. DaysBeforeYear(y) = 365 * (z + 1 - 1970) + LeapsUpTo(z) - 477
      BY <3>1, <3>6, <1>11, SMT DEF DaysBeforeYear
    <3>8. QED
      BY <3>5, <3>7, <1>3, <1>5, <1>9, <1>12, SMT DEF z, YearAt
  <2>3. QED
    BY <2>1, <2>2, <1>8, SMT
<1> HIDE DEF mon, day, y, yday
<1>20. y - 1900 + 1900 = y
  BY <1>14, SMT
<1>21. Civil(D).mon = mon /\ Civil(D).mday = day /\ Civil(D).yday = yday /\ Civil(D).year + 1900 = y
  BY <1>1, <1>20, SMT
<1>22. Civil(D) = DateOf(d)
  BY DEF D, DateOf
<1>23. QED
  BY <1>13, <1>17, <1>18, <1>19, <1>21, <1>22, SMT

\* The time of day of the seconds of a day.
LEMMA TimeIs ==
  ASSUME NEW s \in Nat
  PROVE  LET hour == s \div Hour
             min  == (s % Hour) \div Minute
             sec  == s % Minute
         IN  /\ sec \in 0 .. Minute - 1 /\ min * Minute + sec \in 0 .. Hour - 1
             /\ hour * Hour + min * Minute + sec = s
<1> DEFINE hour == s \div Hour
           m    == s % Hour
           min  == m \div Minute
           sec  == m % Minute
           n    == Hour \div Minute
<1>1. Minute \in Nat \ {0} /\ Hour \in Nat \ {0} /\ Hour % Minute = 0
  BY CalendarAssumption
<1>2. hour \in Int /\ m \in Nat /\ m < Hour /\ s = Hour * hour + m
  BY <1>1, DivMod
<1>3. min \in Int /\ sec \in Nat /\ sec < Minute /\ m = Minute * min + sec
  <2>1. m \in Int
    BY <1>2
  <2> HIDE DEF m
  <2>2. QED
    BY <1>1, <2>1, DivMod
<1>4. n \in Int /\ Hour = Minute * n
  <2>1. Hour = Minute * n + (Hour % Minute) /\ n \in Int
    BY <1>1, DivMod
  <2>2. Minute * n \in Int
    BY <2>1, <1>1
  <2> HIDE DEF n
  <2>3. QED
    BY <2>1, <2>2, <1>1
<1> HIDE DEF hour, m, min, sec, n
<1>5. s % Minute = sec
  <2>1. n * hour + min \in Int
    BY <1>2, <1>3, <1>4
  <2>2. (Minute * n) * hour = Minute * (n * hour) /\ Minute * (n * hour) \in Int /\ Minute * min \in Int
        /\ Minute * (n * hour + min) = Minute * (n * hour) + Minute * min
    BY <1>1, <1>2, <1>3, <1>4
  <2>3. s = Minute * (n * hour + min) + sec
    BY <2>2, <1>2, <1>3, <1>4
  <2>4. QED
    BY <2>1, <2>3, <1>1, <1>3, QuotientIs
<1>6. min * Minute = Minute * min /\ hour * Hour = Hour * hour /\ Minute * min \in Int /\ Hour * hour \in Int
  BY <1>1, <1>2, <1>3
<1>7. sec \in 0 .. Minute - 1 /\ min * Minute + sec \in 0 .. Hour - 1 /\ hour * Hour + min * Minute + sec = s
  BY <1>1, <1>2, <1>3, <1>6
<1>8. QED
  BY <1>5, <1>7 DEF hour, min, m

\* What the last call was asked, and that it answered that.
CalendarInv ==
  /\ asked.clock \in Int /\ asked.offset \in Int
  /\ tm = BrokenDown(asked.clock + asked.offset, asked.offset)

\* A broken-down time is the instant it is of.
LEMMA BrokenDownIs == CalendarInv => FieldsAreCivil
<1> SUFFICES ASSUME CalendarInv PROVE FieldsAreCivil
  OBVIOUS
<1> DEFINE t == asked.clock + asked.offset
           d == t \div Day
           s == t % Day
           date == DateOf(d)
           y == date.year + 1900
<1>1. t \in Int /\ Day \in Nat \ {0}
  BY CalendarAssumption, SMT DEF CalendarInv
<1>2. tm = BrokenDown(t, asked.offset)
  BY SMT DEF CalendarInv
<1> HIDE DEF t
<1>3. d \in Int /\ s \in Nat
  BY <1>1, DivMod, SMT
<1>4. DaysOf(t) = d /\ RemOf(t) = s
  BY <1>1, DayOf, SMT
<1> HIDE DEF d, s
<1>5. /\ tm.hour = s \div Hour /\ tm.min = (s % Hour) \div Minute /\ tm.sec = s % Minute
      /\ tm.wday = Weekday(d)
      /\ tm.year = date.year /\ tm.mon = date.mon /\ tm.mday = date.mday /\ tm.yday = date.yday
  BY <1>2, <1>4, SMT DEF BrokenDown, DateOf
<1>6. Weekday(d) = (d + 4) % 7
  BY <1>3, WeekdayIs, SMT
<1>7. /\ tm.sec \in 0 .. Minute - 1 /\ tm.min * Minute + tm.sec \in 0 .. Hour - 1
      /\ tm.hour * Hour + tm.min * Minute + tm.sec = s
  BY <1>3, <1>5, TimeIs, SMT
<1>8. /\ date.mon \in 0 .. 11 /\ date.mday \in 1 .. MonthLength(y, date.mon)
      /\ DaysBeforeYear(y) + date.yday = d
      /\ date.yday = date.mday - 1 + DaysBeforeMonth(y, date.mon)
  BY <1>3, CivilIs, SMT
<1>9. tm.year + 1900 = y
  BY <1>5, SMT
<1> HIDE DEF y, date
<1>10. QED
  BY <1>5, <1>6, <1>7, <1>8, <1>9, SMT DEF FieldsAreCivil, t, d, s

\* localtime_r breaks every time down to the date and time of day it is in the zone the
\* platform gave, with no bound on either side of the epoch.
THEOREM LocaltimeIsCivil == CalendarSpec => []FieldsAreCivil
<1>1. CalendarInit => CalendarInv
  BY SMT DEF CalendarInit, CalendarInv
<1>2. CalendarInv /\ [CalendarNext]_calendarVars => CalendarInv'
  <2> SUFFICES ASSUME CalendarInv, [CalendarNext]_calendarVars PROVE CalendarInv'
    OBVIOUS
  <2>1. ASSUME NEW clock \in Clocks, NEW offset \in Offsets \cup {0}, LocaltimeR(clock, offset)
        PROVE  CalendarInv'
    <3>1. clock \in Int /\ offset \in Int
      BY CalendarAssumption
    <3>2. asked'.clock = clock /\ asked'.offset = offset
      BY <2>1 DEF LocaltimeR
    <3>3. QED
      BY <2>1, <3>1, <3>2 DEF LocaltimeR, CalendarInv
  <2>2. CASE UNCHANGED calendarVars
    BY <2>2 DEF calendarVars, CalendarInv
  <2>3. QED
    BY <2>1, <2>2 DEF CalendarNext
<1>3. QED
  BY <1>1, <1>2, BrokenDownIs, PTL DEF CalendarSpec

=============================================================================
