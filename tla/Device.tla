------------------------------- MODULE Device -------------------------------
(***************************************************************************)
(* The device descriptor: claim_fd, open, open_render_node, close and the  *)
(* ioctl gate of src/winsys/drm_device.c.                                  *)
(*                                                                         *)
(* There is no DRM device.  The winsys answers ioctls on a descriptor of   *)
(* the title's own eboot, claimed from .init_array; failing that on        *)
(* stderr; failing that on a token that no file has.  Every other          *)
(* descriptor the kernel knows is served as a duplicate.                   *)
(***************************************************************************)
EXTENDS Naturals, FiniteSets

CONSTANTS
  MaxFd,   \* descriptors are 0 .. MaxFd
  Starts   \* how a title may find itself: with its "eboot" readable, with a "stderr"

ASSUME DeviceAssumption ==
  MaxFd \in Nat /\ MaxFd > 2 /\ Starts \subseteq SUBSET {"eboot", "stderr"}

Fds    == 0 .. MaxFd
Stderr == 2
Token  == MaxFd + 1   \* OOPS_WINSYS_FD, a number nothing is open on

VARIABLES
  winsysFd,  \* s_winsys_fd
  file,      \* the kernel's table: what each descriptor is open on, "none" if nothing
  root,      \* /app0 still names the title's directory, and the eboot is in it
  started,   \* .init_array has run
  handed     \* descriptors the winsys gave out and was not told to close

vars == <<winsysFd, file, root, started, handed>>

IsOpen(fd) == fd \in Fds /\ file[fd] # "none"

\* open and F_DUPFD take the lowest free number, F_DUPFD from 3 up.
Free(table, from) == {fd \in Fds : fd >= from /\ table[fd] = "none"}

Lowest(table, from) == CHOOSE fd \in Free(table, from) : \A o \in Free(table, from) : fd <= o

----------------------------------------------------------------------------
\* oops_winsys_claim_fd: the descriptor it answers and the table it leaves.
Outcome(fd, table) == [fd |-> fd, file |-> table]

ClaimNew ==
  CASE root /\ Free(file, 0) # {} ->
         Outcome(Lowest(file, 0), [file EXCEPT ![Lowest(file, 0)] = "eboot"])
    [] ~(root /\ Free(file, 0) # {}) /\ IsOpen(Stderr) -> Outcome(Stderr, file)
    [] OTHER -> Outcome(Token, file)

Claim == IF winsysFd # Token THEN Outcome(winsysFd, file) ELSE ClaimNew

\* oops_winsys_claim_fd_early, before any title code.
Constructor ==
  /\ ~started
  /\ started' = TRUE
  /\ winsysFd' = Claim.fd
  /\ file' = Claim.file
  /\ UNCHANGED <<root, handed>>

\* oops_winsys_open, with the platform's graphics driver bound; without it the call is
\* refused with -ENODEV and changes nothing.
Open ==
  /\ started
  /\ winsysFd' = Claim.fd
  /\ file' = Claim.file
  /\ handed' = handed \cup {Claim.fd}
  /\ UNCHANGED <<root, started>>

\* oops_winsys_open_render_node: a duplicate of the held descriptor, unless that is
\* the token or the kernel has no number left.
OpenRenderNode ==
  LET table == Claim.file
      ok == Claim.fd # Token /\ table[Claim.fd] # "none" /\ Free(table, 3) # {}
  IN  /\ started
      /\ winsysFd' = Claim.fd
      /\ file' = IF ok THEN [table EXCEPT ![Lowest(table, 3)] = table[Claim.fd]] ELSE table
      /\ handed' = IF ok THEN handed \cup {Lowest(table, 3)} ELSE handed
      /\ UNCHANGED <<root, started>>

----------------------------------------------------------------------------
\* The ioctl gate.

\* Mutant: only the device descriptor itself is served.
ServedExactly(fd) == fd = winsysFd

Served(fd) == fd = winsysFd \/ IsOpen(fd)

\* oops_winsys_close makes the same test and closes nothing.
Close(fd) ==
  /\ started
  /\ Served(fd)
  /\ handed' = handed \ {fd}
  /\ UNCHANGED <<winsysFd, file, root, started>>

----------------------------------------------------------------------------
\* The title around it.

\* A title that reaches /data has its root repointed.
Escape ==
  /\ started /\ root
  /\ root' = FALSE
  /\ UNCHANGED <<winsysFd, file, started, handed>>

TitleOpens ==
  /\ started
  /\ Free(file, 0) # {}
  /\ file' = [file EXCEPT ![Lowest(file, 0)] = "title"]
  /\ UNCHANGED <<winsysFd, root, started, handed>>

\* The title closes what it opened, its standard streams too, but not the winsys's.
TitleCloses(fd) ==
  /\ started
  /\ file[fd] \in {"title", "stream"}
  /\ fd \notin handed \cup {winsysFd}
  /\ file' = [file EXCEPT ![fd] = "none"]
  /\ UNCHANGED <<winsysFd, root, started, handed>>

Init ==
  /\ winsysFd = Token
  /\ started = FALSE
  /\ handed = {}
  /\ \E start \in Starts :
       /\ root = ("eboot" \in start)
       /\ file = [fd \in Fds |->
                   IF fd < 2 \/ (fd = Stderr /\ "stderr" \in start) THEN "stream" ELSE "none"]

Next ==
  \/ Constructor \/ Open \/ OpenRenderNode \/ \E fd \in handed : Close(fd)
  \/ Escape \/ TitleOpens \/ \E fd \in Fds : TitleCloses(fd)

Spec == Init /\ [][Next]_vars

----------------------------------------------------------------------------
\* Properties.

\* An open device stays open: the descriptor is taken once and held for the life of the
\* process, and every one given out, duplicates too, is answered until it is closed and
\* never turns into EBADF.
StaysOpen ==
  [][/\ handed # {} => winsysFd' = winsysFd
     /\ \A fd \in handed' : Served(fd)']_vars

============================================================================
