--------------------------------- MODULE Env --------------------------------
(***************************************************************************)
(* The environment table of src/runtime/libc_absent.c: getenv, setenv and  *)
(* unsetenv.                                                               *)
(*                                                                         *)
(* An entry is one "NAME=VALUE" block; a lookup compares as many bytes as  *)
(* the name has and then asks for the '='.  getenv returns a pointer into  *)
(* the block.  The table has a fixed number of slots, and blocks come from *)
(* an allocator that reuses what was freed and may refuse.                 *)
(***************************************************************************)
EXTENDS Integers, Sequences, FiniteSets

CONSTANTS
  EnvMax,    \* ENV_MAX
  MaxBlocks, \* bound: blocks the allocator has
  Names,     \* names the title uses, as sequences of characters, POSIX's or not
  Values     \* values, as sequences of characters

ASSUME EnvAssumption ==
  /\ EnvMax \in Nat /\ MaxBlocks \in Nat
  /\ Names \subseteq Seq(STRING) /\ Values \subseteq Seq(STRING)
  /\ <<"unset">> \notin Values

Blocks == 1 .. MaxBlocks
EnvSlots == 0 .. EnvMax - 1
Unset == <<"unset">>   \* a value no variable has

VARIABLES
  env,    \* s_env: the block in each slot, 0 if none
  block,  \* the text in each block; no text if it is not allocated
  want,   \* history: the value each name was last given, as POSIX has it
  ptr     \* the block each name's last getenv pointed into, until the name is changed

envVars == <<env, block, want, ptr>>

----------------------------------------------------------------------------
Text(name, value) == name \o <<"=">> \o value

\* Mutant: the byte after the name is not looked at.
IsEntryByPrefix(text, name) == Len(text) >= Len(name) /\ SubSeq(text, 1, Len(name)) = name

\* strncmp of the name's length, and the '=' after it.
IsEntry(text, name) ==
  /\ Len(text) > Len(name)
  /\ SubSeq(text, 1, Len(name)) = name
  /\ text[Len(name) + 1] = "="

\* env_find: the slots that have the name, the first of which is taken.
Matching(name) == {i \in EnvSlots : env[i] # 0 /\ IsEntry(block[env[i]], name)}

First(slots) == CHOOSE i \in slots : \A j \in slots : i <= j

\* env_name_ok.
NameOk(name) == name # <<>> /\ \A k \in 1 .. Len(name) : name[k] # "="

\* What getenv points at: the text after the name and its '='.
Found(name) ==
  IF Matching(name) = {} THEN Unset
  ELSE LET text == block[env[First(Matching(name))]]
       IN  SubSeq(text, Len(name) + 2, Len(text))

----------------------------------------------------------------------------
Getenv(name) ==
  /\ NameOk(name)
  /\ ptr' = [ptr EXCEPT ![name] = IF Matching(name) = {} THEN 0 ELSE env[First(Matching(name))]]
  /\ UNCHANGED <<env, block, want>>

\* Mutant: a variable that exists is replaced all the same.
KeepsExistingNot(name, overwrite) == FALSE

\* The call succeeds and changes nothing.
KeepsExisting(name, overwrite) == Matching(name) # {} /\ ~overwrite

\* malloc: the lowest block that is free.
Allocated(b) == block[b] = <<>> /\ \A c \in Blocks : block[c] = <<>> => b <= c

Empty == {i \in EnvSlots : env[i] = 0}

\* The new block is filled, and then the one it replaces is freed.
Freed(b, text, old) == [c \in Blocks |-> IF c = old THEN <<>> ELSE IF c = b THEN text ELSE block[c]]

\* A new value over the old one, or in the first empty slot.
Setenv(name, value, overwrite) ==
  LET slot == IF Matching(name) # {} THEN First(Matching(name)) ELSE First(Empty)
  IN  /\ NameOk(name)
      /\ ~KeepsExisting(name, overwrite)
      /\ Matching(name) # {} \/ Empty # {}
      /\ \E b \in Blocks :
           /\ Allocated(b)
           /\ block' = Freed(b, Text(name, value), env[slot])
           /\ env' = [env EXCEPT ![slot] = b]
      /\ want' = IF overwrite \/ want[name] = Unset THEN [want EXCEPT ![name] = value] ELSE want
      /\ ptr' = IF overwrite \/ want[name] = Unset THEN [ptr EXCEPT ![name] = 0] ELSE ptr

\* What changes nothing: a name POSIX does not accept, a variable to be kept, a refused
\* malloc, and a full table, whose new block is freed again.
SetenvNothing(name, overwrite) ==
  /\ \/ ~NameOk(name)
     \/ KeepsExisting(name, overwrite)
     \/ \A b \in Blocks : ~Allocated(b)
     \/ Matching(name) = {} /\ Empty = {}
  /\ UNCHANGED envVars

Unsetenv(name) ==
  /\ NameOk(name)
  /\ IF Matching(name) = {} THEN UNCHANGED <<env, block>>
     ELSE /\ block' = [block EXCEPT ![env[First(Matching(name))]] = <<>>]
          /\ env' = [env EXCEPT ![First(Matching(name))] = 0]
  /\ want' = [want EXCEPT ![name] = Unset]
  /\ ptr' = [ptr EXCEPT ![name] = 0]

----------------------------------------------------------------------------
EnvInit ==
  /\ env = [i \in EnvSlots |-> 0]
  /\ block = [b \in Blocks |-> <<>>]
  /\ want = [n \in Names |-> Unset]
  /\ ptr = [n \in Names |-> 0]

EnvNext ==
  \E name \in Names :
    \/ Getenv(name) \/ Unsetenv(name)
    \/ \E overwrite \in BOOLEAN :
         SetenvNothing(name, overwrite) \/ \E value \in Values : Setenv(name, value, overwrite)

EnvSpec == EnvInit /\ [][EnvNext]_envVars

----------------------------------------------------------------------------
\* Properties.

\* Every name reads back as it was last set, whatever other names it begins or ends, and
\* a name that was unset, refused or never set reads as unset.
EnvReadsBack == \A n \in {m \in Names : NameOk(m)} : Found(n) = want[n]

\* The blocks allocated are exactly those in the table, each in one slot: a refused or
\* replacing setenv neither leaks nor frees twice.  And a pointer getenv gave stays good
\* until its own name is set or unset: no call for another name, and no setenv that keeps
\* the variable, frees or changes what it points into.
BlocksHeld ==
  /\ {b \in Blocks : block[b] # <<>>} = {env[i] : i \in {j \in EnvSlots : env[j] # 0}}
  /\ \A i, j \in EnvSlots : env[i] # 0 /\ env[i] = env[j] => i = j
  /\ \A n \in Names : ptr[n] # 0 => block[ptr[n]] = Text(n, want[n])

============================================================================
