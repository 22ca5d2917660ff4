------------------------------- MODULE MCLibc -------------------------------
(***************************************************************************)
(* What a title finds where a C library would be: the device descriptor    *)
(* and the files around it, the environment, and local time.  They share   *)
(* no state with each other; each is explored while the others have not    *)
(* begun.                                                                  *)
(***************************************************************************)
EXTENDS Files, Env, Calendar

LibcVars == <<allVars, envVars, calendarVars>>

LibcInit == FilesInit /\ EnvInit /\ CalendarInit

FilesStep ==
  /\ EnvInit /\ CalendarInit
  /\ FilesNext
  /\ UNCHANGED <<envVars, calendarVars>>

\* A title that starts with everything; the environment does not depend on it.
Untouched == FilesInit /\ root /\ file[Stderr] # "none"

EnvStep ==
  /\ Untouched /\ CalendarInit
  /\ EnvNext
  /\ UNCHANGED <<allVars, calendarVars>>

\* One call forgets another, so between two calls of interest there is one for 1970.
CalendarStep ==
  /\ Untouched /\ EnvInit
  /\ IF CalendarInit THEN CalendarNext ELSE LocaltimeR(0, 0)
  /\ UNCHANGED <<allVars, envVars>>

LibcNext == FilesStep \/ EnvStep \/ CalendarStep

LibcSpec == LibcInit /\ [][LibcNext]_LibcVars

----------------------------------------------------------------------------
\* A package with a folder d, in which d is a file and e a folder as deep as paths go.
MCTree ==
  [p \in {<<"app0">>, <<"app0", "d">>, <<"app0", "f">>, <<"app0", "d", "d">>, <<"app0", "d", "e">>} |->
     IF p \in {<<"app0", "f">>, <<"app0", "d", "d">>} THEN "file" ELSE "dir"]

MCElsewhere == [p \in {<<"data">>} |-> "dir"]

Relative(parts) == [absolute |-> FALSE, parts |-> parts]

MCPaths ==
  {Relative(<<"d">>), Relative(<<"e">>), Relative(<<".">>), Relative(<<"..", "f">>), Relative(<<"d", "d">>),
   [absolute |-> TRUE, parts |-> <<"data">>]}

\* Names that begin one another, and two that POSIX does not accept.
MCNames == {<<"a">>, <<"a", "b">>, <<"b">>, <<>>, <<"a", "=">>}

MCValues == {<<>>, <<"=">>, <<"b", "=">>}

\* The ends of the days around new year and the leap day, in years that are hard.
MCYears ==
  {-401, -400, -1, 0, 1, 4, 100, 400, 1600, 1899, 1900, 1904, 1969, 1970, 1999, 2000, 2001,
   2023, 2024, 2037, 2038, 2100, 2400, 9999}

MCClocks ==
  {Day * (DaysBeforeYear(y) + n) + s :
     y \in MCYears, n \in (-1 .. 1) \cup (57 .. 61) \cup {364, 365}, s \in {0, Day - 1}}

\* Zones west and east of Greenwich.
MCOffsets == {-3, 5}

============================================================================
