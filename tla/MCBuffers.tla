----------------------------- MODULE MCBuffers -----------------------------
(* Small instances of Buffers for TLC. *)
EXTENDS Buffers

\* Pages of two bytes: requests of 2 and 3 bytes round to one page and two, and one of 7
\* wraps to none; 0 asks for nothing in GEM_CREATE and for the whole buffer in GEM_VA.
OneSize  == {0, 2}
TwoSizes == {0, 2, 3, 7}

ReadWrite == {{"READABLE", "WRITEABLE"}}
NoneOrBoth == {{}, {"READABLE", "WRITEABLE"}}

============================================================================
