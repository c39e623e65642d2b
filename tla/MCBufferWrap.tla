---------------------------- MODULE MCBufferWrap ----------------------------
(* Strings of an instance of BufferWrap for TLC. *)
EXTENDS BufferWrap

SomeStrings == {<<1, 2, 3>>}
=============================================================================
