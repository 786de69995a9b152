-------------------------------- MODULE Parser --------------------------------
(***************************************************************************)
(* interpret() of src/parser.c, with which server and clients read what    *)
(* they receive.                                                           *)
(*                                                                         *)
(* strtok_r() skips empty fields, so a text is the sequence of its         *)
(* nonempty fields.  A field is a value; what interpret() looks at inside  *)
(* of it is its second character, if it is the first field, and whether it *)
(* splits at "+", if it is an entry of a list.                             *)
(*                                                                         *)
(* strcpy() does not ask for the size of an array.  Long[x] are the fields *)
(* that do not fit the array of the member x: what such a member holds     *)
(* runs on into the next one, and the model does not say how it reads.     *)
(***************************************************************************)
EXTENDS Naturals, Sequences, FiniteSets

(* The members of struct protocol that interpret() fills.                  *)
MemberNames == {"accion", "usuario", "ip", "puerto", "status", "usuario2",
                "listaUsuarios", "message"}

CONSTANTS
  Words,      \* the fields
  Second,     \* Second[x]: the second character of x
  Entries,    \* the fields of the form user+status
  Long,       \* Long[x]: the fields that are too long for the member x
  Spoilt      \* what a member reads as that was overrun

ASSUME ParserAssumption ==
  /\ DOMAIN Second = Words
  /\ Entries \subseteq Words
  /\ Long \in [MemberNames -> SUBSET Words]
  /\ Spoilt \in Words /\ \A x \in MemberNames : Spoilt \in Long[x]

(* A text that interpret() cannot read: it passes NULL to strcpy(), or     *)
(* takes the second character of NULL.                                     *)
Crash == [crash |-> TRUE]

(* The protocol after the memset(): its accion is the empty string.        *)
Empty == [accion |-> "empty"]

(* Mutated: the two names of a 04 in the order of an 08; one field more of *)
(* a 00; one of a 01.                                                      *)
MembersSwapped(c) ==
  CASE c = "0" -> <<"accion", "usuario", "ip", "puerto", "status">>
    [] c = "4" -> <<"accion", "usuario2", "usuario">>
    [] OTHER -> <<>>
MembersMore(c) ==
  IF c = "0" THEN <<"accion", "usuario", "ip", "puerto", "status", "message">>
  ELSE <<>>
MembersOfTaken(c) ==
  CASE c = "0" -> <<"accion", "usuario", "ip", "puerto", "status">>
    [] c = "1" -> <<"accion", "usuario", "ip", "status">>
    [] OTHER -> <<>>

(* The members of the protocol that are filled, one from each field, by    *)
(* the second character of the text.                                       *)
Members(c) ==
  CASE c \in {"0", "5"} -> <<"accion", "usuario", "ip", "puerto", "status">>
    [] c = "1" -> <<"accion", "usuario", "ip">>
    [] c \in {"2", "6"} -> <<"accion", "usuario">>
    [] c = "3" -> <<"accion", "usuario", "status">>
    [] c = "4" -> <<"accion", "usuario", "usuario2">>
    [] c = "7" -> <<"accion", "usuario", "listaUsuarios">>
    [] c = "8" -> <<"accion", "usuario", "usuario2", "message">>
    [] OTHER -> <<>>

Filled(c) == {Members(c)[k] : k \in DOMAIN Members(c)}
Place(c, x) == CHOOSE k \in DOMAIN Members(c) : Members(c)[k] = x

(* strcpy() to the array of a member.                                      *)
Copied(x, field) == IF field \in Long[x] THEN Spoilt ELSE field

(* Members are filled from the first to the last of the struct, so what    *)
(* runs on into the next one is overwritten, but for the puerto: it lies   *)
(* behind the status and is filled before it.                              *)
Filling(c, text) ==
  [x \in Filled(c) |->
     IF x = "puerto" /\ text[Place(c, "status")] \in Long["status"] THEN Spoilt
     ELSE Copied(x, text[Place(c, x)])]

(* A text without a known digit leaves the protocol empty.  Of the list of *)
(* an 07 only the first entry is read: the inner strtok_r() has passed the *)
(* whole text before it looks for "&".                                     *)
Interpret(text) ==
  IF text = <<>> THEN Crash
  ELSE
    LET c == Second[text[1]]
    IN  IF \/ Len(text) < Len(Members(c))
           \/ c = "7" /\ text[3] \notin Entries
        THEN Crash
        ELSE IF Members(c) = <<>> THEN Empty
        ELSE Filling(c, text)

(* What was written behind the last array of the struct, which ends with   *)
(* the message, or behind those on the stack: the list of an 07 and the    *)
(* user that is taken from it.                                             *)
Overrun(p) ==
  \E x \in DOMAIN p \cap {"message", "listaUsuarios"} : p[x] = Spoilt

=============================================================================
