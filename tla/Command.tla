------------------------------- MODULE Command -------------------------------
(***************************************************************************)
(* One command on its way in and out (execute_command and                  *)
(* execute_command_unchecked, src/plat/mod.rs): the size in the request's  *)
(* header decides what the library sees of the caller's slice, and the     *)
(* library may answer in a buffer of its own.  With it go the locality the *)
(* host assigns to commands and its encoding (src/plat/api/locality.rs).   *)
(*                                                                         *)
(* ExecuteCommand is external: it reads the locality, and answers in the   *)
(* response slice, in a static buffer, or as it never should.              *)
(***************************************************************************)
EXTENDS Integers, FiniteSetsExt

CONSTANTS
  RequestLens,      \* lengths of the caller's request slice
  HeaderSizes,      \* what its bytes 2 to 5 may say, a u32
  ResponseLens,     \* lengths of the caller's response slice
  AnswerSizes,      \* lengths of the library's answers
  CmdU32Mod,        \* 2^32
  LocalityBytes     \* the bytes a host may name a locality by

ASSUME CommandAssumption ==
  /\ RequestLens \cup ResponseLens \cup AnswerSizes \subseteq Nat
  /\ CmdU32Mod \in Nat \ {0} /\ HeaderSizes \subseteq 0 .. CmdU32Mod - 1
  /\ LocalityBytes \subseteq 0 .. 255

VARIABLES
  cmdstage,      \* "idle", "library", "back" or "panicked"
  request,       \* the caller's request: its length, the size in its header
  handed,        \* the size the library was handed
  roomfor,       \* the length of the caller's response slice
  response,      \* whose bytes that slice begins with, and how many
  answer,        \* where the library put its answer, and its size
  cmdresult,     \* what the call returned: a size, or -1 for an error
  locality,      \* LocalityState.locality
  assigned,      \* history: the last locality the host assigned
  seenlocality   \* the locality the library saw in the last command

cmdvars == <<cmdstage, request, handed, roomfor, response, answer, cmdresult,
             locality, assigned, seenlocality>>

NoAnswer == [at |-> "response", size |-> 0]
Old == [of |-> "caller", size |-> 0]

CmdInit ==
  /\ cmdstage = "idle"
  /\ request = [len |-> 0, header |-> 0]
  /\ handed = 0 /\ roomfor = 0
  /\ response = Old /\ answer = NoAnswer
  /\ cmdresult = -1
  /\ locality = 0 /\ assigned = 0 /\ seenlocality = 0

-----------------------------------------------------------------------------
(* Locality                                                                *)

\* Locality::try_from and ExtendedLocality::try_from; {} is an error.
LocalityOf(b) ==
  IF b \in 0 .. 4 THEN {[kind |-> "L", value |-> b]}
  ELSE IF b >= 32 THEN {[kind |-> "extended", value |-> b]}
  ELSE {}

\* u8::from(Locality)
LocalityByte(l) == l.value

\* The host converts a byte, and calls set_locality if it can.
SetLocalityByte ==
  /\ cmdstage = "idle"
  /\ \E b \in LocalityBytes : \E l \in LocalityOf(b) :
       /\ locality' = LocalityByte(l)
       /\ assigned' = b
  /\ UNCHANGED <<cmdstage, request, handed, roomfor, response, answer,
                 cmdresult, seenlocality>>

-----------------------------------------------------------------------------
(* execute_command                                                         *)

\* The header's size is only asked to be there.
HeaderPresent(r) == r.len >= 6

\* request.get(2..6) is Some, and the size it holds is not above the length,
\* as a u32.
HeaderFits(r) == r.len >= 6 /\ r.header <= r.len % CmdU32Mod

Refuse ==
  /\ cmdstage = "idle"
  /\ \E n \in RequestLens, h \in HeaderSizes, m \in ResponseLens :
       /\ ~HeaderFits([len |-> n, header |-> h])
       /\ request' = [len |-> n, header |-> h]
       /\ roomfor' = m
  /\ response' = Old
  /\ cmdresult' = -1
  /\ UNCHANGED <<cmdstage, handed, answer, locality, assigned, seenlocality>>

Enter ==
  /\ cmdstage = "idle"
  /\ \E n \in RequestLens, h \in HeaderSizes, m \in ResponseLens :
       /\ HeaderFits([len |-> n, header |-> h])
       /\ request' = [len |-> n, header |-> h]
       /\ handed' = Min({n, h})
       /\ roomfor' = m
  /\ response' = Old
  /\ cmdstage' = "library"
  /\ UNCHANGED <<answer, cmdresult, locality, assigned, seenlocality>>

\* ExecuteCommand: an answer in the response slice fits it.
LibraryAnswers ==
  /\ cmdstage = "library"
  /\ seenlocality' = locality
  /\ \E at \in {"response", "static", "request", "null"}, n \in AnswerSizes :
       /\ at = "response" => n <= roomfor
       /\ answer' = [at |-> at, size |-> n]
       /\ response' = IF at = "response" THEN [of |-> "library", size |-> n]
                      ELSE response
  /\ cmdstage' = "back"
  /\ UNCHANGED <<request, handed, roomfor, cmdresult, locality, assigned>>

\* An answer elsewhere is left where it is.
LeaveAnswer ==
  /\ UNCHANGED response
  /\ cmdresult' = answer.size
  /\ cmdstage' = "idle"

\* The answer is in the caller's slice, or copied into it; the panics end the
\* call only.
TakeAnswer ==
  \/ /\ answer.at = "response"
     /\ UNCHANGED response
     /\ cmdresult' = answer.size
     /\ cmdstage' = "idle"
  \/ /\ answer.at = "static" /\ answer.size <= roomfor
     /\ response' = [of |-> "library", size |-> answer.size]
     /\ cmdresult' = answer.size
     /\ cmdstage' = "idle"
  \/ /\ \/ answer.at \in {"request", "null"}
        \/ answer.at = "static" /\ answer.size > roomfor
     /\ UNCHANGED <<response, cmdresult>>
     /\ cmdstage' = "panicked"

ExecuteReturns ==
  /\ cmdstage = "back"
  /\ TakeAnswer
  /\ UNCHANGED <<request, handed, roomfor, answer, locality, assigned,
                 seenlocality>>

\* The host catches the panic and goes on.
PanicCaught ==
  /\ cmdstage = "panicked"
  /\ cmdstage' = "idle"
  /\ cmdresult' = -1
  /\ UNCHANGED <<request, handed, roomfor, response, answer, locality,
                 assigned, seenlocality>>

CmdNext ==
  \/ SetLocalityByte \/ Refuse \/ Enter \/ LibraryAnswers \/ ExecuteReturns
  \/ PanicCaught

CmdSpec == CmdInit /\ [][CmdNext]_cmdvars

-----------------------------------------------------------------------------
(* Properties                                                              *)

\* The library is handed what the host gave: exactly the bytes the header
\* announces, which the caller's slice has, also where a length above 4 GiB
\* loses its upper bits in the comparison; and the locality assigned last, no
\* byte that is not a locality and none changed by the conversion to Locality
\* and back.  (mod.rs:292-315, locality.rs:55-126)
HandedWhatHostGave ==
  /\ cmdstage \in {"library", "back"} =>
       handed = request.header /\ handed <= request.len
  /\ cmdstage = "back" => seenlocality = assigned
  /\ seenlocality \in 0 .. 4 \cup 32 .. 255

\* A size that execute_command returns is the size of an answer that is whole
\* in the caller's slice, wherever the library had put it.  (mod.rs:255-289)
AnswerIsInSlice ==
  cmdstage = "idle" /\ cmdresult >= 0 =>
    /\ response = [of |-> "library", size |-> cmdresult]
    /\ cmdresult <= roomfor
=============================================================================
