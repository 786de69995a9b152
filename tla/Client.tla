-------------------------------- MODULE Client --------------------------------
(***************************************************************************)
(* The client of src/client.c: the thread of main(), which sends what its  *)
(* user asks for, and the thread of sreader(), which reads what the server *)
(* writes.  Requests and answers go through interpret(): see Parser.       *)
(*                                                                         *)
(* The server is modelled by what it writes to one client, for any state   *)
(* of the other clients; how it gets there is the module Server.  It goes  *)
(* down here by what this client sends.                                    *)
(*                                                                         *)
(* A request is a frame of BUFFER_SIZE bytes.  Of the answers only 05 is a *)
(* frame: the others are written without padding, so one read may return   *)
(* several, and the first bytes of a 05 whose zeros the next read returns. *)
(* (A read returns at most two here.)  In texts that are joined the end of *)
(* one and the accion of the next are one field, Glued.  The "\n" at the   *)
(* end of an answer is left out.  Texts of users have two characters or    *)
(* more.  A name leaves room for the other fields of a frame.              *)
(*                                                                         *)
(* Bounds: the user makes MaxRequests choices, and the server writes       *)
(* MaxAnswers times.                                                       *)
(***************************************************************************)
EXTENDS Parser

CONSTANTS
  User,          \* argv[3]
  Inputs,        \* what scanInput() may return: texts, as fields
  Big,           \* those that leave no room behind them in a frame
  Statuses,      \* the states of the other users
  Texts,         \* the messages other users send
  Lists,         \* the entries of an 07
  Glued,         \* Glued[x]: x with the first field of another text behind it
  Garbage,       \* what a buffer may hold that was never set
  MaxRequests,
  MaxAnswers

(* The messages of the protocol, and their second characters.              *)
Codes == {<<"00", "0">>, <<"01", "1">>, <<"02", "2">>, <<"03", "3">>,
          <<"04", "4">>, <<"05", "5">>, <<"06", "6">>, <<"07", "7">>,
          <<"08", "8">>}

ASSUME ClientAssumption ==
  /\ User \in Words
  /\ Inputs \subseteq Seq(Words) /\ Big \subseteq Inputs \ {<<>>}
  /\ Statuses \subseteq Words /\ Texts \subseteq Words
  /\ Lists \subseteq Seq(Entries)
  /\ Glued \in [Words -> Words]
  /\ \A x \in Words : /\ Second[Glued[x]] = Second[x]
                      /\ Glued[x] \in Long["accion"]
                      /\ x \in Entries => Glued[x] \in Entries
  /\ Garbage \subseteq Seq(Words) \ {<<>>}
  /\ {"192.168.0.1", "1100", "0"} \subseteq Words
  /\ "192.168.0.1" \notin Long["ip"] /\ "1100" \notin Long["puerto"]
  /\ "0" \notin Long["status"]
  /\ \A c \in Codes : /\ c[1] \in Words /\ Second[c[1]] = c[2]
                      /\ c[1] \notin Long["accion"]
  /\ MaxRequests \in Nat /\ MaxAnswers \in Nat

VARIABLES
  main,       \* where main() is
  reader,     \* whether sreader() runs
  process,    \* "runs", or how the client ended
  fresh,      \* the buffer of sreader() was never set
  asked,      \* history: what the user asked for, a request each
  requests,   \* the frames the server has not read
  answers,    \* what the server wrote and the client has not read
  server,     \* "open", "closed" by a 02, or "down"
  understood, \* history: what the server understood, a request each
  sent,       \* history: what the server told, an answer each
  shown       \* history: what sreader() printed, for each answer it has read

vars == <<main, reader, process, fresh, asked, requests, answers, server,
          understood, sent, shown>>

Asked == [accion : {"00", "02", "03", "04", "06", "08"}, inputs : Seq(Inputs)]

(* What an answer tells.                                                   *)
Sent == [accion : {"01"}, usuario : Words, ip : Words]
        \cup [accion : {"05"}, usuario : Words, ip : Words, puerto : Words,
              status : Words]
        \cup [accion : {"07"}, usuario : Words, lista : Seq(Entries)]
        \cup [accion : {"08"}, message : Words]

(* padding: a frame; text is <<>> for the rest of a frame that was cut.    *)
Answer == [text : Seq(Words), padding : BOOLEAN]

(* The line that sreader() prints for a protocol.                          *)
Lines == [accion : {"nothing", "01", "07"}]
         \cup [accion : {"05"}, ip : Words, puerto : Words, status : Words]

(* read: whether the answer was read alone, with another answer in the     *)
(* same buffer, or with what the buffer held before.                       *)
Shown == [text : Seq(Words), line : Lines,
          read : {"alone", "joined", "garbage"}]

TypeOK ==
  /\ main \in {"start", "create", "menu", "close", "exit"}
  /\ reader \in BOOLEAN /\ fresh \in BOOLEAN
  /\ process \in {"runs", "exit", "crash", "killed"}
  /\ asked \in Seq(Asked)
  /\ requests \in Seq(Seq(Words))
  /\ answers \in Seq(Answer)
  /\ server \in {"open", "closed", "down"}
  /\ Len(requests) <= Len(asked)
  /\ sent \in Seq(Sent) /\ Len(sent) <= MaxAnswers
  /\ shown \in Seq(Shown)

Init ==
  /\ main = "start" /\ reader = FALSE /\ process = "runs" /\ fresh = TRUE
  /\ asked = <<>> /\ requests = <<>> /\ answers = <<>>
  /\ server = "open"
  /\ understood = <<>> /\ sent = <<>> /\ shown = <<>>

-----------------------------------------------------------------------------
(* main()                                                                  *)

(* snprintf() of an input and what follows it.                             *)
Before(input, rest) == IF input \in Big THEN input ELSE input \o rest

(* The snprintf() of each request.                                         *)
Format(accion, inputs) ==
  CASE accion = "00" -> <<"00", User, "192.168.0.1", "1100", "0">>
    [] accion = "02" -> <<"02", User>>
    [] accion = "03" -> <<"03", User>> \o inputs[1]
    [] accion = "04" -> <<"04">> \o Before(inputs[1], <<User>>)
    [] accion = "06" -> <<"06", User>>
    [] accion = "08" -> <<"08", User>> \o Before(inputs[1], inputs[2])

(* How many lines the user enters for it.                                  *)
Entered(accion) ==
  CASE accion = "08" -> 2 [] accion \in {"03", "04"} -> 1 [] OTHER -> 0

(* sendRequest(): a write to a connection the server has closed fails, and *)
(* alert() ends the process, or raises SIGPIPE.                            *)
Request(accion, to) ==
  \E inputs \in [1..Entered(accion) -> Inputs] :
    /\ process = "runs"
    /\ asked' = Append(asked, [accion |-> accion, inputs |-> inputs])
    /\ requests' = Append(requests, Format(accion, inputs))
    /\ \/ main' = to /\ process' = process
       \/ main' = main /\ process' \in {"exit", "killed"} /\ server # "open"
    /\ UNCHANGED <<reader, fresh, answers, server, understood, sent, shown>>

Register == main = "start" /\ Request("00", "create")

(* pthread_create(), and the first test of the loop: opcion is not set.    *)
CreateReader ==
  /\ process = "runs" /\ main = "create"
  /\ main' = "menu"
  /\ reader' = TRUE
  /\ process' \in {"runs", "exit"}
  /\ UNCHANGED <<fresh, asked, requests, answers, server, understood, sent,
                 shown>>

(* Options 1 to 4.                                                         *)
Choose ==
  /\ main = "menu"
  /\ Len(asked) <= MaxRequests
  /\ \E accion \in {"03", "04", "06", "08"} : Request(accion, "menu")

(* Option 5: 02, close(sockfd), exit(0).                                   *)
Quit == main = "menu" /\ Len(asked) <= MaxRequests /\ Request("02", "close")

CloseSocket ==
  /\ process = "runs" /\ main = "close"
  /\ main' = "exit"
  /\ UNCHANGED <<reader, process, fresh, asked, requests, answers, server,
                 understood, sent, shown>>

(* exit(0)                                                                 *)
Exit ==
  /\ process = "runs" /\ main = "exit"
  /\ process' = "exit"
  /\ UNCHANGED <<main, reader, fresh, asked, requests, answers, server,
                 understood, sent, shown>>

(* main() returns: atoi() takes a line without a number for option 0.      *)
Leave ==
  /\ process = "runs" /\ main = "menu"
  /\ process' = "exit"
  /\ UNCHANGED <<main, reader, fresh, asked, requests, answers, server,
                 understood, sent, shown>>

-----------------------------------------------------------------------------
(* sreader()                                                               *)

Nothing == [accion |-> "nothing"]

(* The line that is printed for a protocol: of an 07, that it came.        *)
Show(p) ==
  CASE p.accion = "05" -> [accion |-> "05", ip |-> p.ip, puerto |-> p.puerto,
                           status |-> p.status]
    [] p.accion \in {"01", "07"} -> [accion |-> p.accion]
    [] OTHER -> Nothing

(* The text is printed as it was received, and then what it says; skipped  *)
(* are the answers whose texts were read with it.                          *)
Printed(text, line, read, skipped) ==
  shown' = Append(shown, [text |-> text, line |-> line, read |-> read])
           \o skipped

(* Mutated: the client goes on after an 01.                                *)
GoesOn(p) == process

(* An 01 ends the client.                                                  *)
After(p) == IF p.accion = "01" THEN "exit" ELSE process

(* What sreader() does with what it has read.                              *)
Handle(text, read, skipped) ==
  LET p == Interpret(text)
  IN  \/ /\ p = Crash \/ Overrun(p)
         /\ process' = "crash" /\ Printed(text, Nothing, read, skipped)
      \/ /\ p # Crash
         /\ process' = After(p) /\ Printed(text, Show(p), read, skipped)

(* Two texts in one buffer; a zero byte ends a text.                       *)
Join(one, other) ==
  IF one = <<>> THEN <<>>
  ELSE [one EXCEPT ![Len(one)] = Glued[@]] \o Tail(other)

(* A text in a buffer that was never set, with what may be behind it: in a *)
(* field of its own or in the last field of the text.                      *)
Behind(text) ==
  {text \o g : g \in Garbage} \cup {Join(text, g) : g \in Garbage}

(* The rest of a frame, and an answer whose text was read with another.    *)
Rest == [text |-> <<>>, padding |-> TRUE]
Skipped == [text |-> <<>>, line |-> Nothing, read |-> "joined"]

(* read() returns the next answer ...                                      *)
ReadOne ==
  /\ process = "runs" /\ reader
  /\ answers # <<>>
  /\ answers' = Tail(answers)
  /\ fresh' = FALSE
  /\ LET one == Head(answers)
     IN  \/ Handle(one.text, IF one = Rest THEN "joined" ELSE "alone", <<>>)
         \/ /\ fresh /\ ~one.padding
            /\ \E text \in Behind(one.text) : Handle(text, "garbage", <<>>)
  /\ UNCHANGED <<main, reader, asked, requests, server, understood, sent>>

(* ... or two of them; of a frame that follows the rest stays behind.      *)
ReadTwo ==
  /\ process = "runs" /\ reader
  /\ Len(answers) >= 2
  /\ answers' = (IF answers[2].padding THEN <<Rest>> ELSE <<>>)
                \o Tail(Tail(answers))
  /\ fresh' = FALSE
  /\ LET one == answers[1]  other == answers[2]
         text == Join(one.text, other.text)
         skipped == IF other.padding THEN <<>> ELSE <<Skipped>>
     IN  /\ one.padding => one = Rest
         /\ \/ Handle(text, "joined", skipped)
            \/ /\ fresh /\ ~other.padding
               /\ \E more \in Behind(text) : Handle(more, "garbage", skipped)
  /\ UNCHANGED <<main, reader, asked, requests, server, understood, sent>>

(* read() returns 0, and interpret() crashes on the empty buffer, unless   *)
(* it was never set ...                                                    *)
ReadEnd ==
  /\ process = "runs" /\ reader
  /\ server # "open" /\ answers = <<>>
  /\ \/ process' = "crash"
     \/ /\ fresh
        /\ \E text \in Garbage :
             LET p == Interpret(text)
             IN  p # Crash /\ process' = After(p)
  /\ fresh' = FALSE
  /\ UNCHANGED <<main, reader, asked, requests, answers, server, understood,
                 sent, shown>>

(* ... or -1: the server left requests unread, or close(sockfd) was first. *)
ReadFails ==
  /\ process = "runs" /\ reader
  /\ (server # "open" /\ requests # <<>>) \/ main = "exit"
  /\ process' = "exit"
  /\ UNCHANGED <<main, reader, fresh, asked, requests, answers, server,
                 understood, sent, shown>>

ReaderStep == ReadOne \/ ReadTwo \/ ReadEnd \/ ReadFails

-----------------------------------------------------------------------------
(* The server: new_message_handler() and switch_protocol_handler().        *)

(* The snprintf() of each answer; an 08 is forwarded as the bare text.     *)
Wire(m) ==
  CASE m.accion = "01" -> <<"01", m.usuario, m.ip>>
    [] m.accion = "05" -> <<"05", m.usuario, m.ip, m.puerto, m.status>>
    [] m.accion = "07" -> <<"07", m.usuario>> \o m.lista
    [] m.accion = "08" -> <<m.message>>

(* write(): BUFFER bytes of a 05, and strlen() of the others.              *)
Written(m) == [text |-> Wire(m), padding |-> m.accion = "05"]

Tell(m) ==
  /\ Len(sent) < MaxAnswers
  /\ sent' = Append(sent, m)
  /\ answers' = Append(answers, Written(m))

Silent == UNCHANGED <<answers, sent>>

(* 01, or nothing.                                                         *)
AnswerRegister(p) ==
  \/ Silent
  \/ Tell([accion |-> "01", usuario |-> p.usuario, ip |-> p.ip])

(* 05, unless the name is not registered.                                  *)
AnswerInfo(p) ==
  \/ Silent
  \/ \E status \in Statuses :
       Tell([accion |-> "05", usuario |-> p.usuario, ip |-> "192.168.0.1",
             puerto |-> "1100", status |-> status])

(* 07, with every user of client_map.                                      *)
AnswerList(p) ==
  \E list \in Lists :
    Tell([accion |-> "07", usuario |-> p.usuario, lista |-> list])

(* Mutated: the frame is read again.                                       *)
UnreadAll == requests

(* The frames left once one was read.                                      *)
Unread == Tail(requests)

(* recv() and interpret(), and what is done with the protocol: a 02 closes *)
(* the connection if its name is registered.                               *)
Serve ==
  /\ server = "open"
  /\ requests # <<>>
  /\ requests' = Unread
  /\ LET p == Interpret(Head(requests))
         does(accion) == p # Crash /\ p.accion = accion
     IN  /\ understood' = Append(understood, p)
         /\ \/ p = Crash /\ server' = "down" /\ Silent
            \/ does("02") /\ server' \in {"open", "closed"} /\ Silent
            \/ does("00") /\ server' = server /\ AnswerRegister(p)
            \/ does("04") /\ server' = server /\ AnswerInfo(p)
            \/ does("06") /\ server' = server /\ AnswerList(p)
            \/ (does("03") \/ does("08")) /\ server' = server /\ Silent
  /\ UNCHANGED <<main, reader, process, fresh, asked, shown>>

(* What is too long for the heap of the server: a message behind the       *)
(* protocol, a name or a status in the list that concat_clients() puts     *)
(* together in BUFFER bytes.                                               *)
TooMuch(p) ==
  /\ p # Crash
  /\ \/ Overrun(p)
     \/ p.accion = "00" /\ p.usuario = Spoilt
     \/ p.accion = "03" /\ p.status = Spoilt

(* malloc() finds the heap overrun, sooner or later or never.              *)
Abort ==
  /\ server = "open"
  /\ \E k \in DOMAIN understood : TooMuch(understood[k])
  /\ server' = "down"
  /\ UNCHANGED <<main, reader, process, fresh, asked, requests, answers,
                 understood, sent, shown>>

(* An 08 of another client, once this one is registered.                   *)
Forward ==
  /\ server = "open" /\ understood # <<>>
  /\ \E text \in Texts : Tell([accion |-> "08", message |-> text])
  /\ UNCHANGED <<main, reader, process, fresh, asked, requests, server,
                 understood, shown>>

(* The client ended.                                                       *)
Idle == process # "runs" /\ UNCHANGED vars

Next ==
  \/ Register \/ CreateReader \/ Choose \/ Quit \/ CloseSocket \/ Exit
  \/ Leave
  \/ ReaderStep
  \/ Serve \/ Abort \/ Forward
  \/ Idle

Spec == Init /\ [][Next]_vars

(* Both threads run; the user need not choose anything.                    *)
FairSpec == Spec /\ WF_vars(Register \/ CreateReader \/ CloseSocket \/ Exit)
                 /\ WF_vars(ReaderStep)

-----------------------------------------------------------------------------
(* What the user wants the server to read, member by member.               *)
Meant(r) ==
  CASE r.accion = "00" -> [accion |-> "00", usuario |-> User,
                           ip |-> "192.168.0.1", puerto |-> "1100",
                           status |-> "0"]
    [] r.accion \in {"02", "06"} -> [accion |-> r.accion, usuario |-> User]
    [] r.accion = "03" -> [accion |-> "03", usuario |-> User,
                           status |-> r.inputs[1][1]]
    [] r.accion = "04" -> [accion |-> "04", usuario |-> r.inputs[1][1],
                           usuario2 |-> User]
    [] r.accion = "08" -> [accion |-> "08", usuario |-> User,
                           usuario2 |-> r.inputs[1][1],
                           message |-> r.inputs[2][1]]

(* Its inputs are neither empty nor hold a separator, and leave room for   *)
(* each other in the frame; what is meant fits the arrays of the parser.   *)
Plain(r) ==
  /\ \A l \in DOMAIN r.inputs : Len(r.inputs[l]) = 1 /\ r.inputs[l] \notin Big
  /\ \A x \in DOMAIN Meant(r) : Meant(r)[x] \notin Long[x]

(* The snprintf() of the client and the strtok_r() of the server agree: a  *)
(* request is read as it was meant, in whatever order it was sent, if its  *)
(* inputs are neither empty nor hold a separator and if its fields fit the *)
(* frame of 1024 bytes and the arrays of parser.h.                         *)
ReadAsMeant ==
  \A k \in DOMAIN understood :
    Plain(asked[k]) => understood[k] = Meant(asked[k])

(* An input that leaves no room in the frame for what follows it, or has a *)
(* field that is too long to be kept as a message or a status.             *)
TooLong(input) ==
  \/ input \in Big
  \/ \E j \in DOMAIN input : input[j] \in Long["message"] \cup Long["status"]

(* Of what one user enters only three things take the server down: nothing *)
(* at all, so that interpret() misses a field, an input that is too long,  *)
(* which makes it miss the field behind it or overruns the heap, and a     *)
(* name that is too long.                                                  *)
DownByInput ==
  server = "down" =>
    \/ User \in Long["usuario"]
    \/ \E k \in DOMAIN asked : \E l \in DOMAIN asked[k].inputs :
         asked[k].inputs[l] = <<>> \/ TooLong(asked[k].inputs[l])

(* The members of a 05 that sreader() prints fit their arrays.             *)
Fits(m) ==
  m.accion = "05" =>
    /\ m.ip \notin Long["ip"] /\ m.puerto \notin Long["puerto"]
    /\ m.status \notin Long["status"]

(* An answer that sreader() can read: not an 07 without users or with a    *)
(* first one that is too long, nor a text that looks like a message.       *)
Readable(m) ==
  /\ Fits(m)
  /\ m.accion = "07" => /\ m.lista # <<>>
                        /\ m.lista[1] \notin Long["listaUsuarios"]
  /\ m.accion = "08" => Members(Second[m.message]) = <<>>

(* What sreader() may print for an answer.                                 *)
Tells(x, m) ==
  /\ x.read = "alone" => /\ x.text = Wire(m)
                         /\ Readable(m) => x.line = Show(m)
  /\ x.read # "garbage" /\ Fits(m) => x.line \in {Nothing, Show(m)}

(* What sreader() prints for the k-th answer of the server.  An answer     *)
(* that is read alone is printed as the server wrote it, an 07 with all    *)
(* its users, and if it can be read the line below says what the server    *)
(* told: the address and status of a 05, that an 01 or 07 came and, unlike *)
(* the text above it, nothing of the list.  Whatever texts are read        *)
(* together, no line is printed but that of the answer: a text of another  *)
(* user is never taken for an 01, 05 or 07.  (Only what a buffer held that *)
(* was never set can do that.)  sreader() crashes only at the end of the   *)
(* connection and on an answer that it cannot read or did not read alone.  *)
ToldInOrder ==
  /\ \A k \in DOMAIN shown : Tells(shown[k], sent[k])
  /\ process = "crash" =>
       \/ server # "open"
       \/ \E k \in DOMAIN shown :
            shown[k].read # "alone" \/ ~Readable(sent[k])

-----------------------------------------------------------------------------
(* The inductive invariant.                                                *)

(* The frame of a request.                                                 *)
Frame(r) == Format(r.accion, r.inputs)

(* The frames that wait are those of the last requests, and what the       *)
(* server understood are the first ones, read by interpret().              *)
RequestInv ==
  /\ \A k \in DOMAIN asked :
       Len(asked[k].inputs) = Entered(asked[k].accion)
  /\ requests = [k \in 1..Len(requests) |->
                   Frame(asked[Len(asked) - Len(requests) + k])]
  /\ understood = [k \in 1..(Len(asked) - Len(requests)) |->
                     Interpret(Frame(asked[k]))]

(* The server is down once interpret() has crashed there, or the heap was  *)
(* overrun.                                                                *)
DownInv ==
  server = "down" =>
    \E k \in DOMAIN understood :
      understood[k] = Crash \/ TooMuch(understood[k])

(* The answers that wait are the last ones that were sent.  The first may  *)
(* be the rest of a frame: then something was joined.  A buffer that was   *)
(* never set has nothing printed.                                          *)
AnswerInv ==
  /\ Len(sent) = Len(shown) + Len(answers)
  /\ \A k \in DOMAIN answers :
       LET m == sent[Len(shown) + k]
       IN  \/ answers[k] = Written(m)
           \/ /\ answers[k] = Rest /\ k = 1
              /\ \E l \in DOMAIN shown : shown[l].read # "alone"

IInv == TypeOK /\ RequestInv /\ DownInv /\ AnswerInv /\ ToldInOrder

-----------------------------------------------------------------------------
(* A client whose name is taken ends, unless the 01 was read behind other  *)
(* texts.                                                                  *)
TakenEnds ==
  (\E k \in DOMAIN answers :
     answers[k].text # <<>> /\ answers[k].text[1] = "01")
  ~> (process # "runs" \/ \E k \in DOMAIN shown : shown[k].read = "joined")

=============================================================================
