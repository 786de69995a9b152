----------------------------- MODULE ClientProofs -----------------------------
(***************************************************************************)
(* Theorems about Client, and the parser it shares with the server, proved *)
(* for any words, inputs, texts, lists and bounds:                         *)
(*   Invariance         IInv, the inductive invariant                      *)
(*   UnderstoodAsMeant  the server reads what the user meant               *)
(*   DownOnlyByInput    what a user must enter to take the server down     *)
(*   AnswersInOrder     what sreader() prints of the answers, in order     *)
(* First, what interpret() makes of each kind of text; with it, what the   *)
(* server reads of a request and the client of an answer.  The steps are   *)
(* then about sequences: the frames that wait are the last requests, and   *)
(* the answers that wait are the last ones of the server.                  *)
(***************************************************************************)
EXTENDS Client, SequenceTheorems, TLAPS

(* The second character of the accion of a message.                        *)
LEMMA SecondOfCode ==
  /\ Second["00"] = "0" /\ Second["01"] = "1" /\ Second["02"] = "2"
  /\ Second["03"] = "3" /\ Second["04"] = "4" /\ Second["05"] = "5"
  /\ Second["06"] = "6" /\ Second["07"] = "7" /\ Second["08"] = "8"
  /\ {"00", "01", "02", "03", "04", "05", "06", "07", "08"} \subseteq Words
BY ClientAssumption DEF ClientAssumption, Codes

(* interpret() takes the second character of a text to split it.           *)
LEMMA Split ==
  ASSUME NEW text \in Seq(Words), text # <<>>
  PROVE  LET c == Second[text[1]]
         IN  Interpret(text) =
               IF \/ Len(text) < Len(Members(c))
                  \/ c = "7" /\ text[3] \notin Entries
               THEN Crash
               ELSE IF Members(c) = <<>> THEN Empty
               ELSE Filling(c, text)
BY DEF Interpret

(* But for a text with a puerto, each member is a copy of its field.       *)
LEMMA CopiedAll ==
  ASSUME NEW c, "puerto" \notin Filled(c), NEW text
  PROVE  Filling(c, text) = [x \in Filled(c) |-> Copied(x, text[Place(c, x)])]
BY DEF Filling

(* interpret() on each number of members that a message has: a text with   *)
(* fewer fields crashes it, and of a longer one each member takes the      *)
(* field that has its place in the list, if it is not too long.            *)
LEMMA ReadUser ==
  ASSUME NEW text \in Seq(Words), text # <<>>,
         Second[text[1]] \in {"2", "6"}
  PROVE  Interpret(text) =
           IF Len(text) < 2 THEN Crash
           ELSE [accion |-> Copied("accion", text[1]),
                 usuario |-> Copied("usuario", text[2])]
<1> DEFINE c == Second[text[1]]
<1>0. c \in {"2", "6"}
  OBVIOUS
<1> HIDE DEF c
<1>1. Members(c) = <<"accion", "usuario">>
  BY <1>0 DEF Members
<1>2. Len(Members(c)) = 2 /\ Members(c) # <<>>
  <2>1. Len(Members(c)) = 2
    BY <1>1
  <2>2. Len(<<>>) # 2
    OBVIOUS
  <2> QED
    BY <2>1, <2>2, Zenon
<1>3. Filled(c) = {"accion", "usuario"}
  BY <1>1 DEF Filled
<1>4. /\ Place(c, "accion") = 1 /\ Place(c, "usuario") = 2
  BY <1>1 DEF Place
<1>5. Interpret(text) =
        IF Len(text) < 2 THEN Crash
        ELSE Filling(c, text)
  BY <1>0, <1>2, Split DEF c
<1>6. Filling(c, text) = [x \in Filled(c) |-> Copied(x, text[Place(c, x)])]
  BY <1>3, CopiedAll
<1> QED
  BY <1>3, <1>4, <1>5, <1>6

LEMMA ReadTaken ==
  ASSUME NEW text \in Seq(Words), text # <<>>, Second[text[1]] = "1"
  PROVE  Interpret(text) =
           IF Len(text) < 3 THEN Crash
           ELSE [accion |-> Copied("accion", text[1]),
                 usuario |-> Copied("usuario", text[2]),
                 ip |-> Copied("ip", text[3])]
<1>1. Members("1") = <<"accion", "usuario", "ip">>
  BY DEF Members
<1>2. Len(Members("1")) = 3 /\ Members("1") # <<>>
  <2>1. Len(Members("1")) = 3
    BY <1>1
  <2>2. Len(<<>>) # 3
    OBVIOUS
  <2> QED
    BY <2>1, <2>2, Zenon
<1>3. Filled("1") = {"accion", "usuario", "ip"}
  BY <1>1 DEF Filled
<1>4. /\ Place("1", "accion") = 1 /\ Place("1", "usuario") = 2
      /\ Place("1", "ip") = 3
  BY <1>1 DEF Place
<1>5. Interpret(text) =
        IF Len(text) < 3 THEN Crash
        ELSE Filling("1", text)
  BY <1>2, Split
<1>6. Filling("1", text) =
        [x \in Filled("1") |-> Copied(x, text[Place("1", x)])]
  BY <1>3, CopiedAll
<1> QED
  BY <1>3, <1>4, <1>5, <1>6

LEMMA ReadStatus ==
  ASSUME NEW text \in Seq(Words), text # <<>>, Second[text[1]] = "3"
  PROVE  Interpret(text) =
           IF Len(text) < 3 THEN Crash
           ELSE [accion |-> Copied("accion", text[1]),
                 usuario |-> Copied("usuario", text[2]),
                 status |-> Copied("status", text[3])]
<1>1. Members("3") = <<"accion", "usuario", "status">>
  BY DEF Members
<1>2. Len(Members("3")) = 3 /\ Members("3") # <<>>
  <2>1. Len(Members("3")) = 3
    BY <1>1
  <2>2. Len(<<>>) # 3
    OBVIOUS
  <2> QED
    BY <2>1, <2>2, Zenon
<1>3. Filled("3") = {"accion", "usuario", "status"}
  BY <1>1 DEF Filled
<1>4. /\ Place("3", "accion") = 1 /\ Place("3", "usuario") = 2
      /\ Place("3", "status") = 3
  BY <1>1 DEF Place
<1>5. Interpret(text) =
        IF Len(text) < 3 THEN Crash
        ELSE Filling("3", text)
  BY <1>2, Split
<1>6. Filling("3", text) =
        [x \in Filled("3") |-> Copied(x, text[Place("3", x)])]
  BY <1>3, CopiedAll
<1> QED
  BY <1>3, <1>4, <1>5, <1>6

LEMMA ReadInfo ==
  ASSUME NEW text \in Seq(Words), text # <<>>, Second[text[1]] = "4"
  PROVE  Interpret(text) =
           IF Len(text) < 3 THEN Crash
           ELSE [accion |-> Copied("accion", text[1]),
                 usuario |-> Copied("usuario", text[2]),
                 usuario2 |-> Copied("usuario2", text[3])]
<1>1. Members("4") = <<"accion", "usuario", "usuario2">>
  BY DEF Members
<1>2. Len(Members("4")) = 3 /\ Members("4") # <<>>
  <2>1. Len(Members("4")) = 3
    BY <1>1
  <2>2. Len(<<>>) # 3
    OBVIOUS
  <2> QED
    BY <2>1, <2>2, Zenon
<1>3. Filled("4") = {"accion", "usuario", "usuario2"}
  BY <1>1 DEF Filled
<1>4. /\ Place("4", "accion") = 1 /\ Place("4", "usuario") = 2
      /\ Place("4", "usuario2") = 3
  BY <1>1 DEF Place
<1>5. Interpret(text) =
        IF Len(text) < 3 THEN Crash
        ELSE Filling("4", text)
  BY <1>2, Split
<1>6. Filling("4", text) =
        [x \in Filled("4") |-> Copied(x, text[Place("4", x)])]
  BY <1>3, CopiedAll
<1> QED
  BY <1>3, <1>4, <1>5, <1>6

LEMMA ReadFour ==
  ASSUME NEW text \in Seq(Words), text # <<>>,
         Second[text[1]] \in {"0", "5"}
  PROVE  Interpret(text) =
           IF Len(text) < 5 THEN Crash
           ELSE [accion |-> Copied("accion", text[1]),
                 usuario |-> Copied("usuario", text[2]),
                 ip |-> Copied("ip", text[3]),
                 puerto |-> IF text[5] \in Long["status"] THEN Spoilt
                            ELSE Copied("puerto", text[4]),
                 status |-> Copied("status", text[5])]
<1> DEFINE c == Second[text[1]]
<1>0. c \in {"0", "5"}
  OBVIOUS
<1> HIDE DEF c
<1>1. Members(c) = <<"accion", "usuario", "ip", "puerto", "status">>
  BY <1>0 DEF Members
<1>2. Len(Members(c)) = 5 /\ Members(c) # <<>>
  <2>1. Len(Members(c)) = 5
    BY <1>1
  <2>2. Len(<<>>) # 5
    OBVIOUS
  <2> QED
    BY <2>1, <2>2, Zenon
<1>3. Filled(c) = {"accion", "usuario", "ip", "puerto", "status"}
  BY <1>1 DEF Filled
<1>4. /\ Place(c, "accion") = 1 /\ Place(c, "usuario") = 2
      /\ Place(c, "ip") = 3 /\ Place(c, "puerto") = 4
      /\ Place(c, "status") = 5
  BY <1>1 DEF Place
<1>5. Interpret(text) =
        IF Len(text) < 5 THEN Crash
        ELSE Filling(c, text)
  BY <1>0, <1>2, Split DEF c
<1>6. Filling(c, text) =
        [accion |-> Copied("accion", text[1]),
         usuario |-> Copied("usuario", text[2]),
         ip |-> Copied("ip", text[3]),
         puerto |-> IF text[5] \in Long["status"] THEN Spoilt
                    ELSE Copied("puerto", text[4]),
         status |-> Copied("status", text[5])]
  BY <1>3, <1>4 DEF Filling
<1> QED
  BY <1>5, <1>6

LEMMA ReadMessage ==
  ASSUME NEW text \in Seq(Words), text # <<>>, Second[text[1]] = "8"
  PROVE  Interpret(text) =
           IF Len(text) < 4 THEN Crash
           ELSE [accion |-> Copied("accion", text[1]),
                 usuario |-> Copied("usuario", text[2]),
                 usuario2 |-> Copied("usuario2", text[3]),
                 message |-> Copied("message", text[4])]
<1>1. Members("8") = <<"accion", "usuario", "usuario2", "message">>
  BY DEF Members
<1>2. Len(Members("8")) = 4 /\ Members("8") # <<>>
  <2>1. Len(Members("8")) = 4
    BY <1>1
  <2>2. Len(<<>>) # 4
    OBVIOUS
  <2> QED
    BY <2>1, <2>2, Zenon
<1>3. Filled("8") = {"accion", "usuario", "usuario2", "message"}
  BY <1>1 DEF Filled
<1>4. /\ Place("8", "accion") = 1 /\ Place("8", "usuario") = 2
      /\ Place("8", "usuario2") = 3 /\ Place("8", "message") = 4
  BY <1>1 DEF Place
<1>5. Interpret(text) =
        IF Len(text) < 4 THEN Crash
        ELSE Filling("8", text)
  BY <1>2, Split
<1>6. Filling("8", text) =
        [x \in Filled("8") |-> Copied(x, text[Place("8", x)])]
  BY <1>3, CopiedAll
<1> QED
  BY <1>3, <1>4, <1>5, <1>6

(* The third field of an 07 must be an entry.                              *)
LEMMA ReadList ==
  ASSUME NEW text \in Seq(Words), text # <<>>, Second[text[1]] = "7"
  PROVE  Interpret(text) =
           IF Len(text) < 3 \/ text[3] \notin Entries THEN Crash
           ELSE [accion |-> Copied("accion", text[1]),
                 usuario |-> Copied("usuario", text[2]),
                 listaUsuarios |-> Copied("listaUsuarios", text[3])]
<1>1. Members("7") = <<"accion", "usuario", "listaUsuarios">>
  BY DEF Members
<1>2. Len(Members("7")) = 3 /\ Members("7") # <<>>
  <2>1. Len(Members("7")) = 3
    BY <1>1
  <2>2. Len(<<>>) # 3
    OBVIOUS
  <2> QED
    BY <2>1, <2>2, Zenon
<1>3. Filled("7") = {"accion", "usuario", "listaUsuarios"}
  BY <1>1 DEF Filled
<1>4. /\ Place("7", "accion") = 1 /\ Place("7", "usuario") = 2
      /\ Place("7", "listaUsuarios") = 3
  BY <1>1 DEF Place
<1>5. Interpret(text) =
        IF Len(text) < 3 \/ text[3] \notin Entries THEN Crash
        ELSE Filling("7", text)
  BY <1>2, Split
<1>6. Filling("7", text) =
        [x \in Filled("7") |-> Copied(x, text[Place("7", x)])]
  BY <1>3, CopiedAll
<1> QED
  BY <1>3, <1>4, <1>5, <1>6

(* A text that does not look like a message leaves the protocol empty.     *)
LEMMA ReadNothing ==
  ASSUME NEW text \in Seq(Words), text # <<>>,
         Members(Second[text[1]]) = <<>>
  PROVE  Interpret(text) = Empty
<1>1. Members("7") # <<>>
  BY DEF Members
<1>2. Second[text[1]] # "7"
  BY <1>1
<1>3. ~(Len(text) < Len(<<>>))
  OBVIOUS
<1> QED
  BY <1>2, <1>3, Split

(* strcpy() of a field that fits, and of one that does not.                *)
LEMMA CopiedField ==
  ASSUME NEW x \in MemberNames, NEW field \in Words
  PROVE  /\ Copied(x, field) \in Words
         /\ field \notin Long[x] => Copied(x, field) = field
         /\ Copied(x, field) = Spoilt => field \in Long[x]
BY ParserAssumption DEF ParserAssumption, Copied

(* The accion of a message fits.                                           *)
LEMMA CopiedCode ==
  /\ Copied("accion", "00") = "00" /\ Copied("accion", "01") = "01"
  /\ Copied("accion", "02") = "02" /\ Copied("accion", "03") = "03"
  /\ Copied("accion", "04") = "04" /\ Copied("accion", "05") = "05"
  /\ Copied("accion", "06") = "06" /\ Copied("accion", "07") = "07"
  /\ Copied("accion", "08") = "08"
BY ClientAssumption DEF ClientAssumption, Codes, Copied

(* A protocol that is filled is not the mark of a crash.                   *)
LEMMA FilledNotCrash ==
  ASSUME NEW p, "accion" \in DOMAIN p
  PROVE  p # Crash
<1>1. DOMAIN Crash = {"crash"}
  BY DEF Crash
<1> QED
  BY <1>1

-----------------------------------------------------------------------------
(* Requests.                                                               *)

(* The lines that a request takes from its user.                           *)
LEMMA EnteredOf ==
  /\ Entered("00") = 0 /\ Entered("02") = 0 /\ Entered("06") = 0
  /\ Entered("03") = 1 /\ Entered("04") = 1 /\ Entered("08") = 2
BY DEF Entered

(* The fields of two texts, one behind the other.                          *)
LEMMA Concat ==
  ASSUME NEW a \in Seq(Words), NEW b \in Seq(Words)
  PROVE  /\ a \o b \in Seq(Words)
         /\ Len(a \o b) = Len(a) + Len(b)
         /\ \A k \in 1..Len(a) : (a \o b)[k] = a[k]
         /\ \A k \in 1..Len(b) : (a \o b)[Len(a) + k] = b[k]
OBVIOUS

(* What a user enters with a request that the server cannot stand.         *)
TooHard(r) ==
  \/ User \in Long["usuario"]
  \/ \E l \in DOMAIN r.inputs : r.inputs[l] = <<>> \/ TooLong(r.inputs[l])

(* What interpret() makes of the frame of a request: what was meant if the *)
(* inputs are plain, and what takes the server down only if it is too      *)
(* hard.  First, one lemma for each kind of request.                       *)
FrameRead(r) ==
  LET p == Interpret(Frame(r))
  IN  /\ Frame(r) \in Seq(Words)
      /\ p = Crash \/ TooMuch(p) => TooHard(r)
      /\ Plain(r) => p = Meant(r)
      /\ p # Crash => /\ p.accion = r.accion
                      /\ p.usuario \in Words
                      /\ r.accion = "00" => p.ip \in Words

(* The fixed words of a request.                                           *)
LEMMA FixedWords ==
  /\ User \in Words /\ "192.168.0.1" \in Words
  /\ "1100" \in Words /\ "0" \in Words
  /\ Copied("ip", "192.168.0.1") = "192.168.0.1"
  /\ Copied("puerto", "1100") = "1100"
  /\ Copied("status", "0") = "0" /\ "0" \notin Long["status"]
BY ClientAssumption DEF ClientAssumption, Copied

LEMMA RegisterRead ==
  ASSUME NEW r \in Asked, r.accion = "00"
  PROVE  FrameRead(r)
<1> DEFINE f == Frame(r)
           p == Interpret(f)
           u == Copied("usuario", User)
<1>1. f = <<"00", User, "192.168.0.1", "1100", "0">>
  BY DEF Frame, Format
<1>2. /\ f \in Seq(Words) /\ f # <<>> /\ Len(f) = 5 /\ f[1] = "00"
      /\ f[2] = User /\ f[3] = "192.168.0.1" /\ f[4] = "1100" /\ f[5] = "0"
  BY <1>1, FixedWords, SecondOfCode
<1>3. u \in Words /\ (u = Spoilt => User \in Long["usuario"])
  BY FixedWords, CopiedField DEF MemberNames
<1> HIDE DEF f, u
<1>4. Second[f[1]] \in {"0", "5"} /\ ~(Len(f) < 5)
  BY <1>2, SecondOfCode
<1>5. p = [accion |-> "00", usuario |-> u, ip |-> "192.168.0.1",
           puerto |-> "1100", status |-> "0"]
  <2>1. p = [accion |-> Copied("accion", f[1]),
             usuario |-> Copied("usuario", f[2]),
             ip |-> Copied("ip", f[3]),
             puerto |-> IF f[5] \in Long["status"] THEN Spoilt
                        ELSE Copied("puerto", f[4]),
             status |-> Copied("status", f[5])]
    BY <1>2, <1>4, ReadFour, Zenon
  <2> QED
    BY <1>2, <2>1, FixedWords, CopiedCode DEF u
<1>6. p # Crash
  BY <1>5, FilledNotCrash
<1>7. TooMuch(p) => u = Spoilt
  BY <1>5 DEF TooMuch, Overrun
<1>8. Plain(r) => p = Meant(r)
  <2> SUFFICES ASSUME Plain(r)
               PROVE  p = Meant(r)
    OBVIOUS
  <2>1. Meant(r) = [accion |-> "00", usuario |-> User, ip |-> "192.168.0.1",
                    puerto |-> "1100", status |-> "0"]
    BY DEF Meant
  <2>2. User \notin Long["usuario"]
    BY <2>1 DEF Plain
  <2> QED
    BY <1>5, <2>1, <2>2 DEF Copied, u
<1> QED
  BY <1>2, <1>3, <1>5, <1>6, <1>7, <1>8, FixedWords DEF FrameRead, TooHard, f

LEMMA NameRead ==
  ASSUME NEW r \in Asked, r.accion \in {"02", "06"}
  PROVE  FrameRead(r)
<1> DEFINE f == Frame(r)
           p == Interpret(f)
           u == Copied("usuario", User)
<1>1. f = <<r.accion, User>>
  BY DEF Frame, Format
<1>2. /\ f \in Seq(Words) /\ f # <<>> /\ Len(f) = 2 /\ f[1] = r.accion
      /\ f[2] = User
  BY <1>1, FixedWords, SecondOfCode
<1>3. u \in Words
  BY FixedWords, CopiedField DEF MemberNames
<1> HIDE DEF f, u
<1>4. Second[f[1]] \in {"2", "6"} /\ ~(Len(f) < 2)
  BY <1>2, SecondOfCode
<1>5. p = [accion |-> r.accion, usuario |-> u]
  <2>1. p = [accion |-> Copied("accion", f[1]),
             usuario |-> Copied("usuario", f[2])]
    BY <1>2, <1>4, ReadUser, Zenon
  <2> QED
    BY <1>2, <2>1, CopiedCode DEF u
<1>6. p # Crash
  BY <1>5, FilledNotCrash
<1>7. ~TooMuch(p)
  BY <1>5 DEF TooMuch, Overrun
<1>8. Plain(r) => p = Meant(r)
  <2> SUFFICES ASSUME Plain(r)
               PROVE  p = Meant(r)
    OBVIOUS
  <2>1. Meant(r) = [accion |-> r.accion, usuario |-> User]
    BY DEF Meant
  <2>2. User \notin Long["usuario"]
    BY <2>1 DEF Plain
  <2> QED
    BY <1>5, <2>1, <2>2 DEF Copied, u
<1> QED
  BY <1>2, <1>3, <1>5, <1>6, <1>7, <1>8 DEF FrameRead, f

(* The inputs of a request.                                                *)
LEMMA InputsOf ==
  ASSUME NEW r \in Asked
  PROVE  /\ DOMAIN r.inputs = 1..Len(r.inputs)
         /\ \A l \in DOMAIN r.inputs : r.inputs[l] \in Seq(Words)
<1>1. r.inputs \in Seq(Inputs)
  BY DEF Asked
<1>2. Inputs \subseteq Seq(Words)
  BY ClientAssumption DEF ClientAssumption
<1> QED
  BY <1>1, <1>2

LEMMA StatusRead ==
  ASSUME NEW r \in Asked, r.accion = "03", Len(r.inputs) = 1
  PROVE  FrameRead(r)
<1> DEFINE f == Frame(r)
           p == Interpret(f)
           i == r.inputs[1]
           u == Copied("usuario", User)
           s == Copied("status", i[1])
<1>1. DOMAIN r.inputs = 1..1 /\ i \in Seq(Words) /\ 1 \in DOMAIN r.inputs
  BY InputsOf
<1>2. f = <<"03", User>> \o i
  BY DEF Frame, Format
<1>3. u \in Words
  BY FixedWords, CopiedField DEF MemberNames
<1> HIDE DEF i
<1>4. /\ f \in Seq(Words) /\ Len(f) = 2 + Len(i) /\ f[1] = "03"
      /\ f[2] = User /\ (Len(i) > 0 => f[3] = i[1])
  BY <1>1, <1>2, FixedWords, SecondOfCode
<1> HIDE DEF f, u, s
<1>5. f # <<>> /\ Second[f[1]] = "3"
  BY <1>1, <1>4, SecondOfCode
<1>6. p = IF Len(f) < 3 THEN Crash
          ELSE [accion |-> Copied("accion", f[1]),
                usuario |-> Copied("usuario", f[2]),
                status |-> Copied("status", f[3])]
  BY <1>4, <1>5, ReadStatus, Zenon
<1>7. CASE Len(i) = 0
  <2>1. TooHard(r)
    BY <1>1, <1>7 DEF TooHard, i
  <2>2. ~Plain(r)
    BY <1>1, <1>7 DEF Plain, i
  <2>3. p = Crash
    BY <1>1, <1>4, <1>6, <1>7
  <2> QED
    BY <1>4, <2>1, <2>2, <2>3 DEF FrameRead, f
<1>8. CASE Len(i) # 0
  <2>1. i[1] \in Words /\ 1 \in DOMAIN i /\ ~(Len(f) < 3) /\ f[3] = i[1]
    BY <1>1, <1>4, <1>8
  <2>2. s \in Words /\ (s = Spoilt => i[1] \in Long["status"])
    BY <2>1, CopiedField DEF MemberNames, s
  <2>3. p = [accion |-> "03", usuario |-> u, status |-> s]
    BY <1>4, <1>6, <2>1, CopiedCode DEF u, s
  <2>4. p # Crash
    BY <2>3, FilledNotCrash
  <2>5. TooMuch(p) => s = Spoilt
    BY <2>3 DEF TooMuch, Overrun
  <2>6. i[1] \in Long["status"] => TooHard(r)
    BY <1>1, <2>1 DEF TooHard, TooLong, i
  <2>7. Plain(r) => p = Meant(r)
    <3> SUFFICES ASSUME Plain(r)
                 PROVE  p = Meant(r)
      OBVIOUS
    <3>1. Meant(r) = [accion |-> "03", usuario |-> User, status |-> i[1]]
      BY DEF Meant, i
    <3>2. User \notin Long["usuario"] /\ i[1] \notin Long["status"]
      BY <3>1 DEF Plain
    <3> QED
      BY <2>3, <3>1, <3>2 DEF Copied, u, s
  <2> QED
    BY <1>3, <1>4, <2>2, <2>3, <2>4, <2>5, <2>6, <2>7 DEF FrameRead, f
<1> QED
  BY <1>7, <1>8

LEMMA InfoRequestRead ==
  ASSUME NEW r \in Asked, r.accion = "04", Len(r.inputs) = 1
  PROVE  FrameRead(r)
<1> DEFINE f == Frame(r)
           p == Interpret(f)
           i == r.inputs[1]
           b == Before(i, <<User>>)
<1>1. DOMAIN r.inputs = 1..1 /\ i \in Seq(Words) /\ 1 \in DOMAIN r.inputs
  BY InputsOf
<1>2. f = <<"04">> \o b
  BY DEF Frame, Format
<1> HIDE DEF i
<1>3. /\ b \in Seq(Words)
      /\ i \in Big => b = i
      /\ i \notin Big => /\ Len(b) = Len(i) + 1
                         /\ Len(i) > 0 => b[1] = i[1]
                         /\ Len(i) = 1 => b[2] = User
  BY <1>1, FixedWords DEF Before
<1> HIDE DEF b
<1>4. /\ f \in Seq(Words) /\ Len(f) = 1 + Len(b) /\ f[1] = "04"
      /\ (Len(b) > 0 => f[2] = b[1]) /\ (Len(b) > 1 => f[3] = b[2])
  BY <1>2, <1>3, SecondOfCode
<1> HIDE DEF f
<1>5. f # <<>> /\ Second[f[1]] = "4"
  BY <1>3, <1>4, SecondOfCode
<1>6. p = IF Len(f) < 3 THEN Crash
          ELSE [accion |-> Copied("accion", f[1]),
                usuario |-> Copied("usuario", f[2]),
                usuario2 |-> Copied("usuario2", f[3])]
  BY <1>4, <1>5, ReadInfo, Zenon
<1>7. i \in Big \/ i = <<>> => TooHard(r) /\ ~Plain(r)
  <2>1. i = <<>> => Len(i) # 1
    OBVIOUS
  <2> QED
    BY <1>1, <2>1 DEF TooHard, TooLong, Plain, i
<1>8. CASE Len(b) < 2
  <2>1. p = Crash
    BY <1>3, <1>4, <1>6, <1>8
  <2>2. i \in Big \/ i = <<>>
    BY <1>1, <1>3, <1>8
  <2> QED
    BY <1>4, <1>7, <2>1, <2>2 DEF FrameRead, f
<1>9. CASE ~(Len(b) < 2)
  <2>1. /\ ~(Len(f) < 3) /\ f[2] = b[1] /\ f[3] = b[2]
        /\ b[1] \in Words /\ b[2] \in Words
    BY <1>3, <1>4, <1>9
  <2>2. p = [accion |-> "04", usuario |-> Copied("usuario", b[1]),
             usuario2 |-> Copied("usuario2", b[2])]
    BY <1>4, <1>6, <2>1, CopiedCode
  <2>3. p # Crash
    BY <2>2, FilledNotCrash
  <2>4. ~TooMuch(p)
    BY <2>2 DEF TooMuch, Overrun
  <2>5. p.usuario \in Words
    BY <2>1, <2>2, CopiedField DEF MemberNames
  <2>6. Plain(r) => p = Meant(r)
    <3> SUFFICES ASSUME Plain(r)
                 PROVE  p = Meant(r)
      OBVIOUS
    <3>1. Meant(r) = [accion |-> "04", usuario |-> i[1], usuario2 |-> User]
      BY DEF Meant, i
    <3>2. i[1] \notin Long["usuario"] /\ User \notin Long["usuario2"]
      BY <3>1 DEF Plain
    <3>3. Len(i) = 1 /\ i \notin Big
      BY <1>1 DEF Plain, i
    <3>4. b[1] = i[1] /\ b[2] = User
      BY <1>3, <3>3
    <3> QED
      BY <2>2, <3>1, <3>2, <3>4 DEF Copied
  <2> QED
    BY <1>4, <2>2, <2>3, <2>4, <2>5, <2>6 DEF FrameRead, f
<1> QED
  BY <1>8, <1>9

LEMMA MessageRequestRead ==
  ASSUME NEW r \in Asked, r.accion = "08", Len(r.inputs) = 2
  PROVE  FrameRead(r)
<1> DEFINE f == Frame(r)
           p == Interpret(f)
           i == r.inputs[1]
           j == r.inputs[2]
           b == Before(i, j)
           m == Copied("message", b[2])
<1>1. /\ DOMAIN r.inputs = 1..2 /\ i \in Seq(Words) /\ j \in Seq(Words)
      /\ 1 \in DOMAIN r.inputs /\ 2 \in DOMAIN r.inputs
  BY InputsOf
<1>2. f = <<"08", User>> \o b
  BY DEF Frame, Format
<1> HIDE DEF i, j
<1>3. /\ b \in Seq(Words)
      /\ i \in Big => b = i
      /\ i \notin Big => /\ Len(b) = Len(i) + Len(j)
                         /\ \A k \in 1..Len(i) : b[k] = i[k]
                         /\ \A k \in 1..Len(j) : b[Len(i) + k] = j[k]
  BY <1>1, Concat DEF Before
<1> HIDE DEF b, m
<1>4. /\ f \in Seq(Words) /\ Len(f) = 2 + Len(b) /\ f[1] = "08"
      /\ f[2] = User /\ (Len(b) > 1 => f[3] = b[1] /\ f[4] = b[2])
  BY <1>2, <1>3, FixedWords, SecondOfCode
<1> HIDE DEF f
<1>5. f # <<>> /\ Second[f[1]] = "8"
  BY <1>3, <1>4, SecondOfCode
<1>6. p = IF Len(f) < 4 THEN Crash
          ELSE [accion |-> Copied("accion", f[1]),
                usuario |-> Copied("usuario", f[2]),
                usuario2 |-> Copied("usuario2", f[3]),
                message |-> Copied("message", f[4])]
  BY <1>4, <1>5, ReadMessage, Zenon
<1>7. /\ i \in Big \/ i = <<>> \/ j = <<>> => TooHard(r) /\ ~Plain(r)
      /\ \A k \in DOMAIN i : i[k] \in Long["message"] => TooHard(r)
      /\ \A k \in DOMAIN j : j[k] \in Long["message"] => TooHard(r)
  <2>1. (i = <<>> => Len(i) # 1) /\ (j = <<>> => Len(j) # 1)
    OBVIOUS
  <2>2. i \in Big \/ i = <<>> \/ j = <<>> => TooHard(r) /\ ~Plain(r)
    BY <1>1, <2>1 DEF TooHard, TooLong, Plain, i, j
  <2>3. \A k \in DOMAIN i : i[k] \in Long["message"] => TooHard(r)
    BY <1>1 DEF TooHard, TooLong, i
  <2>4. \A k \in DOMAIN j : j[k] \in Long["message"] => TooHard(r)
    BY <1>1 DEF TooHard, TooLong, j
  <2> QED
    BY <2>2, <2>3, <2>4
<1>8. CASE Len(b) < 2
  <2>1. p = Crash
    BY <1>3, <1>4, <1>6, <1>8
  <2>2. i \in Big \/ Len(i) = 0 \/ Len(j) = 0
    BY <1>1, <1>3, <1>8
  <2>3. i \in Big \/ i = <<>> \/ j = <<>>
    BY <1>1, <2>2
  <2> QED
    BY <1>4, <1>7, <2>1, <2>3 DEF FrameRead, f
<1>9. CASE ~(Len(b) < 2)
  <2>1. /\ ~(Len(f) < 4) /\ f[3] = b[1] /\ f[4] = b[2]
        /\ b[1] \in Words /\ b[2] \in Words
    BY <1>3, <1>4, <1>9
  <2>2. m \in Words /\ (m = Spoilt => b[2] \in Long["message"])
    BY <2>1, CopiedField DEF MemberNames, m
  <2>3. p = [accion |-> "08", usuario |-> Copied("usuario", User),
             usuario2 |-> Copied("usuario2", b[1]), message |-> m]
    BY <1>4, <1>6, <2>1, CopiedCode DEF m
  <2>4. p # Crash
    BY <2>3, FilledNotCrash
  <2>5. p.usuario \in Words
    BY <2>3, FixedWords, CopiedField DEF MemberNames
  <2>6. TooMuch(p) => b[2] \in Long["message"]
    BY <2>2, <2>3 DEF TooMuch, Overrun
  <2>7. b[2] \in Long["message"] => TooHard(r)
    <3>1. CASE i \in Big \/ i = <<>>
      BY <1>7, <3>1
    <3>2. CASE i \notin Big /\ Len(i) = 1
      <4>1. 1 \in 1..Len(j) /\ Len(i) + 1 = 2
        BY <1>1, <1>3, <1>9, <3>2
      <4>2. b[2] = j[1] /\ 1 \in DOMAIN j
        BY <1>1, <1>3, <3>2, <4>1
      <4> QED
        BY <1>7, <4>2
    <3>3. CASE i \notin Big /\ Len(i) > 1
      <4>1. b[2] = i[2] /\ 2 \in DOMAIN i
        BY <1>1, <1>3, <3>3
      <4> QED
        BY <1>7, <4>1
    <3>4. i = <<>> \/ Len(i) = 1 \/ Len(i) > 1
      <4>0. Len(i) \in Nat
        BY <1>1, LenProperties
      <4>1. Len(i) = 0 \/ Len(i) = 1 \/ Len(i) > 1
        BY <4>0
      <4>2. Len(i) = 0 => i = <<>>
        BY <1>1
      <4> QED
        BY <4>1, <4>2
    <3> QED
      BY <3>1, <3>2, <3>3, <3>4
  <2>8. Plain(r) => p = Meant(r)
    <3> SUFFICES ASSUME Plain(r)
                 PROVE  p = Meant(r)
      OBVIOUS
    <3>1. Meant(r) = [accion |-> "08", usuario |-> User, usuario2 |-> i[1],
                      message |-> j[1]]
      BY DEF Meant, i, j
    <3>2. /\ User \notin Long["usuario"] /\ i[1] \notin Long["usuario2"]
          /\ j[1] \notin Long["message"]
      BY <3>1 DEF Plain
    <3>3. Len(i) = 1 /\ Len(j) = 1 /\ i \notin Big
      BY <1>1 DEF Plain, i, j
    <3>4. b[1] = i[1] /\ b[2] = j[1]
      <4>1. 1 \in 1..Len(i) /\ 1 \in 1..Len(j) /\ Len(i) + 1 = 2
        BY <3>3
      <4> QED
        BY <1>3, <3>3, <4>1
    <3> QED
      BY <2>3, <3>1, <3>2, <3>4 DEF Copied, m
  <2> QED
    BY <1>4, <2>3, <2>4, <2>5, <2>6, <2>7, <2>8 DEF FrameRead, f
<1> QED
  BY <1>8, <1>9

LEMMA RequestRead ==
  ASSUME NEW r \in Asked, Len(r.inputs) = Entered(r.accion)
  PROVE  FrameRead(r)
BY RegisterRead, NameRead, StatusRead, InfoRequestRead, MessageRequestRead,
   EnteredOf DEF Asked

-----------------------------------------------------------------------------
(* Answers.                                                                *)

(* An accion that is known is the one that was received.                   *)
LEMMA KnownAccion ==
  ASSUME NEW field \in Words, Copied("accion", field) \in {"01", "05", "07"}
  PROVE  Copied("accion", field) = field
<1>1. Spoilt \in Long["accion"]
  BY ParserAssumption DEF ParserAssumption, MemberNames
<1>2. \A c \in {"01", "05", "07"} : c \notin Long["accion"]
  BY ClientAssumption DEF ClientAssumption, Codes
<1> QED
  BY <1>1, <1>2 DEF Copied

(* What sreader() prints of a text starts as the text does; only of a 05   *)
(* it prints more.                                                         *)
LEMMA ShowLine ==
  ASSUME NEW text \in Seq(Words), Interpret(text) # Crash
  PROVE  LET line == Show(Interpret(text))
         IN  /\ text # <<>> /\ line \in Lines
             /\ \/ line = Nothing
                \/ text[1] = "05"
                \/ text[1] \in {"01", "07"} /\ line = [accion |-> text[1]]
<1> DEFINE c == Second[text[1]]
           p == Interpret(text)
           a == Copied("accion", text[1])
<1>1. text # <<>>
  BY DEF Interpret
<1>2. text[1] \in Words
  BY <1>1
<1>3. a \in {"01", "05", "07"} => a = text[1]
  BY <1>2, KnownAccion
<1> HIDE DEF a
<1>4. CASE c \in {"0", "5"}
  <2> DEFINE puerto == IF text[5] \in Long["status"] THEN Spoilt
                       ELSE Copied("puerto", text[4])
             ip == Copied("ip", text[3])
             status == Copied("status", text[5])
  <2>1. p = IF Len(text) < 5 THEN Crash
            ELSE [accion |-> a, usuario |-> Copied("usuario", text[2]),
                  ip |-> ip, puerto |-> puerto, status |-> status]
    BY <1>1, <1>4, ReadFour, Zenon DEF a
  <2>2. ~(Len(text) < 5)
    BY <2>1
  <2>3. text[3] \in Words /\ text[4] \in Words /\ text[5] \in Words
    BY <2>2
  <2>4. ip \in Words /\ puerto \in Words /\ status \in Words
    BY <2>3, CopiedField, ParserAssumption DEF ParserAssumption, MemberNames
  <2> HIDE DEF ip, puerto, status
  <2>5. p = [accion |-> a, usuario |-> Copied("usuario", text[2]),
             ip |-> ip, puerto |-> puerto, status |-> status]
    BY <2>1, <2>2
  <2>6. a # "01" /\ a # "07"
    BY <1>3, <1>4, SecondOfCode
  <2>7. Show(p) = IF a = "05" THEN [accion |-> "05", ip |-> ip,
                                    puerto |-> puerto, status |-> status]
                  ELSE Nothing
    BY <2>5, <2>6 DEF Show
  <2>8. Show(p) \in Lines
    BY <2>4, <2>7 DEF Lines, Nothing
  <2>9. Show(p) = Nothing \/ text[1] = "05"
    BY <1>3, <2>7
  <2> QED
    BY <1>1, <2>8, <2>9
<1>5. CASE c \notin {"0", "5"}
  <2>1. p.accion = a \/ p.accion = "empty"
    <3>1. CASE c = "1"
      BY <1>1, <3>1, ReadTaken DEF a
    <3>2. CASE c \in {"2", "6"}
      BY <1>1, <3>2, ReadUser DEF a
    <3>3. CASE c = "3"
      BY <1>1, <3>3, ReadStatus DEF a
    <3>4. CASE c = "4"
      BY <1>1, <3>4, ReadInfo DEF a
    <3>5. CASE c = "7"
      BY <1>1, <3>5, ReadList DEF a
    <3>6. CASE c = "8"
      BY <1>1, <3>6, ReadMessage DEF a
    <3>7. CASE c \notin {"0", "1", "2", "3", "4", "5", "6", "7", "8"}
      <4>1. Members(c) = <<>>
        BY <3>7 DEF Members
      <4>2. p = Empty
        BY <1>1, <4>1, ReadNothing
      <4> QED
        BY <4>2 DEF Empty
    <3> QED
      BY <1>5, <3>1, <3>2, <3>3, <3>4, <3>5, <3>6, <3>7
  <2>2. a # "05"
    BY <1>3, <1>5, SecondOfCode
  <2>3. Show(p) = IF a \in {"01", "07"} /\ p.accion = a THEN [accion |-> a]
                  ELSE Nothing
    BY <2>1, <2>2 DEF Show
  <2>4. Show(p) \in Lines
    BY <2>3 DEF Lines, Nothing
  <2>5. Show(p) = Nothing \/ (a \in {"01", "07"} /\ Show(p) = [accion |-> a])
    BY <2>3
  <2> QED
    BY <1>1, <1>3, <2>4, <2>5
<1> QED
  BY <1>4, <1>5

(* Of each kind of answer, what sreader() prints when it reads the text    *)
(* alone.                                                                  *)
AnswerRead(m) ==
  LET p == Interpret(Wire(m))
  IN  /\ Wire(m) \in Seq(Words) /\ Wire(m) # <<>>
      /\ Readable(m) => p # Crash /\ ~Overrun(p) /\ Show(p) = Show(m)
      /\ p # Crash /\ Fits(m) => Show(p) \in {Nothing, Show(m)}

LEMMA TakenRead ==
  ASSUME NEW m \in Sent, m.accion = "01"
  PROVE  AnswerRead(m)
<1> DEFINE text == Wire(m)
           p == Interpret(text)
<1>1. m.usuario \in Words /\ m.ip \in Words
  BY DEF Sent
<1>2. text = <<"01", m.usuario, m.ip>>
  BY DEF Wire
<1>3. /\ text \in Seq(Words) /\ text # <<>> /\ Len(text) = 3
      /\ text[1] = "01" /\ Second[text[1]] = "1"
  BY <1>1, <1>2, SecondOfCode
<1> HIDE DEF text
<1>4. p = [accion |-> "01", usuario |-> Copied("usuario", text[2]),
           ip |-> Copied("ip", text[3])]
  <2>1. p = IF Len(text) < 3 THEN Crash
            ELSE [accion |-> Copied("accion", text[1]),
                  usuario |-> Copied("usuario", text[2]),
                  ip |-> Copied("ip", text[3])]
    BY <1>3, ReadTaken, Zenon
  <2> QED
    BY <1>3, <2>1, CopiedCode
<1>5. p # Crash
  BY <1>4, FilledNotCrash
<1>6. ~Overrun(p) /\ Show(p) = Show(m)
  BY <1>4 DEF Overrun, Show
<1> QED
  BY <1>3, <1>5, <1>6 DEF AnswerRead, text

LEMMA InfoRead ==
  ASSUME NEW m \in Sent, m.accion = "05"
  PROVE  AnswerRead(m)
<1> DEFINE text == Wire(m)
           p == Interpret(text)
<1>1. /\ m.usuario \in Words /\ m.ip \in Words
      /\ m.puerto \in Words /\ m.status \in Words
  BY DEF Sent
<1>2. text = <<"05", m.usuario, m.ip, m.puerto, m.status>>
  BY DEF Wire
<1>3. /\ text \in Seq(Words) /\ text # <<>> /\ Len(text) = 5
      /\ text[1] = "05" /\ text[2] = m.usuario /\ text[3] = m.ip
      /\ text[4] = m.puerto /\ text[5] = m.status
  BY <1>1, <1>2, SecondOfCode
<1> HIDE DEF text
<1>4. Second[text[1]] \in {"0", "5"} /\ ~(Len(text) < 5)
  BY <1>3, SecondOfCode
<1>5. p = [accion |-> Copied("accion", text[1]),
           usuario |-> Copied("usuario", text[2]),
           ip |-> Copied("ip", text[3]),
           puerto |-> IF text[5] \in Long["status"] THEN Spoilt
                      ELSE Copied("puerto", text[4]),
           status |-> Copied("status", text[5])]
  BY <1>3, <1>4, ReadFour, Zenon
<1>6. p # Crash
  BY <1>5, FilledNotCrash
<1>7. ~Overrun(p)
  BY <1>5 DEF Overrun
<1>8. Fits(m) => Show(p) = Show(m)
  <2> SUFFICES ASSUME Fits(m)
               PROVE  Show(p) = Show(m)
    OBVIOUS
  <2>1. /\ m.ip \notin Long["ip"] /\ m.puerto \notin Long["puerto"]
        /\ m.status \notin Long["status"]
    BY DEF Fits
  <2>2. p = [accion |-> "05", usuario |-> Copied("usuario", text[2]),
             ip |-> m.ip, puerto |-> m.puerto, status |-> m.status]
    BY <1>3, <1>5, <2>1, CopiedCode DEF Copied
  <2> QED
    BY <2>2 DEF Show
<1> QED
  BY <1>3, <1>6, <1>7, <1>8 DEF AnswerRead, Readable, text

LEMMA ListRead ==
  ASSUME NEW m \in Sent, m.accion = "07"
  PROVE  AnswerRead(m)
<1> DEFINE text == Wire(m)
           p == Interpret(text)
           list == m.lista
<1>1. m.usuario \in Words /\ list \in Seq(Entries)
  BY DEF Sent
<1>2. list \in Seq(Words)
  BY <1>1, ParserAssumption DEF ParserAssumption
<1>3. text = <<"07", m.usuario>> \o list
  BY DEF Wire
<1> HIDE DEF list
<1>4. /\ text \in Seq(Words) /\ Len(text) = 2 + Len(list)
      /\ text[1] = "07" /\ text[2] = m.usuario
      /\ list # <<>> => /\ Len(text) > 2 /\ text[3] = list[1]
                        /\ list[1] \in Entries /\ list[1] \in Words
  BY <1>1, <1>2, <1>3, SecondOfCode
<1> HIDE DEF text
<1>5. text # <<>> /\ Second[text[1]] = "7" /\ Len(text) \in Nat
  BY <1>2, <1>4, SecondOfCode
<1>6. p = IF Len(text) < 3 \/ text[3] \notin Entries THEN Crash
          ELSE [accion |-> "07", usuario |-> Copied("usuario", text[2]),
                listaUsuarios |-> Copied("listaUsuarios", text[3])]
  BY <1>4, <1>5, ReadList, CopiedCode
<1>7. p # Crash => Show(p) = Show(m)
  BY <1>6 DEF Show
<1>8. Readable(m) => p # Crash /\ ~Overrun(p)
  <2> SUFFICES ASSUME Readable(m)
               PROVE  p # Crash /\ ~Overrun(p)
    OBVIOUS
  <2>1. list # <<>> /\ list[1] \notin Long["listaUsuarios"]
    BY DEF Readable, list
  <2>2. list[1] # Spoilt
    BY <2>1, ParserAssumption DEF ParserAssumption, MemberNames
  <2>3. p = [accion |-> "07", usuario |-> Copied("usuario", text[2]),
             listaUsuarios |-> list[1]]
    BY <1>4, <1>5, <1>6, <2>1 DEF Copied
  <2>4. p # Crash
    BY <2>3, FilledNotCrash
  <2> QED
    BY <2>2, <2>3, <2>4 DEF Overrun
<1> QED
  BY <1>4, <1>5, <1>7, <1>8 DEF AnswerRead, text

LEMMA TextRead ==
  ASSUME NEW m \in Sent, m.accion = "08"
  PROVE  AnswerRead(m)
<1> DEFINE text == Wire(m)
           p == Interpret(text)
           c == Second[text[1]]
<1>1. m.message \in Words
  BY DEF Sent
<1>2. text = <<m.message>>
  BY DEF Wire
<1>3. /\ text \in Seq(Words) /\ text # <<>> /\ Len(text) = 1
      /\ text[1] = m.message
  BY <1>1, <1>2
<1> HIDE DEF text
<1>4. Members(c) = <<>> => p = Empty
  BY <1>3, ReadNothing
<1>5. Members(c) # <<>> => p = Crash
  <2> SUFFICES ASSUME Members(c) # <<>>
               PROVE  p = Crash
    OBVIOUS
  <2>1. c \in {"0", "1", "2", "3", "4", "5", "6", "7", "8"}
    BY DEF Members
  <2>2. CASE c \in {"0", "5"}
    BY <1>3, <2>2, ReadFour
  <2>3. CASE c = "1"
    BY <1>3, <2>3, ReadTaken
  <2>4. CASE c \in {"2", "6"}
    BY <1>3, <2>4, ReadUser
  <2>5. CASE c = "3"
    BY <1>3, <2>5, ReadStatus
  <2>6. CASE c = "4"
    BY <1>3, <2>6, ReadInfo
  <2>7. CASE c = "7"
    BY <1>3, <2>7, ReadList
  <2>8. CASE c = "8"
    BY <1>3, <2>8, ReadMessage
  <2> QED
    BY <2>1, <2>2, <2>3, <2>4, <2>5, <2>6, <2>7, <2>8
<1>6. Empty # Crash /\ ~Overrun(Empty) /\ Show(Empty) = Nothing
  <2>1. Empty # Crash
    BY FilledNotCrash DEF Empty
  <2> QED
    BY <2>1 DEF Empty, Overrun, Show
<1>7. Show(m) = Nothing
  BY DEF Show
<1>8. Readable(m) => Members(c) = <<>>
  BY <1>3 DEF Readable
<1> QED
  BY <1>3, <1>4, <1>5, <1>6, <1>7, <1>8 DEF AnswerRead, text

LEMMA WireRead ==
  ASSUME NEW m \in Sent
  PROVE  AnswerRead(m)
<1>1. m.accion \in {"01", "05", "07", "08"}
  BY DEF Sent
<1> QED
  BY <1>1, TakenRead, InfoRead, ListRead, TextRead

(* Two texts joined are a text, and its beginning is the first one's.      *)
LEMMA JoinText ==
  ASSUME NEW one \in Seq(Words), NEW other \in Seq(Words), other # <<>>
  PROVE  /\ Join(one, other) \in Seq(Words)
         /\ one = <<>> => Join(one, other) = <<>>
         /\ Len(one) = 1 => Join(one, other)[1] = Glued[one[1]]
         /\ Len(one) > 1 => Join(one, other)[1] = one[1]
<1> DEFINE glued == [one EXCEPT ![Len(one)] = Glued[@]]
<1>1. Tail(other) \in Seq(Words)
  OBVIOUS
<1>2. CASE one = <<>>
  BY <1>2 DEF Join
<1>3. CASE one # <<>>
  <2>1. Len(one) \in Nat /\ Len(one) >= 1 /\ Len(one) \in DOMAIN one
    BY <1>3
  <2>2. Glued[one[Len(one)]] \in Words
    BY <2>1, ClientAssumption DEF ClientAssumption
  <2>3. /\ glued \in Seq(Words) /\ Len(glued) = Len(one)
        /\ glued[Len(one)] = Glued[one[Len(one)]]
        /\ Len(one) > 1 => glued[1] = one[1]
    BY <2>1, <2>2
  <2>4. Join(one, other) = glued \o Tail(other)
    BY <1>3 DEF Join
  <2> HIDE DEF glued
  <2>5. /\ Join(one, other) \in Seq(Words)
        /\ Join(one, other)[1] = glued[1]
    BY <1>1, <2>1, <2>3, <2>4, Concat
  <2> QED
    BY <1>3, <2>1, <2>3, <2>5
<1> QED
  BY <1>2, <1>3

(* An answer with another behind it is taken for nothing else than it is.  *)
LEMMA JoinRead ==
  ASSUME NEW m \in Sent, m.accion # "05", NEW other \in Seq(Words),
         other # <<>>, Interpret(Join(Wire(m), other)) # Crash
  PROVE  Show(Interpret(Join(Wire(m), other))) \in {Nothing, Show(m)}
<1> DEFINE text == Join(Wire(m), other)
           line == Show(Interpret(text))
<1>1. Wire(m) \in Seq(Words) /\ Wire(m) # <<>>
  BY WireRead DEF AnswerRead
<1>2. text \in Seq(Words)
  BY <1>1, JoinText
<1>3. \/ line = Nothing
      \/ text[1] = "05"
      \/ text[1] \in {"01", "07"} /\ line = [accion |-> text[1]]
  BY <1>2, ShowLine
<1>4. m.accion \in {"01", "07", "08"}
  BY DEF Sent
<1>5. CASE m.accion \in {"01", "07"}
  <2>1. Len(Wire(m)) > 1 /\ Wire(m)[1] = m.accion
    <3>1. CASE m.accion = "01"
      BY <3>1 DEF Wire
    <3>2. CASE m.accion = "07"
      <4>1. Wire(m) = <<"07", m.usuario>> \o m.lista
        BY <3>2 DEF Wire
      <4>2. m.usuario \in Words /\ m.lista \in Seq(Words)
        BY <3>2, ParserAssumption DEF Sent, ParserAssumption
      <4> QED
        BY <3>2, <4>1, <4>2
    <3> QED
      BY <1>5, <3>1, <3>2
  <2>2. text[1] = m.accion
    BY <1>1, <2>1, JoinText
  <2>3. Show(m) = [accion |-> m.accion]
    BY <1>5 DEF Show
  <2> QED
    BY <1>3, <1>5, <2>2, <2>3
<1>6. CASE m.accion = "08"
  <2>1. m.message \in Words /\ Wire(m) = <<m.message>>
    BY <1>6 DEF Sent, Wire
  <2>2. text[1] = Glued[m.message]
    <3>1. Len(Wire(m)) = 1 /\ Wire(m)[1] = m.message
      BY <2>1
    <3>2. text[1] = Glued[Wire(m)[1]]
      BY <1>1, <3>1, JoinText
    <3> QED
      BY <3>1, <3>2
  <2>3. Glued[m.message] \in Long["accion"]
    BY <2>1, ClientAssumption DEF ClientAssumption
  <2>4. \A c \in {"01", "05", "07"} : c \notin Long["accion"]
    BY ClientAssumption DEF ClientAssumption, Codes
  <2> QED
    BY <1>3, <2>2, <2>3, <2>4
<1> QED
  BY <1>4, <1>5, <1>6

-----------------------------------------------------------------------------
(* What the actions do to requests and answers.                            *)

(* The request that sendRequest() adds.                                    *)
LEMMA RequestEffect ==
  ASSUME TypeOK, NEW accion \in {"00", "02", "03", "04", "06", "08"}, NEW to,
         Request(accion, to)
  PROVE  \E r \in Asked :
           /\ Len(r.inputs) = Entered(r.accion)
           /\ asked' = Append(asked, r)
           /\ requests' = Append(requests, Frame(r))
           /\ Frame(r) \in Seq(Words)
           /\ main' \in {main, to} /\ process' \in {process, "exit", "killed"}
           /\ UNCHANGED <<reader, fresh, answers, server, understood, sent,
                          shown>>
<1>1. PICK inputs \in [1..Entered(accion) -> Inputs] :
        /\ asked' = Append(asked, [accion |-> accion, inputs |-> inputs])
        /\ requests' = Append(requests, Format(accion, inputs))
        /\ main' \in {main, to} /\ process' \in {process, "exit", "killed"}
        /\ UNCHANGED <<reader, fresh, answers, server, understood, sent,
                       shown>>
  BY DEF Request
<1> DEFINE r == [accion |-> accion, inputs |-> inputs]
<1>2. Entered(accion) \in Nat
  BY EnteredOf
<1>3. inputs \in Seq(Inputs) /\ Len(inputs) = Entered(accion)
  BY <1>2
<1>4. r \in Asked /\ Len(r.inputs) = Entered(r.accion)
  BY <1>3 DEF Asked
<1>5. Frame(r) = Format(accion, inputs)
  BY DEF Frame
<1>6. Frame(r) \in Seq(Words)
  BY <1>4, RequestRead DEF FrameRead
<1> QED
  BY <1>1, <1>4, <1>5, <1>6

(* What the server reads is the first request that waits.                  *)
LEMMA ServeReads ==
  ASSUME TypeOK, RequestInv, requests # <<>>
  PROVE  LET n == Len(asked) - Len(requests) + 1
         IN  /\ n \in DOMAIN asked
             /\ asked[n] \in Asked
             /\ Len(asked[n].inputs) = Entered(asked[n].accion)
             /\ Head(requests) = Frame(asked[n])
<1> DEFINE n == Len(asked) - Len(requests) + 1
<1>1. /\ Len(asked) \in Nat /\ Len(requests) \in Nat /\ Len(requests) > 0
      /\ Len(requests) <= Len(asked)
  BY DEF TypeOK
<1>2. n \in 1..Len(asked)
  BY <1>1
<1>3. n \in DOMAIN asked /\ asked[n] \in Asked
  BY <1>2 DEF TypeOK
<1>4. Head(requests) = requests[1]
  BY DEF TypeOK
<1>5. requests[1] = Frame(asked[Len(asked) - Len(requests) + 1])
  BY <1>1 DEF RequestInv
<1> QED
  BY <1>3, <1>4, <1>5 DEF RequestInv

(* What the server writes is an answer, or nothing.                        *)
ServeWrites == UNCHANGED <<answers, sent>> \/ \E m \in Sent : Tell(m)

LEMMA ServeEffect ==
  ASSUME TypeOK, RequestInv, Serve
  PROVE  /\ ServeWrites
         /\ server' \in {"open", "closed", "down"}
         /\ LET p == Interpret(Frame(asked[Len(asked) - Len(requests) + 1]))
            IN  understood' = Append(understood, p)
                /\ (server' = "down" => p = Crash)
<1> DEFINE n == Len(asked) - Len(requests) + 1
           r == asked[n]
           p == Interpret(Frame(r))
<1>1. requests # <<>> /\ server = "open"
  BY DEF Serve
<1>2. /\ r \in Asked /\ Len(r.inputs) = Entered(r.accion)
      /\ Head(requests) = Frame(r)
  BY <1>1, ServeReads
<1> HIDE DEF r
<1>3. p # Crash => /\ p.accion = r.accion /\ p.usuario \in Words
                   /\ r.accion = "00" => p.ip \in Words
  BY <1>2, RequestRead DEF FrameRead
<1>4. p = Interpret(Head(requests))
  BY <1>2
<1> HIDE DEF p
<1>5. /\ understood' = Append(understood, p)
      /\ \/ p = Crash /\ server' = "down" /\ Silent
         \/ /\ p # Crash /\ p.accion = "02"
            /\ server' \in {"open", "closed"} /\ Silent
         \/ /\ p # Crash /\ p.accion = "00"
            /\ server' = server /\ AnswerRegister(p)
         \/ /\ p # Crash /\ p.accion = "04"
            /\ server' = server /\ AnswerInfo(p)
         \/ /\ p # Crash /\ p.accion = "06"
            /\ server' = server /\ AnswerList(p)
         \/ /\ p # Crash /\ p.accion \in {"03", "08"}
            /\ server' = server /\ Silent
  BY <1>4 DEF Serve
<1>6. CASE Silent
  BY <1>1, <1>5, <1>6 DEF ServeWrites, Silent, p, r
<1>7. CASE p # Crash /\ p.accion = "00" /\ AnswerRegister(p) /\ ~Silent
  <2> DEFINE m == [accion |-> "01", usuario |-> p.usuario, ip |-> p.ip]
  <2>1. m \in Sent
    BY <1>3, <1>7 DEF Sent
  <2>2. Tell(m)
    BY <1>7 DEF AnswerRegister
  <2> QED
    BY <1>1, <1>5, <1>7, <2>1, <2>2 DEF ServeWrites, p, r
<1>8. CASE p # Crash /\ p.accion = "04" /\ AnswerInfo(p) /\ ~Silent
  <2>1. PICK status \in Statuses :
          Tell([accion |-> "05", usuario |-> p.usuario, ip |-> "192.168.0.1",
                puerto |-> "1100", status |-> status])
    BY <1>8 DEF AnswerInfo
  <2>2. status \in Words
    BY ClientAssumption DEF ClientAssumption
  <2>3. [accion |-> "05", usuario |-> p.usuario, ip |-> "192.168.0.1",
         puerto |-> "1100", status |-> status] \in Sent
    BY <1>3, <1>8, <2>2, FixedWords DEF Sent
  <2> QED
    BY <1>1, <1>5, <1>8, <2>1, <2>3 DEF ServeWrites, p, r
<1>9. CASE p # Crash /\ p.accion = "06" /\ AnswerList(p)
  <2>1. PICK list \in Lists :
          Tell([accion |-> "07", usuario |-> p.usuario, lista |-> list])
    BY <1>9 DEF AnswerList
  <2>2. list \in Seq(Entries)
    BY ClientAssumption DEF ClientAssumption
  <2>3. [accion |-> "07", usuario |-> p.usuario, lista |-> list] \in Sent
    BY <1>3, <1>9, <2>2 DEF Sent
  <2> QED
    BY <1>1, <1>5, <1>9, <2>1, <2>3 DEF ServeWrites, p, r
<1> QED
  BY <1>5, <1>6, <1>7, <1>8, <1>9

LEMMA ForwardEffect ==
  ASSUME Forward
  PROVE  /\ ServeWrites
         /\ UNCHANGED <<main, reader, process, fresh, asked, requests, server,
                        understood, shown>>
<1>1. PICK text \in Texts : Tell([accion |-> "08", message |-> text])
  BY DEF Forward
<1>2. [accion |-> "08", message |-> text] \in Sent
  BY ClientAssumption DEF ClientAssumption, Sent
<1> QED
  BY <1>1, <1>2 DEF Forward, ServeWrites

(* What the handling of a text prints.                                     *)
HandlePrints(text, read, skipped) ==
  LET p == Interpret(text)
  IN  \E x \in Shown :
        /\ x.text = text /\ x.read = read
        /\ shown' = Append(shown, x) \o skipped
        /\ process' \in {"runs", "exit", "crash", "killed"}
        /\ x.line = Nothing \/ (p # Crash /\ x.line = Show(p))
        /\ p # Crash /\ ~Overrun(p) => /\ x.line = Show(p)
                                       /\ process' \in {process, "exit"}

LEMMA HandleEffect ==
  ASSUME NEW text \in Seq(Words), NEW read \in {"alone", "joined", "garbage"},
         NEW skipped, process \in {"runs", "exit", "crash", "killed"},
         Handle(text, read, skipped)
  PROVE  HandlePrints(text, read, skipped)
<1> DEFINE p == Interpret(text)
<1>1. Nothing \in Lines /\ (p # Crash => Show(p) \in Lines)
  BY ShowLine DEF Lines, Nothing
<1> HIDE DEF p
<1>2. CASE /\ p = Crash \/ Overrun(p)
           /\ process' = "crash" /\ Printed(text, Nothing, read, skipped)
  <2> DEFINE x == [text |-> text, line |-> Nothing, read |-> read]
  <2>1. x \in Shown /\ x.text = text /\ x.read = read /\ x.line = Nothing
    BY <1>1 DEF Shown
  <2>2. shown' = Append(shown, x) \o skipped
    BY <1>2 DEF Printed
  <2> HIDE DEF x
  <2> QED
    BY <1>2, <2>1, <2>2 DEF HandlePrints, p
<1>3. CASE /\ p # Crash
           /\ process' = After(p) /\ Printed(text, Show(p), read, skipped)
  <2> DEFINE x == [text |-> text, line |-> Show(p), read |-> read]
  <2>1. x \in Shown /\ x.text = text /\ x.read = read /\ x.line = Show(p)
    BY <1>1, <1>3 DEF Shown
  <2>2. shown' = Append(shown, x) \o skipped
    BY <1>3 DEF Printed
  <2>3. process' \in {process, "exit"}
    BY <1>3 DEF After
  <2> HIDE DEF x
  <2> QED
    BY <1>3, <2>1, <2>2, <2>3 DEF HandlePrints, p
<1> QED
  BY <1>2, <1>3 DEF Handle, p

(* A text in a buffer that was never set is a text.                        *)
LEMMA BehindText ==
  ASSUME NEW one \in Seq(Words), NEW text \in Behind(one)
  PROVE  text \in Seq(Words)
<1>1. PICK g \in Garbage : text = one \o g \/ text = Join(one, g)
  BY DEF Behind
<1>2. g \in Seq(Words) /\ g # <<>>
  BY ClientAssumption DEF ClientAssumption
<1>3. one \o g \in Seq(Words)
  BY <1>2
<1>4. Join(one, g) \in Seq(Words)
  BY <1>2, JoinText
<1> QED
  BY <1>1, <1>3, <1>4

(* The answers behind the second one.                                      *)
LEMMA TailTail ==
  ASSUME NEW s \in Seq(Answer), Len(s) >= 2
  PROVE  /\ Tail(Tail(s)) \in Seq(Answer)
         /\ Len(Tail(Tail(s))) = Len(s) - 2
         /\ \A k \in 1..(Len(s) - 2) : Tail(Tail(s))[k] = s[k + 2]
<1>1. /\ Tail(s) \in Seq(Answer) /\ Len(Tail(s)) = Len(s) - 1
      /\ \A k \in 1..(Len(s) - 1) : Tail(s)[k] = s[k + 1]
  OBVIOUS
<1>2. PICK r \in Seq(Answer) : r = Tail(s)
  BY <1>1
<1>3. Len(r) = Len(s) - 1 /\ \A k \in 1..(Len(s) - 1) : r[k] = s[k + 1]
  BY <1>1, <1>2
<1>4. Len(r) >= 1 /\ Len(s) \in Nat
  BY <1>3
<1>5. /\ Tail(r) \in Seq(Answer) /\ Len(Tail(r)) = Len(r) - 1
      /\ \A k \in 1..(Len(r) - 1) : Tail(r)[k] = r[k + 1]
  <2>1. r # <<>>
    BY <1>4
  <2> QED
    BY <1>4, <2>1, HeadTailProperties
<1>6. Tail(Tail(s)) = Tail(r)
  BY <1>2
<1>7. ASSUME NEW k \in 1..(Len(s) - 2)
      PROVE  Tail(r)[k] = s[k + 2]
  <2>1. k \in 1..(Len(r) - 1) /\ k + 1 \in 1..(Len(s) - 1)
    BY <1>3, <1>4
  <2>2. Tail(r)[k] = r[k + 1] /\ r[k + 1] = s[(k + 1) + 1]
    BY <1>3, <1>5, <2>1
  <2>3. (k + 1) + 1 = k + 2
    BY <1>4
  <2> QED
    BY <2>2, <2>3
<1> QED
  BY <1>3, <1>4, <1>5, <1>6, <1>7

(* The first answer that waits is the next to be printed.                  *)
LEMMA FirstAnswer ==
  ASSUME TypeOK, AnswerInv, answers # <<>>
  PROVE  LET m == sent[Len(shown) + 1]
         IN  /\ Len(shown) + 1 \in DOMAIN sent /\ m \in Sent
             /\ answers[1] \in Answer /\ Head(answers) = answers[1]
             /\ answers[1] = Written(m) \/ answers[1] = Rest
             /\ AnswerRead(m)
<1>1. /\ answers \in Seq(Answer) /\ sent \in Seq(Sent) /\ shown \in Seq(Shown)
  BY DEF TypeOK
<1>2. /\ Len(answers) \in Nat /\ Len(answers) >= 1 /\ 1 \in DOMAIN answers
      /\ answers[1] \in Answer /\ Head(answers) = answers[1]
  BY <1>1
<1>3. Len(shown) + 1 \in DOMAIN sent /\ sent[Len(shown) + 1] \in Sent
  <2>1. Len(shown) \in Nat /\ Len(sent) = Len(shown) + Len(answers)
    BY <1>1 DEF AnswerInv
  <2>2. Len(shown) + 1 \in 1..Len(sent)
    BY <1>2, <2>1
  <2> QED
    BY <1>1, <2>2
<1>4. answers[1] = Written(sent[Len(shown) + 1]) \/ answers[1] = Rest
  BY <1>2 DEF AnswerInv
<1> QED
  BY <1>2, <1>3, <1>4, WireRead

(* What reading does: x is printed for the first answer, and of the        *)
(* others one may be skipped, or only its rest be left.                    *)
ReadPrints(x) ==
  LET m == sent[Len(shown) + 1]
  IN  /\ Tells(x, m)
      /\ process' \in {"runs", "exit", "crash", "killed"}
      /\ process' = "crash" => x.read # "alone" \/ ~Readable(m)
      /\ \/ /\ shown' = Append(shown, x)
            /\ answers' = Tail(answers)
         \/ /\ Len(answers) >= 2 /\ x.read # "alone"
            /\ shown' = Append(shown, x)
            /\ answers' = <<Rest>> \o Tail(Tail(answers))
         \/ /\ Len(answers) >= 2 /\ x.read # "alone"
            /\ shown' = Append(Append(shown, x), Skipped)
            /\ answers' = Tail(Tail(answers))

LEMMA ReadOneEffect ==
  ASSUME TypeOK, AnswerInv, ReadOne
  PROVE  \E x \in Shown : ReadPrints(x)
<1> DEFINE m == sent[Len(shown) + 1]
           one == answers[1]
<1>1. /\ answers # <<>> /\ answers' = Tail(answers)
      /\ process \in {"runs", "exit", "crash", "killed"}
      /\ process = "runs" /\ shown \in Seq(Shown)
  BY DEF ReadOne, TypeOK
<1>2. /\ m \in Sent /\ one \in Answer /\ Head(answers) = one
      /\ one = Written(m) \/ one = Rest
      /\ AnswerRead(m)
  BY <1>1, FirstAnswer
<1>3. one.text \in Seq(Words)
  BY <1>2 DEF Answer
<1>4. \/ Handle(one.text, IF one = Rest THEN "joined" ELSE "alone", <<>>)
      \/ /\ ~one.padding
         /\ \E text \in Behind(one.text) : Handle(text, "garbage", <<>>)
  BY <1>2 DEF ReadOne
<1> HIDE DEF m, one
<1>5. ASSUME NEW x \in Shown, shown' = Append(shown, x) \o <<>>
      PROVE  shown' = Append(shown, x)
  <2>1. Append(shown, x) \in Seq(Shown)
    BY <1>1
  <2> QED
    BY <1>5, <2>1
<1>6. CASE one = Rest /\ Handle(one.text, "joined", <<>>)
  <2>1. one.text = <<>> /\ Interpret(one.text) = Crash
    BY <1>6 DEF Rest, Interpret
  <2>2. PICK x \in Shown :
          /\ x.read = "joined" /\ x.line = Nothing
          /\ shown' = Append(shown, x) \o <<>>
          /\ process' \in {"runs", "exit", "crash", "killed"}
    <3>1. HandlePrints(one.text, "joined", <<>>)
      BY <1>1, <1>3, <1>6, HandleEffect
    <3> QED
      BY <2>1, <3>1 DEF HandlePrints
  <2>3. Tells(x, m)
    BY <2>2 DEF Tells
  <2> QED
    BY <1>1, <1>5, <2>2, <2>3 DEF ReadPrints, m
<1>7. CASE one # Rest /\ Handle(one.text, "alone", <<>>)
  <2> DEFINE p == Interpret(Wire(m))
  <2>1. one.text = Wire(m)
    BY <1>2, <1>7 DEF Written
  <2>2. PICK x \in Shown :
          /\ x.text = Wire(m) /\ x.read = "alone"
          /\ shown' = Append(shown, x) \o <<>>
          /\ process' \in {"runs", "exit", "crash", "killed"}
          /\ x.line = Nothing \/ (p # Crash /\ x.line = Show(p))
          /\ p # Crash /\ ~Overrun(p) => /\ x.line = Show(p)
                                         /\ process' \in {process, "exit"}
    <3>1. HandlePrints(one.text, "alone", <<>>)
      BY <1>1, <1>3, <1>7, HandleEffect
    <3> QED
      BY <2>1, <3>1 DEF HandlePrints
  <2>3. Readable(m) => x.line = Show(m) /\ process' # "crash"
    BY <1>1, <1>2, <2>2 DEF AnswerRead
  <2>4. Fits(m) => x.line \in {Nothing, Show(m)}
    BY <1>2, <2>2 DEF AnswerRead
  <2>5. Tells(x, m)
    BY <2>2, <2>3, <2>4 DEF Tells
  <2> QED
    BY <1>1, <1>5, <2>2, <2>3, <2>5 DEF ReadPrints, m
<1>8. ASSUME NEW text \in Behind(one.text), Handle(text, "garbage", <<>>)
      PROVE  \E x \in Shown : ReadPrints(x)
  <2>1. text \in Seq(Words)
    BY <1>3, BehindText
  <2>2. PICK x \in Shown :
          /\ x.read = "garbage" /\ shown' = Append(shown, x) \o <<>>
          /\ process' \in {"runs", "exit", "crash", "killed"}
    <3>1. HandlePrints(text, "garbage", <<>>)
      BY <1>1, <1>8, <2>1, HandleEffect
    <3> QED
      BY <3>1 DEF HandlePrints
  <2>3. Tells(x, m)
    BY <2>2 DEF Tells
  <2> QED
    BY <1>1, <1>5, <2>2, <2>3 DEF ReadPrints, m
<1> QED
  BY <1>4, <1>6, <1>7, <1>8

LEMMA ReadTwoEffect ==
  ASSUME TypeOK, AnswerInv, ReadTwo
  PROVE  \E x \in Shown : ReadPrints(x)
<1> DEFINE m == sent[Len(shown) + 1]
           one == answers[1]
           other == answers[2]
           text == Join(one.text, other.text)
           skipped == IF other.padding THEN <<>> ELSE <<Skipped>>
           rest == Tail(Tail(answers))
<1>1. /\ answers # <<>> /\ Len(answers) >= 2
      /\ process \in {"runs", "exit", "crash", "killed"}
      /\ process = "runs" /\ shown \in Seq(Shown) /\ answers \in Seq(Answer)
      /\ answers' = (IF other.padding THEN <<Rest>> ELSE <<>>) \o rest
      /\ one.padding => one = Rest
      /\ \/ Handle(text, "joined", skipped)
         \/ \E more \in Behind(text) : Handle(more, "garbage", skipped)
  BY DEF ReadTwo, TypeOK
<1>2. /\ m \in Sent /\ one \in Answer
      /\ one = Written(m) \/ one = Rest
      /\ AnswerRead(m)
  BY <1>1, FirstAnswer
<1>3. other \in Answer /\ 2 \in DOMAIN answers
  BY <1>1
<1>4. other.text \in Seq(Words) /\ other.text # <<>>
  <2>1. other = Written(sent[Len(shown) + 2]) /\ Len(shown) + 2 \in DOMAIN sent
    <3>1. Len(shown) \in Nat /\ Len(sent) = Len(shown) + Len(answers)
      BY <1>1 DEF AnswerInv
    <3>2. Len(shown) + 2 \in DOMAIN sent
      BY <1>1, <3>1 DEF TypeOK
    <3> QED
      BY <1>3, <3>2 DEF AnswerInv
  <2>2. sent[Len(shown) + 2] \in Sent
    BY <2>1 DEF TypeOK
  <2> QED
    BY <2>1, <2>2, WireRead DEF AnswerRead, Written
<1>5. one.text \in Seq(Words)
  BY <1>2 DEF Answer
<1>6. text \in Seq(Words)
  BY <1>4, <1>5, JoinText
<1>7. rest \in Seq(Answer)
  BY <1>1, TailTail
<1>8. Interpret(text) # Crash =>
        Show(Interpret(text)) \in {Nothing, Show(m)}
  <2>1. CASE one = Rest
    <3>1. one.text = <<>>
      BY <2>1 DEF Rest
    <3>2. text = <<>>
      BY <3>1 DEF Join
    <3> QED
      BY <3>2 DEF Interpret
  <2>2. CASE one # Rest
    <3>1. one = Written(m) /\ ~one.padding
      BY <1>1, <1>2, <2>2
    <3>2. one.text = Wire(m)
      BY <3>1 DEF Written
    <3>3. m.accion # "05"
      <4>1. ~Written(m).padding
        BY <3>1
      <4> QED
        BY <4>1 DEF Written
    <3> QED
      BY <1>2, <1>4, <3>2, <3>3, JoinRead
  <2> QED
    BY <2>1, <2>2
<1> HIDE DEF m, one, other, text, rest
<1>9. ASSUME NEW x \in Shown, x.read # "alone", Tells(x, m),
             shown' = Append(shown, x) \o skipped,
             process' \in {"runs", "exit", "crash", "killed"}
      PROVE  ReadPrints(x)
  <2>1. Append(shown, x) \in Seq(Shown)
    BY <1>1
  <2>2. CASE other.padding
    <3>1. shown' = Append(shown, x) /\ answers' = <<Rest>> \o rest
      BY <1>1, <1>9, <2>1, <2>2
    <3> QED
      BY <1>1, <1>9, <3>1 DEF ReadPrints, m, rest
  <2>3. CASE ~other.padding
    <3>1. Skipped \in Shown
      BY DEF Skipped, Shown, Lines, Nothing
    <3>2. shown' = Append(shown, x) \o <<Skipped>> /\ answers' = <<>> \o rest
      BY <1>1, <1>9, <2>3
    <3> HIDE DEF skipped
    <3>3. Append(shown, x) \o <<Skipped>> = Append(Append(shown, x), Skipped)
      BY <2>1, <3>1
    <3>4. <<>> \o rest = rest
      BY <1>7
    <3> QED
      BY <1>1, <1>9, <3>2, <3>3, <3>4 DEF ReadPrints, m, rest
  <2> QED
    BY <2>2, <2>3
<1>10. CASE Handle(text, "joined", skipped)
  <2> HIDE DEF skipped
  <2>1. PICK x \in Shown :
          /\ x.read = "joined" /\ shown' = Append(shown, x) \o skipped
          /\ process' \in {"runs", "exit", "crash", "killed"}
          /\ \/ x.line = Nothing
             \/ Interpret(text) # Crash /\ x.line = Show(Interpret(text))
    <3>1. HandlePrints(text, "joined", skipped)
      BY <1>1, <1>6, <1>10, HandleEffect
    <3> QED
      BY <3>1 DEF HandlePrints
  <2>2. Tells(x, m)
    BY <1>8, <2>1 DEF Tells
  <2> QED
    BY <1>9, <2>1, <2>2
<1>11. ASSUME NEW more \in Behind(text), Handle(more, "garbage", skipped)
       PROVE  \E x \in Shown : ReadPrints(x)
  <2> HIDE DEF skipped
  <2>1. more \in Seq(Words)
    BY <1>6, BehindText
  <2>2. PICK x \in Shown :
          /\ x.read = "garbage" /\ shown' = Append(shown, x) \o skipped
          /\ process' \in {"runs", "exit", "crash", "killed"}
    <3>1. HandlePrints(more, "garbage", skipped)
      BY <1>1, <1>11, <2>1, HandleEffect
    <3> QED
      BY <3>1 DEF HandlePrints
  <2>3. Tells(x, m)
    BY <2>2 DEF Tells
  <2> QED
    BY <1>9, <2>2, <2>3
<1> QED
  BY <1>1, <1>10, <1>11

-----------------------------------------------------------------------------
(* Each part of the invariant is kept.                                     *)

(* The types are kept.                                                     *)
LEMMA TypeStep ==
  ASSUME IInv, [Next]_vars
  PROVE  TypeOK'
<1> USE DEF IInv
<1>1. ASSUME NEW accion \in {"00", "02", "03", "04", "06", "08"},
             NEW to \in {"start", "create", "menu", "close", "exit"},
             Request(accion, to)
      PROVE  TypeOK'
  <2>1. PICK r \in Asked :
          /\ asked' = Append(asked, r)
          /\ requests' = Append(requests, Frame(r))
          /\ Frame(r) \in Seq(Words)
          /\ main' \in {main, to} /\ process' \in {process, "exit", "killed"}
          /\ UNCHANGED <<reader, fresh, answers, server, understood, sent,
                         shown>>
    BY <1>1, RequestEffect
  <2>2. /\ asked' \in Seq(Asked) /\ requests' \in Seq(Seq(Words))
        /\ Len(requests') <= Len(asked')
    BY <2>1 DEF TypeOK
  <2> QED
    BY <2>1, <2>2 DEF TypeOK
<1>2. CASE Register
  BY <1>1, <1>2 DEF Register
<1>3. CASE Choose
  BY <1>1, <1>3 DEF Choose
<1>4. CASE Quit
  BY <1>1, <1>4 DEF Quit
<1>5. CASE CreateReader
  BY <1>5 DEF CreateReader, TypeOK
<1>6. CASE CloseSocket \/ Exit \/ Leave
  BY <1>6 DEF CloseSocket, Exit, Leave, TypeOK
<1>7. CASE ReadOne \/ ReadTwo
  <2>1. PICK x \in Shown : ReadPrints(x)
    BY <1>7, ReadOneEffect, ReadTwoEffect
  <2>2. answers # <<>> /\ answers \in Seq(Answer) /\ shown \in Seq(Shown)
    <3>1. answers \in Seq(Answer) /\ shown \in Seq(Shown)
      BY DEF TypeOK
    <3>2. Len(answers) >= 2 => answers # <<>>
      BY <3>1
    <3> QED
      BY <1>7, <3>1, <3>2 DEF ReadOne, ReadTwo
  <2>3. Skipped \in Shown /\ Rest \in Answer
    BY DEF Skipped, Shown, Lines, Nothing, Rest, Answer
  <2>4. shown' \in Seq(Shown)
    <3>1. Append(shown, x) \in Seq(Shown)
      BY <2>2
    <3>2. Append(Append(shown, x), Skipped) \in Seq(Shown)
      BY <2>3, <3>1, AppendProperties
    <3> QED
      BY <2>1, <3>1, <3>2 DEF ReadPrints
  <2>5. answers' \in Seq(Answer)
    <3>1. Tail(answers) \in Seq(Answer)
      BY <2>2
    <3>2. Len(answers) >= 2 => Tail(Tail(answers)) \in Seq(Answer)
      BY <2>2, TailTail
    <3>3. CASE answers' = Tail(answers)
      BY <3>1, <3>3
    <3>4. CASE Len(answers) >= 2 /\ answers' = Tail(Tail(answers))
      BY <3>2, <3>4
    <3>5. CASE Len(answers) >= 2 /\ answers' = <<Rest>> \o Tail(Tail(answers))
      <4>1. PICK s \in Seq(Answer) : s = Tail(Tail(answers))
        BY <3>2, <3>5
      <4>2. <<Rest>> \in Seq(Answer)
        BY <2>3
      <4> QED
        BY <3>5, <4>1, <4>2
    <3> QED
      BY <2>1, <3>3, <3>4, <3>5 DEF ReadPrints
  <2>6. /\ process' \in {"runs", "exit", "crash", "killed"}
        /\ fresh' = FALSE
        /\ UNCHANGED <<main, reader, asked, requests, server, sent>>
    BY <1>7, <2>1 DEF ReadPrints, ReadOne, ReadTwo
  <2> QED
    BY <2>4, <2>5, <2>6 DEF TypeOK
<1>8. CASE ReadEnd \/ ReadFails
  BY <1>8 DEF ReadEnd, ReadFails, After, TypeOK
<1>9. ASSUME ServeWrites
      PROVE  /\ answers' \in Seq(Answer)
             /\ sent' \in Seq(Sent) /\ Len(sent') <= MaxAnswers
  <2>1. CASE UNCHANGED <<answers, sent>>
    BY <2>1 DEF TypeOK
  <2>2. ASSUME NEW m \in Sent, Tell(m)
        PROVE  /\ answers' \in Seq(Answer)
               /\ sent' \in Seq(Sent) /\ Len(sent') <= MaxAnswers
    <3>1. Written(m) \in Answer
      BY WireRead DEF AnswerRead, Written, Answer
    <3>2. answers \in Seq(Answer) /\ sent \in Seq(Sent)
      BY DEF TypeOK
    <3>3. answers' \in Seq(Answer)
      BY <2>2, <3>1, <3>2 DEF Tell
    <3>4. sent' \in Seq(Sent) /\ Len(sent') = Len(sent) + 1
      BY <2>2, <3>2 DEF Tell
    <3>5. Len(sent) < MaxAnswers /\ Len(sent) \in Nat /\ MaxAnswers \in Nat
      BY <2>2, <3>2, ClientAssumption DEF Tell, ClientAssumption
    <3> QED
      BY <3>3, <3>4, <3>5
  <2> QED
    BY <1>9, <2>1, <2>2 DEF ServeWrites
<1>10. CASE Serve
  <2>1. ServeWrites /\ server' \in {"open", "closed", "down"}
    BY <1>10, ServeEffect
  <2>2. requests # <<>> /\ requests' = Tail(requests)
    BY <1>10 DEF Serve, Unread
  <2>3. /\ requests' \in Seq(Seq(Words))
        /\ Len(requests') <= Len(asked)
    BY <2>2 DEF TypeOK
  <2>4. UNCHANGED <<main, reader, process, fresh, asked, shown>>
    BY <1>10 DEF Serve
  <2> QED
    BY <1>9, <2>1, <2>3, <2>4 DEF TypeOK
<1>11. CASE Abort
  BY <1>11 DEF Abort, TypeOK
<1>12. CASE Forward
  BY <1>9, <1>12, ForwardEffect DEF TypeOK
<1>13. CASE UNCHANGED vars
  BY <1>13 DEF vars, TypeOK
<1> QED
  BY <1>2, <1>3, <1>4, <1>5, <1>6, <1>7, <1>8, <1>10, <1>11, <1>12, <1>13
     DEF Next, ReaderStep, Idle

(* A sequence as a function, and a function as a sequence that grows.      *)
LEMMA SeqForm ==
  ASSUME NEW S, NEW s \in Seq(S), NEW n, n = Len(s)
  PROVE  s = [k \in 1..n |-> s[k]]
OBVIOUS

LEMMA AppendForm ==
  ASSUME NEW n \in Nat, n - 1 \in Nat, NEW s, NEW x,
         s = [k \in 1..(n - 1) |-> s[k]]
  PROVE  /\ Append(s, x) = [k \in 1..n |-> IF k = n THEN x ELSE s[k]]
         /\ Len(s) = n - 1
<1> DEFINE S == {s[k] : k \in 1..(n - 1)} \cup {x}
<1>1. s \in [1..(n - 1) -> S]
  OBVIOUS
<1> HIDE DEF S
<1>2. s \in Seq(S) /\ Len(s) = n - 1
  BY <1>1
<1>3. x \in S
  BY DEF S
<1>4. /\ Append(s, x) \in Seq(S) /\ Len(Append(s, x)) = n
      /\ Append(s, x)[n] = x
      /\ \A k \in 1..(n - 1) : Append(s, x)[k] = s[k]
  BY <1>2, <1>3
<1>5. Append(s, x) = [k \in 1..n |-> Append(s, x)[k]]
  BY <1>4, SeqForm
<1>6. \A k \in 1..n : Append(s, x)[k] = IF k = n THEN x ELSE s[k]
  BY <1>4
<1> QED
  BY <1>2, <1>5, <1>6

(* Requests are read in the order in which they were sent.                 *)
LEMMA RequestStep ==
  ASSUME IInv, [Next]_vars
  PROVE  RequestInv'
<1> USE DEF IInv
<1>1. /\ Len(asked) \in Nat /\ Len(requests) \in Nat
      /\ Len(requests) <= Len(asked)
      /\ asked \in Seq(Asked) /\ requests \in Seq(Seq(Words))
  BY DEF TypeOK
<1>2. /\ \A k \in 1..Len(requests) :
           requests[k] = Frame(asked[Len(asked) - Len(requests) + k])
      /\ \A k \in DOMAIN asked :
           Len(asked[k].inputs) = Entered(asked[k].accion)
      /\ understood = [k \in 1..(Len(asked) - Len(requests)) |->
                         Interpret(Frame(asked[k]))]
  BY DEF RequestInv
<1>3. ASSUME NEW accion \in {"00", "02", "03", "04", "06", "08"}, NEW to,
             Request(accion, to)
      PROVE  RequestInv'
  <2>1. PICK r \in Asked :
          /\ Len(r.inputs) = Entered(r.accion)
          /\ asked' = Append(asked, r)
          /\ requests' = Append(requests, Frame(r))
          /\ Frame(r) \in Seq(Words)
          /\ UNCHANGED understood
    BY <1>3, RequestEffect
  <2>2. /\ Len(asked') = Len(asked) + 1 /\ Len(requests') = Len(requests) + 1
        /\ DOMAIN asked' = 1..(Len(asked) + 1)
        /\ \A k \in 1..Len(asked) : asked'[k] = asked[k]
        /\ asked'[Len(asked) + 1] = r
    BY <1>1, <2>1
  <2>3. /\ \A k \in 1..Len(requests) : requests'[k] = requests[k]
        /\ requests'[Len(requests) + 1] = Frame(r)
        /\ DOMAIN requests' = 1..(Len(requests) + 1)
    BY <1>1, <2>1
  <2>4. Len(asked') - Len(requests') = Len(asked) - Len(requests)
    BY <1>1, <2>2
  <2>5. \A k \in DOMAIN asked' :
          Len(asked'[k].inputs) = Entered(asked'[k].accion)
    BY <1>1, <1>2, <2>1, <2>2
  <2>6. ASSUME NEW k \in 1..(Len(requests) + 1)
        PROVE  requests'[k] = Frame(asked'[Len(asked) - Len(requests) + k])
    <3>1. CASE k = Len(requests) + 1
      BY <1>1, <2>2, <2>3, <3>1
    <3>2. CASE k \in 1..Len(requests)
      <4>1. Len(asked) - Len(requests) + k \in 1..Len(asked)
        BY <1>1, <3>2
      <4> QED
        BY <1>2, <2>2, <2>3, <3>2, <4>1
    <3> QED
      BY <1>1, <3>1, <3>2
  <2>7. requests' = [k \in 1..Len(requests') |->
                       Frame(asked'[Len(asked') - Len(requests') + k])]
    <3>1. requests' = [k \in 1..(Len(requests) + 1) |-> requests'[k]]
      <4>1. requests' \in Seq(Seq(Words))
        BY <1>1, <2>1
      <4> QED
        BY <2>2, <4>1, SeqForm
    <3> QED
      BY <2>2, <2>4, <2>6, <3>1
  <2>8. \A k \in 1..(Len(asked) - Len(requests)) : asked'[k] = asked[k]
    BY <1>1, <2>2
  <2>9. understood' = [k \in 1..(Len(asked') - Len(requests')) |->
                         Interpret(Frame(asked'[k]))]
    BY <1>2, <2>1, <2>4, <2>8
  <2> QED
    BY <2>5, <2>7, <2>9 DEF RequestInv
<1>4. CASE Register \/ Choose \/ Quit
  BY <1>3, <1>4 DEF Register, Choose, Quit
<1>5. CASE Serve
  <2> DEFINE n == Len(asked) - Len(requests) + 1
             p == Interpret(Frame(asked[n]))
  <2>1. /\ requests # <<>> /\ requests' = Tail(requests) /\ asked' = asked
    BY <1>5 DEF Serve, Unread
  <2>2. understood' = Append(understood, p)
    BY <1>5, ServeEffect
  <2>3. /\ Len(requests') = Len(requests) - 1 /\ Len(requests) > 0
        /\ \A k \in 1..(Len(requests) - 1) : requests'[k] = requests[k + 1]
        /\ DOMAIN requests' = 1..(Len(requests) - 1)
    BY <1>1, <2>1
  <2>4. Len(asked') - Len(requests') = n /\ n \in Nat
    BY <1>1, <2>1, <2>3
  <2>5. ASSUME NEW k \in 1..(Len(requests) - 1)
        PROVE  requests'[k] = Frame(asked[n + k])
    <3>1. /\ k + 1 \in 1..Len(requests)
          /\ n + k = Len(asked) - Len(requests) + (k + 1)
      BY <1>1, <2>3
    <3> QED
      BY <1>2, <2>3, <3>1
  <2>6. requests' = [k \in 1..Len(requests') |->
                       Frame(asked'[Len(asked') - Len(requests') + k])]
    <3>1. requests' = [k \in 1..(Len(requests) - 1) |-> requests'[k]]
      <4>1. requests' \in Seq(Seq(Words))
        BY <1>1, <2>1
      <4> QED
        BY <2>3, <4>1, SeqForm
    <3> QED
      BY <2>1, <2>3, <2>4, <2>5, <3>1
  <2>7. understood' = [k \in 1..n |-> Interpret(Frame(asked[k]))]
    <3> DEFINE Read(k) == Interpret(Frame(asked[k]))
    <3>1. understood = [k \in 1..(n - 1) |-> Read(k)] /\ p = Read(n)
      BY <1>1, <1>2
    <3> HIDE DEF Read, n, p
    <3>2. n \in Nat /\ n - 1 \in Nat
      BY <1>1, <2>3, <2>4 DEF n
    <3>3. /\ understood = [k \in 1..(n - 1) |-> understood[k]]
          /\ \A k \in 1..(n - 1) : understood[k] = Read(k)
      BY <3>1
    <3>4. understood' = [k \in 1..n |-> IF k = n THEN p ELSE understood[k]]
      BY <2>2, <3>2, <3>3, AppendForm
    <3>5. \A k \in 1..n : k = n \/ k \in 1..(n - 1)
      BY <3>2
    <3> QED
      BY <3>1, <3>3, <3>4, <3>5 DEF Read
  <2> QED
    BY <1>2, <2>1, <2>4, <2>6, <2>7 DEF RequestInv
<1>6. CASE UNCHANGED <<asked, requests, understood>>
  BY <1>6 DEF RequestInv
<1> QED
  BY <1>4, <1>5, <1>6, ForwardEffect
     DEF Next, ReaderStep, Idle, vars, CreateReader, CloseSocket, Exit, Leave,
         ReadOne, ReadTwo, ReadEnd, ReadFails, Abort

(* The server is down only after a request that it could not read or that  *)
(* was too much for its heap.                                              *)
LEMMA DownStep ==
  ASSUME IInv, [Next]_vars
  PROVE  DownInv'
<1> USE DEF IInv
<1>1. CASE Serve
  <2> DEFINE n == Len(asked) - Len(requests) + 1
             p == Interpret(Frame(asked[n]))
  <2>1. understood' = Append(understood, p) /\ (server' = "down" => p = Crash)
    BY <1>1, ServeEffect
  <2>2. n \in Nat /\ n - 1 \in Nat
    BY DEF TypeOK
  <2>3. understood = [k \in 1..(n - 1) |-> understood[k]]
    <3>1. understood = [k \in 1..(n - 1) |-> Interpret(Frame(asked[k]))]
      BY DEF RequestInv, TypeOK
    <3> HIDE DEF n
    <3> QED
      BY <3>1
  <2> HIDE DEF n, p
  <2>4. understood' = [k \in 1..n |-> IF k = n THEN p ELSE understood[k]]
    BY <2>1, <2>2, <2>3, AppendForm
  <2>5. n \in 1..n
    BY <2>2
  <2> QED
    BY <2>1, <2>4, <2>5 DEF DownInv
<1>2. CASE UNCHANGED <<server, understood>>
  BY <1>2 DEF DownInv
<1>3. ASSUME NEW accion \in {"00", "02", "03", "04", "06", "08"}, NEW to,
             Request(accion, to)
      PROVE  UNCHANGED <<server, understood>>
  BY <1>3 DEF Request
<1>4. CASE Register \/ Choose \/ Quit
  BY <1>2, <1>3, <1>4 DEF Register, Choose, Quit
<1>5. CASE Abort
  BY <1>5 DEF Abort, DownInv
<1> QED
  BY <1>1, <1>2, <1>4, <1>5, ForwardEffect
     DEF Next, ReaderStep, Idle, vars, CreateReader, CloseSocket, Exit, Leave,
         ReadOne, ReadTwo, ReadEnd, ReadFails

(* An answer that is written is the last of those that wait, and changes   *)
(* nothing for those that were printed.                                    *)
LEMMA WriteStep ==
  ASSUME IInv, ServeWrites, UNCHANGED <<shown, process>>,
         server # "open" => server' # "open"
  PROVE  AnswerInv' /\ ToldInOrder'
<1> USE DEF IInv
<1>1. CASE UNCHANGED <<answers, sent>>
  BY <1>1 DEF AnswerInv, ToldInOrder
<1>2. ASSUME NEW m \in Sent, Tell(m)
      PROVE  AnswerInv' /\ ToldInOrder'
  <2> DEFINE n == Len(answers)
  <2>1. /\ answers \in Seq(Answer) /\ sent \in Seq(Sent)
        /\ shown \in Seq(Shown)
        /\ sent' = Append(sent, m) /\ answers' = Append(answers, Written(m))
    BY <1>2 DEF Tell, TypeOK
  <2>2. /\ n \in Nat /\ Len(shown) \in Nat /\ Len(sent) = Len(shown) + n
    BY <2>1 DEF AnswerInv
  <2>3. Written(m) \in Answer
    BY WireRead DEF AnswerRead, Written, Answer
  <2>4. /\ Len(sent') = Len(sent) + 1 /\ sent'[Len(sent) + 1] = m
        /\ \A k \in 1..Len(sent) : sent'[k] = sent[k]
    BY <2>1
  <2>5. /\ Len(answers') = n + 1 /\ answers'[n + 1] = Written(m)
        /\ DOMAIN answers' = 1..(n + 1)
        /\ \A k \in 1..n : answers'[k] = answers[k]
    BY <2>1, <2>3
  <2> HIDE DEF n
  <2>6. ASSUME NEW k \in 1..(n + 1)
        PROVE  LET w == sent'[Len(shown) + k]
               IN  \/ answers'[k] = Written(w)
                   \/ /\ answers'[k] = Rest /\ k = 1
                      /\ \E l \in DOMAIN shown : shown[l].read # "alone"
    <3>1. CASE k = n + 1
      <4>1. Len(shown) + k = Len(sent) + 1
        BY <2>2, <3>1
      <4> QED
        BY <2>4, <2>5, <3>1, <4>1
    <3>2. CASE k \in 1..n
      <4>1. Len(shown) + k \in 1..Len(sent) /\ k \in DOMAIN answers
        BY <2>1, <2>2, <3>2 DEF n
      <4>2. sent'[Len(shown) + k] = sent[Len(shown) + k]
        BY <2>4, <4>1
      <4>3. answers'[k] = answers[k]
        BY <2>5, <3>2
      <4> QED
        BY <4>1, <4>2, <4>3 DEF AnswerInv
    <3> QED
      BY <2>2, <3>1, <3>2
  <2>7. AnswerInv'
    <3>1. Len(sent') = Len(shown') + Len(answers')
      BY <2>2, <2>4, <2>5
    <3> QED
      BY <2>5, <2>6, <3>1 DEF AnswerInv
  <2>8. \A k \in DOMAIN shown : sent'[k] = sent[k]
    BY <2>1, <2>2, <2>4
  <2>9. ToldInOrder'
    BY <2>8 DEF ToldInOrder
  <2> QED
    BY <2>7, <2>9
<1> QED
  BY <1>1, <1>2 DEF ServeWrites

(* What is read was the first answer that waited.                          *)
LEMMA ReadStep ==
  ASSUME IInv, ReadOne \/ ReadTwo
  PROVE  AnswerInv' /\ ToldInOrder'
<1> USE DEF IInv
<1> DEFINE n == Len(shown) + 1
<1>1. PICK x \in Shown : ReadPrints(x)
  BY ReadOneEffect, ReadTwoEffect
<1>2. UNCHANGED <<sent, server>> /\ answers # <<>> /\ process # "crash"
  <2>1. Len(answers) >= 2 => answers # <<>>
    BY DEF TypeOK
  <2> QED
    BY <2>1 DEF ReadOne, ReadTwo
<1>3. /\ answers \in Seq(Answer) /\ sent \in Seq(Sent) /\ shown \in Seq(Shown)
      /\ Len(answers) \in Nat /\ Len(answers) >= 1
      /\ Len(shown) \in Nat /\ Len(sent) = Len(shown) + Len(answers)
  BY <1>2 DEF AnswerInv, TypeOK
<1>4. /\ Append(shown, x) \in Seq(Shown) /\ Len(Append(shown, x)) = n
      /\ Append(shown, x)[n] = x
      /\ \A k \in 1..Len(shown) : Append(shown, x)[k] = shown[k]
  BY <1>3
<1>5. ASSUME NEW k \in 2..Len(answers)
      PROVE  answers[k] = Written(sent[Len(shown) + k])
  <2>1. k \in DOMAIN answers /\ k # 1
    BY <1>3
  <2> QED
    BY <2>1 DEF AnswerInv
<1>6. /\ Tells(x, sent[n])
      /\ process' = "crash" => x.read # "alone" \/ ~Readable(sent[n])
  BY <1>1 DEF ReadPrints
<1>7. \A k \in DOMAIN shown : Tells(shown[k], sent[k])
  BY DEF ToldInOrder
<1> HIDE DEF n
<1>8. n \in Nat /\ n >= 1 /\ n = Len(shown) + 1
  BY <1>3 DEF n
<1>9. CASE shown' = Append(shown, x)
  <2>1. DOMAIN shown' = 1..n /\ shown'[n] = x /\ n \in DOMAIN shown'
    BY <1>4, <1>8, <1>9
  <2>2. ASSUME NEW k \in DOMAIN shown'
        PROVE  Tells(shown'[k], sent'[k])
    <3>1. CASE k = n
      BY <1>2, <1>6, <2>1, <3>1
    <3>2. CASE k # n
      <4>1. k \in DOMAIN shown /\ shown'[k] = shown[k]
        BY <1>3, <1>4, <1>8, <1>9, <2>1, <3>2
      <4> QED
        BY <1>2, <1>7, <4>1
    <3> QED
      BY <3>1, <3>2
  <2>3. process' = "crash" =>
          \E k \in DOMAIN shown' :
            shown'[k].read # "alone" \/ ~Readable(sent'[k])
    BY <1>2, <1>6, <2>1
  <2>4. ToldInOrder'
    BY <2>2, <2>3 DEF ToldInOrder
  <2>5. CASE answers' = Tail(answers)
    <3>1. /\ Len(answers') = Len(answers) - 1
          /\ DOMAIN answers' = 1..(Len(answers) - 1)
          /\ \A k \in 1..(Len(answers) - 1) : answers'[k] = answers[k + 1]
      BY <1>2, <1>3, <2>5
    <3>2. ASSUME NEW k \in DOMAIN answers'
          PROVE  answers'[k] = Written(sent'[Len(shown') + k])
      <4>1. k + 1 \in 2..Len(answers) /\ k \in 1..(Len(answers) - 1)
        BY <1>3, <3>1
      <4>2. Len(shown') + k = Len(shown) + (k + 1)
        BY <1>3, <1>4, <1>8, <1>9, <4>1
      <4> QED
        BY <1>2, <1>5, <3>1, <4>1, <4>2
    <3>3. Len(sent') = Len(shown') + Len(answers')
      BY <1>2, <1>3, <1>4, <1>8, <1>9, <3>1
    <3>4. AnswerInv'
      BY <3>2, <3>3 DEF AnswerInv
    <3> QED
      BY <2>4, <3>4
  <2>6. CASE /\ Len(answers) >= 2 /\ x.read # "alone"
             /\ answers' = <<Rest>> \o Tail(Tail(answers))
    <3>1. PICK s \in Seq(Answer) :
            /\ s = Tail(Tail(answers)) /\ Len(s) = Len(answers) - 2
            /\ \A k \in 1..(Len(answers) - 2) : s[k] = answers[k + 2]
      BY <1>3, <2>6, TailTail
    <3>2. PICK r \in Seq(Answer) : r = <<Rest>> /\ Len(r) = 1 /\ r[1] = Rest
      <4>1. Rest \in Answer
        BY DEF Rest, Answer
      <4>2. /\ <<Rest>> \in Seq(Answer) /\ Len(<<Rest>>) = 1
            /\ <<Rest>>[1] = Rest
        BY <4>1
      <4> QED
        BY <4>2
    <3>3. answers' = r \o s
      BY <2>6, <3>1, <3>2
    <3>4. /\ Len(answers') = Len(answers) - 1
          /\ DOMAIN answers' = 1..(Len(answers) - 1)
          /\ answers'[1] = Rest
          /\ \A k \in 2..(Len(answers) - 1) : answers'[k] = answers[k + 1]
      <4>1. Len(answers') = Len(answers) - 1 /\ answers' \in Seq(Answer)
        BY <1>3, <3>1, <3>2, <3>3
      <4>2. answers'[1] = Rest
        BY <3>2, <3>3
      <4>3. ASSUME NEW k \in 2..(Len(answers) - 1)
            PROVE  answers'[k] = answers[k + 1]
        <5>1. k - 1 \in 1..(Len(answers) - 2) /\ (k - 1) + 2 = k + 1
          BY <1>3
        <5>2. answers'[k] = s[k - 1]
          BY <1>3, <3>1, <3>2, <3>3, <5>1
        <5> QED
          BY <3>1, <5>1, <5>2
      <4> QED
        BY <4>1, <4>2, <4>3
    <3>5. ASSUME NEW k \in DOMAIN answers'
          PROVE  \/ answers'[k] = Written(sent'[Len(shown') + k])
                 \/ /\ answers'[k] = Rest /\ k = 1
                    /\ \E l \in DOMAIN shown' : shown'[l].read # "alone"
      <4>1. CASE k = 1
        BY <2>1, <2>6, <3>4, <4>1
      <4>2. CASE k # 1
        <5>1. k + 1 \in 2..Len(answers) /\ k \in 2..(Len(answers) - 1)
          BY <1>3, <3>4, <4>2
        <5>2. Len(shown') + k = Len(shown) + (k + 1)
          BY <1>3, <1>4, <1>8, <1>9, <5>1
        <5> QED
          BY <1>2, <1>5, <3>4, <5>1, <5>2
      <4> QED
        BY <4>1, <4>2
    <3>6. Len(sent') = Len(shown') + Len(answers')
      BY <1>2, <1>3, <1>4, <1>8, <1>9, <3>4
    <3>7. AnswerInv'
      BY <3>5, <3>6 DEF AnswerInv
    <3> QED
      BY <2>4, <3>7
  <2>7. Append(shown, x) # Append(Append(shown, x), Skipped)
    <3>1. Skipped \in Shown
      BY DEF Skipped, Shown, Lines, Nothing
    <3>2. Len(Append(Append(shown, x), Skipped)) = n + 1
      BY <1>4, <3>1, AppendProperties
    <3> QED
      BY <1>4, <1>8, <3>2
  <2> QED
    BY <1>1, <1>9, <2>5, <2>6, <2>7 DEF ReadPrints
<1>10. CASE /\ Len(answers) >= 2 /\ x.read # "alone"
            /\ shown' = Append(Append(shown, x), Skipped)
            /\ answers' = Tail(Tail(answers))
  <2>1. Skipped \in Shown
    BY DEF Skipped, Shown, Lines, Nothing
  <2>2. /\ shown' \in Seq(Shown) /\ Len(shown') = n + 1
        /\ DOMAIN shown' = 1..(n + 1)
        /\ shown'[n] = x /\ shown'[n + 1] = Skipped
        /\ \A k \in 1..Len(shown) : shown'[k] = shown[k]
    <3>1. PICK s \in Seq(Shown) : s = Append(shown, x)
      BY <1>4
    <3>2. /\ shown' = Append(s, Skipped) /\ Len(s) = n /\ s[n] = x
          /\ \A k \in 1..Len(shown) : s[k] = shown[k]
      BY <1>4, <1>10, <3>1
    <3>3. /\ shown' \in Seq(Shown) /\ Len(shown') = n + 1
          /\ shown'[n + 1] = Skipped
          /\ \A k \in 1..n : shown'[k] = s[k]
      BY <2>1, <3>2, AppendProperties
    <3>4. DOMAIN shown' = 1..(n + 1) /\ n \in 1..n
      BY <1>8, <3>3
    <3>5. \A k \in 1..Len(shown) : k \in 1..n
      BY <1>8
    <3> QED
      BY <3>2, <3>3, <3>4, <3>5
  <2>3. ASSUME NEW k \in DOMAIN shown'
        PROVE  Tells(shown'[k], sent'[k])
    <3>1. CASE k = n
      BY <1>2, <1>6, <2>2, <3>1
    <3>2. CASE k = n + 1
      BY <2>2, <3>2 DEF Tells, Skipped
    <3>3. CASE k # n /\ k # n + 1
      <4>1. k \in DOMAIN shown /\ shown'[k] = shown[k]
        BY <1>3, <1>8, <2>2, <3>3
      <4> QED
        BY <1>2, <1>7, <4>1
    <3> QED
      BY <3>1, <3>2, <3>3
  <2>4. n \in DOMAIN shown'
    BY <1>8, <2>2
  <2>5. ToldInOrder'
    BY <1>10, <2>2, <2>3, <2>4 DEF ToldInOrder
  <2>6. /\ answers' \in Seq(Answer) /\ Len(answers') = Len(answers) - 2
        /\ DOMAIN answers' = 1..(Len(answers) - 2)
        /\ \A k \in 1..(Len(answers) - 2) : answers'[k] = answers[k + 2]
    BY <1>3, <1>10, TailTail
  <2>7. ASSUME NEW k \in DOMAIN answers'
        PROVE  answers'[k] = Written(sent'[Len(shown') + k])
    <3>1. k + 2 \in 2..Len(answers) /\ k \in 1..(Len(answers) - 2)
      BY <1>3, <2>6
    <3>2. Len(shown') + k = Len(shown) + (k + 2)
      BY <1>3, <1>8, <2>2, <3>1
    <3> QED
      BY <1>2, <1>5, <2>6, <3>1, <3>2
  <2>8. Len(sent') = Len(shown') + Len(answers')
    BY <1>2, <1>3, <1>8, <2>2, <2>6
  <2>9. AnswerInv'
    BY <2>7, <2>8 DEF AnswerInv
  <2> QED
    BY <2>5, <2>9
<1> QED
  BY <1>1, <1>9, <1>10 DEF ReadPrints

(* The answers wait and are printed in the order of the server.            *)
LEMMA AnswerStep ==
  ASSUME IInv, [Next]_vars
  PROVE  AnswerInv' /\ ToldInOrder'
<1> USE DEF IInv
<1>1. CASE /\ UNCHANGED <<answers, sent, shown>>
           /\ server # "open" => server' # "open"
           /\ process' = "crash" => process = "crash" \/ server # "open"
  BY <1>1 DEF AnswerInv, ToldInOrder
<1>2. ASSUME NEW accion \in {"00", "02", "03", "04", "06", "08"}, NEW to,
             Request(accion, to)
      PROVE  /\ UNCHANGED <<answers, sent, shown, server>>
             /\ process' = "crash" => process = "crash"
  BY <1>2 DEF Request
<1>3. CASE Register \/ Choose \/ Quit
  BY <1>1, <1>2, <1>3 DEF Register, Choose, Quit
<1>4. CASE CreateReader \/ CloseSocket \/ Exit \/ Leave
  BY <1>1, <1>4 DEF CreateReader, CloseSocket, Exit, Leave
<1>5. CASE ReadEnd \/ ReadFails
  BY <1>1, <1>5 DEF ReadEnd, ReadFails
<1>6. CASE Serve
  <2>1. ServeWrites
    BY <1>6, ServeEffect
  <2>2. UNCHANGED <<shown, process>> /\ server = "open"
    BY <1>6 DEF Serve
  <2> QED
    BY <2>1, <2>2, WriteStep
<1>7. CASE Abort
  BY <1>1, <1>7 DEF Abort
<1>8. CASE Forward
  BY <1>8, ForwardEffect, WriteStep
<1>9. CASE UNCHANGED vars
  BY <1>1, <1>9 DEF vars
<1> QED
  BY <1>3, <1>4, <1>5, <1>6, <1>7, <1>8, <1>9, ReadStep
     DEF Next, ReaderStep, Idle

-----------------------------------------------------------------------------
(* The theorems.                                                           *)

(* The invariant holds at the start.                                       *)
LEMMA InitInv == Init => IInv
<1> SUFFICES ASSUME Init
             PROVE  IInv
  OBVIOUS
<1>1. TypeOK
  <2>1. /\ asked \in Seq(Asked) /\ requests \in Seq(Seq(Words))
        /\ answers \in Seq(Answer) /\ sent \in Seq(Sent)
        /\ shown \in Seq(Shown) /\ Len(requests) <= Len(asked)
    BY DEF Init
  <2>2. Len(sent) <= MaxAnswers
    BY ClientAssumption DEF Init, ClientAssumption
  <2> QED
    BY <2>1, <2>2 DEF Init, TypeOK
<1>2. RequestInv /\ DownInv
  BY DEF Init, RequestInv, DownInv
<1>3. AnswerInv /\ ToldInOrder
  BY DEF Init, AnswerInv, ToldInOrder
<1> QED
  BY <1>1, <1>2, <1>3 DEF IInv

(* Every behaviour of the client and the server keeps the invariant.       *)
THEOREM Invariance == Spec => []IInv
<1>1. IInv /\ [Next]_vars => IInv'
  BY TypeStep, RequestStep, DownStep, AnswerStep DEF IInv
<1> QED
  BY InitInv, <1>1, PTL DEF Spec

(* The k-th request that was understood.                                   *)
LEMMA UnderstoodRead ==
  ASSUME IInv, NEW k \in DOMAIN understood
  PROVE  /\ k \in DOMAIN asked /\ asked[k] \in Asked
         /\ understood[k] = Interpret(Frame(asked[k]))
         /\ FrameRead(asked[k])
<1>1. k \in 1..(Len(asked) - Len(requests))
  BY DEF IInv, RequestInv
<1>2. understood[k] = Interpret(Frame(asked[k]))
  BY <1>1 DEF IInv, RequestInv
<1>3. k \in DOMAIN asked /\ asked[k] \in Asked
  BY <1>1 DEF IInv, TypeOK
<1>4. Len(asked[k].inputs) = Entered(asked[k].accion)
  BY <1>3 DEF IInv, RequestInv
<1> QED
  BY <1>2, <1>3, <1>4, RequestRead

(* What the server understands of a request is what its user meant, if the *)
(* inputs are neither empty nor hold a separator, and the fields fit the   *)
(* frame and the arrays of the parser: the snprintf() of the client and    *)
(* the strtok_r() of the server agree.                                     *)
THEOREM UnderstoodAsMeant == Spec => []ReadAsMeant
<1>1. IInv => ReadAsMeant
  <2> SUFFICES ASSUME IInv, NEW k \in DOMAIN understood, Plain(asked[k])
               PROVE  understood[k] = Meant(asked[k])
    BY DEF ReadAsMeant
  <2> QED
    BY UnderstoodRead DEF FrameRead
<1> QED
  BY Invariance, <1>1, PTL

(* A user takes the server down, through interpret() or the heap, only     *)
(* with an empty input, one that is too long, or a name that is too long.  *)
THEOREM DownOnlyByInput == Spec => []DownByInput
<1>1. IInv => DownByInput
  <2> SUFFICES ASSUME IInv, server = "down"
               PROVE  \/ User \in Long["usuario"]
                      \/ \E k \in DOMAIN asked :
                           \E l \in DOMAIN asked[k].inputs :
                             \/ asked[k].inputs[l] = <<>>
                             \/ TooLong(asked[k].inputs[l])
    BY DEF DownByInput
  <2>1. PICK k \in DOMAIN understood :
          understood[k] = Crash \/ TooMuch(understood[k])
    BY DEF IInv, DownInv
  <2>2. k \in DOMAIN asked /\ TooHard(asked[k])
    BY <2>1, UnderstoodRead DEF FrameRead
  <2> QED
    BY <2>2 DEF TooHard
<1> QED
  BY Invariance, <1>1, PTL

(* What sreader() prints for each answer, in the order of the server, and  *)
(* where it crashes: see ToldInOrder.                                      *)
THEOREM AnswersInOrder == Spec => []ToldInOrder
<1>1. IInv => ToldInOrder
  BY DEF IInv
<1> QED
  BY Invariance, <1>1, PTL

=============================================================================
