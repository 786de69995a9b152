------------------------------- MODULE MCClient -------------------------------
(* Values for the constants of Client, for model checking.                 *)
EXTENDS Client, TLC

(* Words, by their second character: the names, states and texts, one that *)
(* is too long, one that looks like the beginning of a 05 and those that   *)
(* the end of one text and the beginning of another give.                  *)
SecondOf ==
  "00" :> "0" @@ "01" :> "1" @@ "02" :> "2" @@ "03" :> "3" @@ "04" :> "4"
  @@ "05" :> "5" @@ "06" :> "6" @@ "07" :> "7" @@ "08" :> "8"
  @@ "15" :> "5"
  @@ [x \in {"192.168.0.1", "1100", "0", "ana", "eva", "ana+0", "eva+1",
             "long", "spoilt"} |-> "n"]
  @@ "000" :> "0" @@ "011" :> "1" @@ "022" :> "2" @@ "033" :> "3"
  @@ "044" :> "4" @@ "055" :> "5" @@ "066" :> "6" @@ "077" :> "7"
  @@ "088" :> "8" @@ "nnn" :> "n" @@ "ana+00" :> "n"

AllWords == DOMAIN SecondOf
SomeEntries == {"ana+0", "eva+1", "ana+00"}
GluedWords == {"000", "011", "022", "033", "044", "055", "066", "077", "088",
               "nnn"}

GluedOf ==
  [x \in SomeEntries |-> "ana+00"]
  @@ [x \in AllWords |-> CHOOSE y \in GluedWords : SecondOf[y] = SecondOf[x]]

(* What is too long for the accion, and for the other members.             *)
LongOf ==
  "accion" :> (AllWords \ ({c[1] : c \in Codes} \cup {"15"}))
  @@ [x \in MemberNames |-> {"long", "spoilt"}]

(* What is typed: a word, nothing, and a text that fills the frame.        *)
TypedInputs == {<<"eva">>, <<>>, <<"long">>}
BigInputs == {<<"long">>}

(* What others send, their states, and the lists of an 07.                 *)
SentTexts == {"eva", "05"}
SomeStatuses == {"0", "long"}
SomeLists == {<<>>, <<"eva+1", "ana+0">>}
SomeGarbage == {<<"eva", "eva", "eva", "eva">>}

=============================================================================
