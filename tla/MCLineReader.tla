---------------------------- MODULE MCLineReader ----------------------------
(* Streams for TLC.                                                        *)
EXTENDS LineReader, SequencesExt

Bytes == {"JOIN", "send", "LEAVE", Sep, " ", "a", NotUtf8, NL}

(* everything short; lines of all lengths around the limit; a name and     *)
(* every text after SEND; two names                                        *)
Short == BoundedSeq(Bytes, 4)
Long == BoundedSeq({"a", NL}, 8)
Texts == {<<"JOIN", Sep>> \o p \o <<NL, "SEND", Sep>> \o t \o <<NL>> :
            p \in {<<"a">>, <<" ", "b">>, <<"ss">>},
            t \in BoundedSeq({Sep, " ", "a"}, 3)}
Pairs == {<<"JOIN", Sep>> \o p \o <<NL, "JOIN", Sep>> \o q \o <<NL>> :
            p \in BoundedSeq({"a", "A", "ss", "s", "S", " ", "-"}, 2),
            q \in {<<"a">>, <<" ", "A">>, <<"ss">>, <<"s", "ss">>}}

MCStreams == Short \cup Long \cup Texts \cup Pairs
=============================================================================
