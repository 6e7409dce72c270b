----------------------------- MODULE MCHttpParser -----------------------------
(* Streams of three requests for model checking HttpParser.                *)
EXTENDS HttpParser

Plain == <<"GET", "cr", "lf", "cr", "lf">>
Keep == <<"GET", "cr", "lf", "KEEP", "cr", "lf", "cr", "lf">>
Post == <<"POST", "cr", "lf", "KEEP", "cr", "lf", "cr", "lf">>
KeepThenOther == <<"GET", "cr", "lf", "KEEP", "cr", "lf", "OTHER", "cr", "lf", "cr", "lf">>
Body == <<"GET", "cr", "lf", "KEEP", "cr", "lf", "LEN2", "cr", "lf", "cr", "lf", "b", "b">>
ShortBody == <<"GET", "cr", "lf", "LEN7", "cr", "lf", "KEEP", "cr", "lf", "cr", "lf", "b">>
Refused == <<"GET", "cr", "lf", "KEEP", "cr", "lf", "LENBAD", "cr", "lf", "cr", "lf">>
Closing == <<"GET", "cr", "lf", "CLOSE", "cr", "lf", "cr", "lf">>

File == <<"f1", "f2", "f3", "f4", "f5", "f6">>
Refusal == <<"r1", "r2", "r3">>

MCStreams ==
    {a \o b \o Post : a \in {Keep, KeepThenOther, Body, Refused}, b \in {Keep, KeepThenOther, ShortBody}}
    \cup {a \o Keep \o c : a \in {Keep, KeepThenOther}, c \in {Plain, Closing}}
MCResponses == {File, Refusal}
MCRefusals == {Refusal}
==============================================================================
