----------------------------- MODULE MCConfFile -----------------------------
(* Two countries, and the files an operator may have prepared for them.    *)
EXTENDS ConfFile

Countries == {"RU", "UZ"}
V4V6 == <<"v4", "v6">>
BeginOf == [c \in Countries |-> [f \in {"v4", "v6"} |-> "BEGIN-" \o c \o f]]
EndOf == [c \in Countries |-> [f \in {"v4", "v6"} |-> "END-" \o c \o f]]
Newline == "\n"
NetA == "network a"
NetB == "network b"
Family4 == "address-family ipv4 unicast"
Family6 == "address-family ipv6 unicast"
Remark == " managed by georoute"
SomeText == {Family4, Family6, Remark}
SomeNetworks == {NetA, NetB}

Line(token) == <<token, Newline>>
Block(c, f) == Line(BeginOf[c][f]) \o Line(EndOf[c][f])
Filled(c, f) == Line(BeginOf[c][f]) \o Line(NetB) \o Line(EndOf[c][f])

WantedTexts == {[v4 |-> <<NetA, Newline, NetB>>, v6 |-> <<>>],
                [v4 |-> <<>>, v6 |-> <<NetA>>]}

Prepared ==
  { \* The families the other way round, and a block that is there twice.
    Line(Family6) \o Block("UZ", "v6") \o Block("RU", "v6")
      \o Line(Family4) \o Filled("UZ", "v4") \o Block("RU", "v4") \o Filled("RU", "v4"),
    \* One country has no v6 block.
    Line(Family4) \o Block("RU", "v4") \o Block("UZ", "v4") \o Line(Family6) \o Block("RU", "v6"),
    \* The markers of one block are swapped.
    Line(Family4) \o Line(EndOf["RU"]["v4"]) \o Line(NetB) \o Line(BeginOf["RU"]["v4"])
      \o Filled("UZ", "v4") \o Line(Family6) \o Block("RU", "v6") \o Block("UZ", "v6") }

\* What the theorems ask of the files holds of these.
ASSUME PreparedAssumption == \A cfg \in Prepared : BlocksApart(cfg) /\ BeginEndsLine(cfg)

\* The blocks of the two countries overlap.
Crossed ==
  { Line(BeginOf["RU"]["v4"]) \o Line(BeginOf["UZ"]["v4"])
      \o Line(EndOf["RU"]["v4"]) \o Line(EndOf["UZ"]["v4"])
      \o Block("RU", "v6") \o Block("UZ", "v6") }

\* A remark follows a marker on its line.
Remarked ==
  { <<BeginOf["RU"]["v4"], Remark, Newline>> \o Line(EndOf["RU"]["v4"]) \o Block("RU", "v6")
      \o Block("UZ", "v4") \o Block("UZ", "v6") }
=============================================================================
