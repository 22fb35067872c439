--------------------------- MODULE MCDirectMessages ---------------------------
(* DirectMessages with names of several words and one of the characters that  *)
(* are escaped, one of them by an escape that the decoder does not know; for   *)
(* each interface one setting the driver accepts and one it rejects, a         *)
(* password with a comma, which is refused, a name that is too long, a code    *)
(* that only the cut to 8 bits gives a handler, addresses and none.            *)
EXTENDS DirectMessages

MCNumeral ==
  [w \in {"0", "1", "2", "3", "5", "6", "192", "255", "257"} |->
     CASE w = "0" -> 0 [] w = "1" -> 1 [] w = "2" -> 2 [] w = "3" -> 3
       [] w = "5" -> 5 [] w = "6" -> 6 [] w = "192" -> 192 [] w = "255" -> 255
       [] w = "257" -> 257]

ap    == <<"Wetzel", " ", "Lighting", " ", "Control">>
apKey == <<"123456789">>
lamp  == <<"lamp", ":", " ", "@", "{", "x", "}">>
lampSent == <<"lamp", ":", " ", "%40", "{", "x", "}">>
short == <<"short">>
comma == <<"pass", ",", "word">>
long  == <<"a name of thirty-two characters.">>
sta   == <<"External", " ", "WiFi">>
key   == <<"dummy_password">>

MCSymbols ==
  DOMAIN MCNumeral \cup {",", ";", ".", "#", ":", " ", "{", "}"}
    \cup UNION {{text[i] : i \in DOMAIN text} :
                  text \in {ap, apKey, lamp, short, comma, long, sta, key}}

MCPercent == [c \in {"@"} |-> "%40"]
MCWidth == [c \in MCSymbols \cup {"%40", "+"} |-> Len(c)]

MCDefaultAp  == [ssid |-> ap, password |-> apKey]
MCDefaultSta == [ssid |-> sta, password |-> key]

\* A network may also be called by a name with "+" for each space: nothing that is
\* typed here asks for one.
Plus(c) == [c EXCEPT !.ssid = [i \in DOMAIN @ |-> IF @[i] = " " THEN "+" ELSE @[i]]]

MCApConfigs ==
  LET typed == {MCDefaultAp, [ssid |-> lampSent, password |-> short]}
  IN  typed \cup {Plus(c) : c \in typed}
MCStaConfigs ==
  LET typed == {MCDefaultSta, [ssid |-> lampSent, password |-> <<>>]}
  IN  typed \cup {Plus(c) : c \in typed}
MCAccepted   == {MCDefaultAp, MCDefaultSta}

\* A name that is too long leaves settings the driver rejects.
MCApOverruns  == {[ssid |-> lampSent, password |-> short]}
MCStaOverruns == {[ssid |-> lampSent, password |-> <<>>]}

MCAddresses ==
  {[ip |-> <<192, 1, 0, 2>>, mask |-> <<255, 255, 255, 0>>, gateway |-> <<192, 1, 0, 1>>]}

Ip   == <<"192", ".", "1", ".", "0", ".", "2">>
Mask == <<"255", ".", "255", ".", "255", ".", "0">>
Gate == <<"192", ".", "1", ".", "0", ".", "1">>

Cmd(code, typed) == [code |-> code, typed |-> typed]
StaCmd(ssid, password, ip, mask, gateway) ==
  Cmd("3", <<ssid, password, ip, mask, gateway, <<>>, <<>> >>)

MCCommands ==
  {Cmd("1", << <<"0">> >>), Cmd("257", << <<"1">> >>),
   Cmd("2", <<ap, apKey>>), Cmd("2", <<lamp, short>>), Cmd("2", <<ap, comma>>),
   StaCmd(sta, key, Ip, Mask, Gate), StaCmd(sta, key, <<>>, <<>>, <<>>),
   StaCmd(lamp, <<>>, Ip, Mask, Gate), StaCmd(lamp, <<>>, <<>>, <<>>, <<>>),
   StaCmd(sta, comma, Ip, Mask, Gate),
   Cmd("2", <<long, apKey>>), StaCmd(long, key, <<>>, <<>>, <<>>),
   Cmd("5", <<ap, apKey>>), Cmd("5", <<lamp, short>>), Cmd("5", <<ap, comma>>)}

===============================================================================
