--------------------------- MODULE DirectMessages ---------------------------
(***************************************************************************)
(* The direct messages of the app in front of WifiManager: from what its   *)
(* user has typed, over the text of the URL, to the settings in flash, and *)
(* back to what the app is told of them.                                   *)
(*   server_html_utils.cpp          the decoding of the URL                *)
(*   async_server.cpp               the choice of the handler              *)
(*   wifi_direct_msg_handlers.cpp   the fields of a message                *)
(*   wifi_wetzel_utils.cpp          addresses as text and as octets        *)
(*                                                                         *)
(* A text is a sequence of symbols: a word that nothing looks into, a      *)
(* character that something does, or an escape such as "%2C".  The messages*)
(* that are followed here are those the app writes: every field is there,  *)
(* and "," and ";" end them; of any other only the crash is (MessageCrash).*)
(***************************************************************************)
EXTENDS WifiManager, FiniteSets

CONSTANTS
  Symbols,   \* what texts are made of: words and characters
  Numeral,   \* the words that begin with a digit, as a function to the numbers
             \* that atoi and strtol make of them
  Percent,   \* the characters that a form escapes and the decoder does not
             \* know, as a function to their escapes: "@" and "%40"
  Width,     \* the characters of a symbol
  Commands,  \* what the app asks for: a code and what was typed in each field
  ApOverruns, StaOverruns  \* settings that a text too long for its field leaves

-----------------------------------------------------------------------------
(* The app: external *)

\* What a form makes of a text before the decoder is to read it.
WrittenText(text) ==
  [i \in DOMAIN text |-> IF text[i] \in DOMAIN Percent THEN Percent[text[i]]
                         ELSE text[i]]

Written(cmd) == [i \in DOMAIN cmd.typed |-> WrittenText(cmd.typed[i])]

\* What a URL, and so a name or a password, may be made of.
Letters == Symbols \cup {Percent[c] : c \in DOMAIN Percent}

\* An empty field is written "#".
Field(text) == IF text = <<>> THEN <<"#">> ELSE text

\* The escapes that the decoder knows.
Escape(c) ==
  CASE c = "," -> "%2C" [] c = ";" -> "%3B" [] c = ":" -> "%3A"
    [] c = "{" -> "%7B" [] c = "}" -> "%7D" [] c = " " -> "+" [] OTHER -> c

Url(cmd) ==
  LET texts == Written(cmd)
      fields[n \in 0..Len(texts)] ==
        IF n = 0 THEN <<cmd.code>> \o <<",">>
        ELSE fields[n - 1] \o Field(texts[n]) \o <<",">>
      text == fields[Len(texts)] \o <<";">>
  IN  [i \in DOMAIN text |-> Escape(text[i])]

-----------------------------------------------------------------------------
(* Texts *)

\* Mutant: the space of a form stays a "+".
AsciiKeepsPlus(c) ==
  CASE c = "%2C" -> "," [] c = "%3B" -> ";" [] c = "%3A" -> ":"
    [] c = "%7B" -> "{" [] c = "%7D" -> "}" [] OTHER -> c

\* What convert_html_symbol and convert_html_spaces make of one symbol.  The
\* other way to write a space, "%20", becomes a ";".
Ascii(c) ==
  CASE c = "%2C" -> "," [] c \in {"%3B", "%20"} -> ";" [] c = "%3A" -> ":"
    [] c = "%7B" -> "{" [] c = "%7D" -> "}" [] c = "%22" -> "\""
    [] c = "+" -> " " [] OTHER -> c

\* No replacement makes a text out of which another one would take something:
\* so the eight of them, one after the other, are one.
convert_html_text_to_ascii(text) == [i \in DOMAIN text |-> Ascii(text[i])]

\* Where the pieces begin that strtok_r finds in a text: none of them is empty.
Begins(text, sep) ==
  {p \in DOMAIN text : text[p] # sep /\ (p > 1 => text[p - 1] = sep)}

\* Up to the next separator, or to the end.
PieceAt(text, sep, p) ==
  LET end == CHOOSE q \in p..Len(text) :
               /\ \A i \in p..q : text[i] # sep
               /\ q < Len(text) => text[q + 1] = sep
  IN  SubSeq(text, p, end)

\* The element of S with i - 1 smaller ones.
Nth(S, i) == CHOOSE p \in S : Cardinality({q \in S : q < p}) = i - 1

Tokens(text, sep) ==
  LET begins == Begins(text, sep)
  IN  [i \in 1..Cardinality(begins) |-> PieceAt(text, sep, Nth(begins, i))]

atoi(token) == IF token[1] \in DOMAIN Numeral THEN Numeral[token[1]] ELSE 0

Byte(n) == n % 256

\* Four octets, each cut to 8 bits, or none for fewer numbers than four.
ipv4_str_to_uint8_array(str) ==
  LET parts == Tokens(str, ".")
  IN  IF Len(parts) < 4 THEN <<>> ELSE [i \in 1..4 |-> Byte(atoi(parts[i]))]

Word(n) == CHOOSE w \in DOMAIN Numeral : Numeral[w] = n

ipv4_uint8_array_to_str(octets) ==
  <<Word(octets[1]), ".", Word(octets[2]), ".", Word(octets[3]), ".",
    Word(octets[4])>>

-----------------------------------------------------------------------------
(* From the URL to the fields *)

\* direct_msg_handler: the code is cut to 8 bits, and msg_content begins after
\* the comma behind it.
Parsed(url) ==
  LET tokens == Tokens(convert_html_text_to_ascii(url), ",")
  IN  [code |-> Byte(atoi(tokens[1])), args |-> Tail(tokens)]

Received == [cmd \in Commands |-> Parsed(Url(cmd))]

\* The message ends after n fields.
Ends(args, n) == args[n + 1][1] = ";"

\* A field of the station's settings that begins with "#" is empty.
StaField(args, i) == IF i > 1 /\ args[i][1] = "#" THEN <<>> ELSE args[i]

ApOf(args)  == [ssid |-> args[1], password |-> args[2]]
StaOf(args) == [ssid |-> args[1], password |-> StaField(args, 2)]

Chars(text) ==
  LET upTo[n \in 0..Len(text)] ==
        IF n = 0 THEN 0 ELSE upTo[n - 1] + Width[text[n]]
  IN  upTo[Len(text)]

\* strcpy finds room in ssid[32] and password[64], for the NUL too.
Fits(c) == Chars(c.ssid) < 32 /\ Chars(c.password) < 64

\* sta_ip_configuration: three addresses that parse, or none.
AddressesOf(args) ==
  LET octets == [i \in 1..3 |-> ipv4_str_to_uint8_array(StaField(args, i + 2))]
  IN  IF \E i \in 1..3 : octets[i] = <<>> THEN NoIp
      ELSE [ip |-> octets[1], mask |-> octets[2], gateway |-> octets[3]]

\* The fields of the station's message up to the seventh.
StaComplete(args) == Ends(args, 7) /\ \A i \in 2..7 : args[i][1] # ";"

CodeOf(name) ==
  CASE name = "mode" -> 1 [] name = "ap" -> 2 [] name = "sta" -> 3
    [] name = "validate" -> 5

Asked(cmd, name) == Received[cmd].code = CodeOf(name)

ASSUME DirectAssumption ==
  \A cmd \in Commands :
    LET args == Received[cmd].args
    IN  /\ Asked(cmd, "ap") /\ Ends(args, 2) /\ Fits(ApOf(args)) =>
             ApOf(args) \in ApConfigs
        /\ Asked(cmd, "sta") /\ StaComplete(args) =>
             /\ Fits(StaOf(args)) => StaOf(args) \in StaConfigs
             /\ AddressesOf(args) \in Ips

ASSUME OverrunAssumption ==
  ApOverruns \subseteq ApConfigs /\ StaOverruns \subseteq StaConfigs

-----------------------------------------------------------------------------
(* What may be typed *)

\* What the decoder takes for itself.
Encoded == {"%2C", "%3B", "%20", "%3A", "%7B", "%7D", "%22", "+"}

\* Commas stand between other characters, and no ";" begins what a comma ends.
Typeable(text) ==
  LET pieces == Tokens(text, ",")
  IN  /\ text \in Seq(Letters)
      /\ text # <<>> => pieces = <<text>> \/ Len(pieces) > 1
      /\ \A i \in DOMAIN pieces : pieces[i][1] # ";"

\* Numbers are written as the gateway writes them.
IsAddress(text) ==
  /\ Len(text) = 7
  /\ \A i \in {2, 4, 6} : text[i] = "."
  /\ \A i \in {1, 3, 5, 7} :
       /\ text[i] \in DOMAIN Numeral
       /\ Numeral[text[i]] \in 0..255 /\ Word(Numeral[text[i]]) = text[i]

Octets == [1..4 -> 0..255]

\* The app asks for names and passwords that are not empty (a station may do
\* without a password), and for three addresses or none.
FieldsTyped(cmd) ==
  LET typed == Written(cmd)
  IN  /\ Asked(cmd, "ap") \/ Asked(cmd, "validate") =>
           Len(typed) = 2 /\ typed[1] # <<>> /\ typed[2] # <<>>
      /\ Asked(cmd, "sta") =>
           /\ Len(typed) = 7 /\ typed[1] # <<>>
           /\ typed[2] # <<>> => typed[2][1] # "#"
           /\ \/ \A i \in 3..5 : typed[i] = <<>>
              \/ \A i \in 3..5 : IsAddress(typed[i])
           /\ <<typed[3], typed[4], typed[5]>> # NoIp

ASSUME AppAssumption ==
  /\ \A cmd \in Commands :
       /\ cmd.code \in Symbols /\ cmd.code # ","
       /\ Written(cmd) \in Seq(Seq(Letters))
       /\ \A i \in DOMAIN Written(cmd) : Typeable(Written(cmd)[i])
       /\ FieldsTyped(cmd)
  /\ \A c \in ApConfigs :
       \A text \in {c.ssid, c.password} : \A i \in DOMAIN text : text[i] # ","

ASSUME SymbolAssumption ==
  /\ {",", ";", ".", "#"} \subseteq Symbols /\ Letters \cap Encoded = {}
  /\ DOMAIN Percent \cap {",", ";", ".", "#"} = {}
  /\ DOMAIN Numeral \cap {".", "#"} = {}
  /\ NoIp \notin [ip : Octets, mask : Octets, gateway : Octets]

-----------------------------------------------------------------------------
VARIABLES
  sent,  \* history: what was sent in the last messages that were not refused;
         \* newIp while sta_ip_configuration is still to take the addresses
  kept   \* history: the same of those that are in flash

directVars == <<vars, sent, kept>>

\* The defaults are as if they had been sent.
DirectInit ==
  /\ Init
  /\ sent = [ap |-> DefaultAp, sta |-> DefaultSta, ip |-> NoIp, newIp |-> NoIp]
  /\ kept = [ap |-> DefaultAp, sta |-> DefaultSta, ip |-> NoIp]

\* The first character says the mode.
ModeMessage(cmd) ==
  LET args == Received[cmd].args
  IN  /\ Asked(cmd, "mode") /\ Ends(args, 1)
      /\ \/ args[1][1] = "0" /\ AskMode("httpd", "AP")
         \/ args[1][1] = "1" /\ AskMode("httpd", "APSTA")
      /\ UNCHANGED <<sent, kept>>

ApMessage(cmd) ==
  LET args == Received[cmd].args
  IN  /\ Asked(cmd, "ap") /\ Ends(args, 2)
      /\ Fits(ApOf(args))
      /\ ApChange(ApOf(args))
      /\ sent' = [sent EXCEPT !.ap = [ssid |-> Written(cmd)[1],
                                      password |-> Written(cmd)[2]]]
      /\ UNCHANGED kept

\* strcpy writes over what comes after the field.
ApOverrun(cmd) ==
  LET args == Received[cmd].args
  IN  /\ Asked(cmd, "ap") /\ Ends(args, 2)
      /\ ~Fits(ApOf(args))
      /\ \E c \in ApOverruns : ApChange(c) /\ sent' = [sent EXCEPT !.ap = c]
      /\ UNCHANGED kept

\* The three addresses, or none.
AddressesSent(cmd) ==
  LET texts == Written(cmd)
  IN  IF texts[3] = <<>> THEN NoIp ELSE <<texts[3], texts[4], texts[5]>>

StaMessage(cmd) ==
  LET args == Received[cmd].args
  IN  /\ Asked(cmd, "sta") /\ StaComplete(args)
      /\ Fits(StaOf(args))
      /\ StaChange(StaOf(args), AddressesOf(args))
      /\ sent' = [sent EXCEPT !.sta = [ssid |-> Written(cmd)[1],
                                       password |-> Written(cmd)[2]],
                              !.newIp = AddressesSent(cmd)]
      /\ UNCHANGED kept

StaOverrun(cmd) ==
  LET args == Received[cmd].args
  IN  /\ Asked(cmd, "sta") /\ StaComplete(args)
      /\ ~Fits(StaOf(args))
      /\ \E c \in StaOverruns :
           /\ StaChange(c, AddressesOf(args))
           /\ sent' = [sent EXCEPT !.sta = c, !.newIp = AddressesSent(cmd)]
      /\ UNCHANGED kept

DirectSaves ==
  \/ SaveAp /\ kept' = [kept EXCEPT !.ap = sent.ap] /\ UNCHANGED sent
  \/ SaveSta /\ kept' = [kept EXCEPT !.sta = sent.sta] /\ UNCHANGED sent
  \/ /\ SaveIp
     /\ sent' = [sent EXCEPT !.ip = IpGiven(@, sent.newIp), !.newIp = NoIp]
     /\ kept' = [kept EXCEPT !.ip = IpGiven(@, sent.newIp)]

\* What is not in flash is as if it had not been sent.
DirectPowerCycle ==
  /\ PowerCycle
  /\ sent' = [ap |-> kept.ap, sta |-> kept.sta, ip |-> kept.ip, newIp |-> NoIp]
  /\ UNCHANGED kept

\* What neither changes settings nor takes them back.
OtherNext ==
  \/ Boot \/ BootRejected \/ MessageCrash
  \/ AskMode("mesh", "AP")
  \/ \E p \in Restarters : Restarts(p)
  \/ EventNext \/ DaemonNext \/ DriverNext

DirectNext ==
  \/ \E cmd \in Commands :
       \/ ModeMessage(cmd)
       \/ ApMessage(cmd) \/ ApOverrun(cmd)
       \/ StaMessage(cmd) \/ StaOverrun(cmd)
  \/ DirectSaves \/ DirectPowerCycle
  \/ OtherNext /\ UNCHANGED <<sent, kept>>

DirectSpec == DirectInit /\ [][DirectNext]_directVars
DirectFairSpec == DirectSpec /\ Fairness

-----------------------------------------------------------------------------
(* The messages that only read *)

\* msg_handler_validate_ap_credentials
CredentialsOk(args) ==
  Ends(args, 2) /\ args[1] = conf.ap.ssid /\ args[2] = conf.ap.password

Shown(a) == <<ipv4_uint8_array_to_str(a.ip), ipv4_uint8_array_to_str(a.mask),
              ipv4_uint8_array_to_str(a.gateway)>>

\* msg_handler_interface_info_requested, without the DNS servers, which are
\* always 0.0.0.0.
Info ==
  LET zeros == <<0, 0, 0, 0>>
      none  == [ip |-> zeros, mask |-> zeros, gateway |-> zeros]
  IN  [mode |-> conf.mode, ap |-> conf.ap.ssid, sta |-> conf.sta.ssid,
       ip |-> Shown(IF conf.ip = NoIp THEN none ELSE conf.ip)]

\* The settings are what was sent in the last messages that were not refused,
\* whatever came between: a name of several words, an empty field, a restart, a
\* message that was refused for a comma in its password, a power cycle; and once
\* their handler goes on to the restart, a power cycle does not take them back.
\* The app is told so: the credentials it may ask about are right exactly when
\* they are those, and the names and addresses it is shown are those.  (What was
\* sent is what was typed but for the escapes the decoder does not know.  Of a
\* text that is too long for its field nothing is promised.)
StoredAsSent ==
  /\ conf.ap = sent.ap /\ conf.sta = sent.sta
  /\ pc["httpd"] # "saveAp" => kept.ap = sent.ap
  /\ pc["httpd"] # "saveSta" => kept.sta = sent.sta
  /\ kept.ip = sent.ip /\ (pc["httpd"] \notin {"saveSta", "saveIp"} => sent.newIp = NoIp)
  /\ \A cmd \in Commands :
       Asked(cmd, "validate") =>
         (CredentialsOk(Received[cmd].args)
            <=> <<sent.ap.ssid, sent.ap.password>> = Written(cmd))
  /\ Info.ap = sent.ap.ssid /\ Info.sta = sent.sta.ssid
  /\ (sent.ip = NoIp) = (conf.ip = NoIp)
  /\ sent.ip # NoIp => Info.ip = sent.ip

=============================================================================
