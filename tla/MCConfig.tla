------------------------------ MODULE MCConfig ------------------------------
(* Config with the settings of psuservice.def, in its order. *)
EXTENDS Config

Set(section, key) == [section |-> section, key |-> key]

Table ==
  << <<"main", "version", "0.1.0.1">>, <<"log", "flag", "0x10">>,
     <<"log", "file", "/tmp/log/psuart.log">>, <<"log", "minLevel", "0">>,
     <<"log", "maxLevel", "10">>, <<"uart", "port", "/dev/ttyACM0,115200,N,1,8">>,
     <<"network", "ipaddr", "10.10.10.100:5000">>,
     <<"network", "udpport", "5000">>, <<"network", "timeout", "3">>,
     <<"network", "retries", "3">>, <<"network", "secret", "androidex">>,
     <<"network", "selectTimeout", "-1">>, <<"network", "type", "0x24">> >>

MCSettings == [i \in DOMAIN Table |-> Set(Table[i][1], Table[i][2])]
MCDefault ==
  [x \in Range(MCSettings) |->
     LET i == CHOOSE j \in DOMAIN Table : MCSettings[j] = x IN Table[i][3]]
MCNeeded == {Set("log", "file"), Set("network", "ipaddr")}

(* as README:8 has it, and a log file named beside the configured one       *)
MCArgv == <<"--config:/etc/psr/psrservice.conf", "-Log:/tmp/psr.log", "-d">>

MCTexts ==
  [x \in Range(MCSettings) |->
     CASE x = Set("log", "minLevel") -> {"018"}
       [] x = Set("log", "flag") -> {"021"}
       [] x = Set("uart", "port") -> {"/dev/ttyS0,9600,E"}
       [] x = Set("network", "ipaddr") -> {"*:80"}
       [] x = Set("network", "udpport") -> {"0"}
       [] x = Set("network", "selectTimeout") -> {"never"}
       [] OTHER -> {}]

Means(texts, field, value) ==
  [texts |-> texts, field |-> field, value |-> value]
Levels(min, max) ==
  (Set("log", "minLevel") :> min) @@ (Set("log", "maxLevel") :> max)
Flag(text) == Set("log", "flag") :> text
MCMeanings ==
  << Means(Levels("0", "10"), "levels", 0 .. 10),
     Means(Levels("018", "10"), "levels", 10 .. 16),   \* octal, 1 * 8 + 8
     Means(Flag("0x10") @@ Levels("0", "10"), "psus_log", {"console"}),
     Means(Flag("0x10") @@ Levels("018", "10"), "psus_log", {"console"}),
     Means(Flag("021") @@ Levels("018", "10"), "psus_log", {"console", "file"}),
     Means(<< >>, "psus_error", {"console", "file"}),
     Means(Set("network", "selectTimeout") :> "-1", "selectTimeout", -1),
     Means(Set("network", "selectTimeout") :> "never", "selectTimeout", 0),
     Means(Set("network", "udpport") :> "0", "udpport", 5000),
     Means(Set("network", "ipaddr") :> "10.10.10.100:5000", "net_addr",
           [addr |-> <<10, 10, 10, 100>>, port |-> 5000]),
     Means(Set("network", "ipaddr") :> "*:80", "net_addr",
           [addr |-> <<0, 0, 0, 0>>, port |-> 80]),
     Means(Set("uart", "port") :> "/dev/ttyS0,9600,E", "uart",
           [com |-> "/dev/ttyS0", speed |-> 9600, parity |-> "E",
            stopbits |-> 1, databits |-> 8, opens |-> TRUE]) >>

MCEditLines ==
  { Header("log"), Header("lo"), Header("alien"), Entry("file", "x"),
    Entry("f", "x"), Loose("file", "x"), Note, Blank,
    Indented(Entry("file", "x")), Indented(Header("log")),
    Indented(Text("more")) }

(* StrToInt undoes the usual ways to write a number in radix 10, 8 and 16,  *)
(* unless a hexadecimal digit is a capital: "0x1A" is 58.  Digits 8 and 9   *)
(* count in octal numbers too, and what is no number is 0;                  *)
(* and split_arguments the joining of fields that are not empty.            *)
Written10(n) ==
  IF n < 10 THEN Digits[n + 1]
  ELSE Digits[n \div 10 + 1] \o Digits[(n % 10) + 1]
Written8(n) == "0" \o Digits[n \div 8 + 1] \o Digits[(n % 8) + 1]
Written16(n) == "0x" \o Digits[n \div 16 + 1] \o Digits[(n % 16) + 1]
ASSUME NumbersReadBack ==
  /\ \A n \in 0 .. 99 : /\ StrToInt(Written10(n)) = n
                        /\ StrToInt("-" \o Written10(n)) = -n
                        /\ atoi(Written10(n) \o ".") = n
  /\ \A n \in 0 .. 63 : StrToInt(Written8(n)) = n
  /\ \A n \in 0 .. 255 : StrToInt(Written16(n)) = n
  /\ \A i \in 1 .. 6 : StrToInt("0x1" \o Capitals[i]) = 16 + 9 + i + 32
  /\ StrToInt("018") = 16 /\ StrToInt("09") = 9 /\ StrToInt("never") = 0

(* Values are found after a colon and, unless they start like a switch, in  *)
(* the next argument.  The line of psuservice.sh:42 gives absolute paths    *)
(* that way: both of its parameters are empty.                              *)
ASSUME ParametersFound ==
  /\ \A sw \in {"-log", "/LOG", "--Log"}, value \in {"a", "/a/b:c", "-"} :
       /\ GetCmdParamValue(<<"x", sw \o ":" \o value>>, "log") = value
       /\ GetCmdParamValue(<<"x", sw, value>>, "log") =
            IF value = "a" THEN value ELSE ""
  /\ ParamPlaces(<<"-logs", "login:a", "--d">>, "log") = {}
  /\ LET script == <<"--config", "/etc/psuconfig.conf",
                     "--log", "/tmp/psuconfig.log">>
     IN \A param \in {"config", "log"} :
          /\ ParamPlaces(script, param) # {}
          /\ GetCmdParamValue(script, param) = ""

ASSUME FieldsReadBack ==
  \A a, b, c \in {"x", "yy", "z9"} :
     /\ split_arguments(a \o "," \o b \o "," \o c, 5, ",") = <<a, b, c>>
     /\ split_arguments(a \o "," \o b \o "," \o c, 2, ",") = <<a, b>>
     /\ split_arguments("," \o a \o "," \o b \o ",", 5, ",") = <<a, b>>
=============================================================================
