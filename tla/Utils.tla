-------------------------------- MODULE Utils -------------------------------
(***************************************************************************)
(* The conversions of src/utils.c that turn the strings of the              *)
(* configuration into what the service works with.                          *)
(***************************************************************************)
EXTENDS Integers, SequencesExt

Chars(str) == [i \in 1 .. Len(str) |-> SubSeq(str, i, i)]

Digits == <<"0", "1", "2", "3", "4", "5", "6", "7", "8", "9",
            "a", "b", "c", "d", "e", "f">>
Capitals == <<"A", "B", "C", "D", "E", "F">>

(* A capital is made small by the | 0x20 and then compared with 'A', not    *)
(* with 'a': it counts 32 too many.                                         *)
DigitValue ==
  [c \in Range(Digits) \cup Range(Capitals) |->
     IF c \in Range(Digits) THEN CHOOSE n \in 0 .. 15 : Digits[n + 1] = c
     ELSE 32 + (CHOOSE n \in 10 .. 15 : Capitals[n - 9] = c)]
IsDigit(c) == c \in DOMAIN DigitValue /\ DigitValue[c] < 10

Horner(digits, radix) ==
  LET value[n \in 0 .. Len(digits)] ==
        IF n = 0 THEN 0 ELSE value[n - 1] * radix + DigitValue[digits[n]]
  IN value[Len(digits)]

(* "0x" makes it hexadecimal and "0" octal, also where a digit 8 or 9       *)
(* follows; what is no digit is passed over.  (No value overflows an int.)  *)
Radix(s) ==
  IF Len(s) >= 2 /\ s[1] = "0" /\ s[2] \in {"x", "X"} THEN 16
  ELSE IF s # << >> /\ s[1] = "0" THEN 8 ELSE 10
StrToInt(str) ==
  LET negative == str # "" /\ Chars(str)[1] = "-"
      s == IF negative THEN Tail(Chars(str)) ELSE Chars(str)
      radix == Radix(s)
      taken(c) == IF radix = 16 THEN c \in DOMAIN DigitValue ELSE IsDigit(c)
      digits == SelectSeq(IF radix = 16 THEN SubSeq(s, 3, Len(s)) ELSE s, taken)
  IN IF negative THEN -Horner(digits, radix) ELSE Horner(digits, radix)

(* the C library's, for strings without sign and leading white space *)
atoi(str) ==
  LET s == Chars(str)
      n == Max({k \in 0 .. Len(s) : \A i \in 1 .. k : IsDigit(s[i])})
  IN Horner(SubSeq(s, 1, n), 10)

(* the first c of a string, or the place after its end                      *)
Position(str, c) ==
  Min({i \in 1 .. Len(str) : Chars(str)[i] = c} \cup {Len(str) + 1})

(* A separator at the start of a field is passed over: one empty field      *)
(* disappears and those after it move up; an empty last one is no field.    *)
FieldStart(s, i, spliter) ==
  IF i <= Len(s) /\ s[i] = spliter THEN i + 1 ELSE i
split_arguments(arginfo, maxsize, spliter) ==
  LET s == Chars(arginfo)
      from[i \in 1 .. Len(s) + 1] ==
        LET ps == FieldStart(s, i, spliter)
            ends == {k \in ps .. Len(s) : s[k] = spliter}
        IN IF ends # {}
             THEN <<SubSeq(arginfo, ps, Min(ends) - 1)>> \o from[Min(ends) + 1]
           ELSE IF ps <= Len(s) THEN <<SubSeq(arginfo, ps, Len(s))>>
           ELSE << >>
      fields == from[1]
  IN SubSeq(fields, 1, IF Len(fields) < maxsize THEN Len(fields) ELSE maxsize)

(* the bytes of the address, 0 for those not given, all 0 for "*"           *)
get_ip_addr(ipaddr) ==
  LET arg == split_arguments(ipaddr, 4, ".")
  IN [i \in 1 .. 4 |-> IF ipaddr = "*" \/ i > Len(arg) THEN 0
                       ELSE atoi(arg[i]) % 256]

ParseIPAddr(cAddr) ==
  LET colon == Position(cAddr, ":")
  IN [addr |-> get_ip_addr(SubSeq(cAddr, 1, colon - 1)),
      port |-> StrToInt(SubSeq(cAddr, colon + 1, Len(cAddr))) % 65536]

-----------------------------------------------------------------------------
(* The command line, without the program's name                             *)

Small == Chars("abcdefghijklmnopqrstuvwxyz")
Great == Chars("ABCDEFGHIJKLMNOPQRSTUVWXYZ")
tolower(c) ==
  IF c \in Range(Great) THEN Small[CHOOSE i \in 1 .. 26 : Great[i] = c] ELSE c

(* utils_strincmp(s1,s2,0) == 0                                             *)
SameWord(s1, s2) ==
  /\ Len(s1) = Len(s2)
  /\ \A i \in 1 .. Len(s1) : tolower(Chars(s1)[i]) = tolower(Chars(s2)[i])

(* an argument without what may lead it                                     *)
Bare(arg) ==
  LET s == Chars(arg)
      first == Min({i \in DOMAIN s : s[i] \notin {" ", "/", "-", "\\"}}
                     \cup {Len(s) + 1})
  IN SubSeq(arg, first, Len(s))

CheckCmdLine(argv, sw) == \E i \in DOMAIN argv : SameWord(Bare(argv[i]), sw)

(* "-param:value", or "-param value" unless the value starts like a switch: *)
(* an absolute path does, and then the parameter is given and empty.        *)
ParamPlaces(argv, param) ==
  {i \in DOMAIN argv :
     LET str == Bare(argv[i])
     IN SameWord(SubSeq(str, 1, Position(str, ":") - 1), param)}
GetCmdParamValue(argv, param) ==
  LET i == Min(ParamPlaces(argv, param))
      str == Bare(argv[i])
      colon == Position(str, ":")
  IN IF colon <= Len(str) THEN SubSeq(str, colon + 1, Len(str))
     ELSE IF /\ i < Len(argv)
             /\ Position(argv[i + 1], "/") > 1 /\ Position(argv[i + 1], "-") > 1
       THEN argv[i + 1]
     ELSE ""

-----------------------------------------------------------------------------
(* com_open: device, speed, parity, stop bits, data bits                    *)

(* a speed it does not know leaves the port's as it was (0) *)
com_set_speed(speed) ==
  IF speed \in {115200, 38400, 19200, 9600, 4800, 2400, 1200, 300}
    THEN speed ELSE 0

(* whether it can be set so; of the parities it knows only these *)
com_set_parity(databits, stopbits, parity) ==
  databits \in {7, 8} /\ stopbits \in {1, 2} /\ parity \in {"n", "N", "E"}

(* How a device that can be opened is set; what com_set_parity refuses      *)
(* makes com_open close it again and return 0.                              *)
ComDefaults == <<"/dev/ttyACM0", "115200", "N", "1", "8">>
com_open(dev) ==
  LET arg == split_arguments(dev, 5, ",")
      a == [i \in 1 .. 5 |-> IF i <= Len(arg) THEN arg[i] ELSE ComDefaults[i]]
      parity == IF a[3] = "" THEN "" ELSE Chars(a[3])[1]
  IN [com |-> a[1], speed |-> com_set_speed(atoi(a[2])), parity |-> parity,
      stopbits |-> atoi(a[4]), databits |-> atoi(a[5]),
      opens |-> com_set_parity(atoi(a[5]), atoi(a[4]), parity)]
=============================================================================
