------------------------------ MODULE PinCheck ------------------------------
(***************************************************************************)
(* The personal number on a guest's form: EGN (Bulgarians; it encodes the  *)
(* birth date and the gender) or LNCh (foreigners; it encodes nothing).    *)
(* Somebody fills in the form from a document, perhaps with one digit of    *)
(* the number mistyped, and GuestIdentityCreate decides.                   *)
(***************************************************************************)
EXTENDS Integers, Sequences

CONSTANTS
  Dates,    \* birth dates: [year, month, day]
  Serials,  \* the three digits that tell apart those born on one day
  OtherDob  \* the birth date of a foreigner

Digits == 0..9

IsLeap(y) == y % 4 = 0 /\ (y % 100 # 0 \/ y % 400 = 0)

IsDate(d) ==
  /\ d.month \in 1..12
  /\ d.day \in 1..(CASE d.month \in {4, 6, 9, 11} -> 30
                     [] d.month = 2 -> IF IsLeap(d.year) THEN 29 ELSE 28
                     [] OTHER -> 31)

(* Births the registries number: those of three centuries.                  *)
Births == { d \in [year : 1800..2099, month : 1..12, day : 1..31] : IsDate(d) }

ASSUME PinDates   == Dates \subseteq Births /\ OtherDob \in Births
ASSUME PinSerials == Serials \subseteq Digits \X Digits \X Digits

VARIABLES
  person,  \* what the document says
  form,    \* what is submitted
  slip,    \* the place of the mistyped digit, 0 for none
  verdict

pinVars == <<person, form, slip, verdict>>

-----------------------------------------------------------------------------
(* egn.py                                                                   *)

EgnWeights  == <<2, 4, 8, 5, 10, 9, 7, 3, 6>>
LnchWeights == <<21, 19, 17, 13, 11, 9, 7, 3, 1>>

Weighted(pin, w) ==
  pin[1]*w[1] + pin[2]*w[2] + pin[3]*w[3] + pin[4]*w[4] + pin[5]*w[5]
    + pin[6]*w[6] + pin[7]*w[7] + pin[8]*w[8] + pin[9]*w[9]

EgnRemainder(pin) == Weighted(pin, EgnWeights) % 11

(* Slips: ten is compared as it is; the weights of the other number.        *)
EgnCheckOfTen(pin) == EgnRemainder(pin)

EgnCheck(pin) == IF EgnRemainder(pin) = 10 THEN 0 ELSE EgnRemainder(pin)

IsEgn(pin) == EgnCheck(pin) = pin[10]

LnchCheckEgnWeights(pin) == Weighted(pin, EgnWeights) % 10

LnchCheck(pin) == Weighted(pin, LnchWeights) % 10

IsLnch(pin) == LnchCheck(pin) = pin[10]

TwoDigits(pin, i) == 10 * pin[i] + pin[i + 1]

(* The century is in the month.                                             *)
Centuries == { [base |-> 1900, offset |-> 0], [base |-> 1800, offset |-> 20], [base |-> 2000, offset |-> 40] }

(* The birth date a number encodes, if it encodes one.                      *)
EncodedDobs(pin) ==
  { d \in { [year |-> c.base + TwoDigits(pin, 1), month |-> TwoDigits(pin, 3) - c.offset,
             day |-> TwoDigits(pin, 5)] : c \in Centuries } : IsDate(d) }

EncodedGender(pin) == IF pin[9] % 2 = 0 THEN "male" ELSE "female"

ReadsAsEgn(pin) == IsEgn(pin) /\ EncodedDobs(pin) # {}

-----------------------------------------------------------------------------
(* validate_bg_requirements_and_egn                                         *)

NoPin == <<>>

Complete(f) ==
  /\ f.citizenship = "BG" => f.middle_name
  /\ f.document_issuing_country = "BG" => f.pin_egn # NoPin

PinAgrees(f) ==
  f.pin_egn # NoPin =>
    IF ReadsAsEgn(f.pin_egn)
    THEN f.date_of_birth \in EncodedDobs(f.pin_egn) /\ f.gender = EncodedGender(f.pin_egn)
    ELSE IsLnch(f.pin_egn)

Accepts(f) == Complete(f) /\ PinAgrees(f)

-----------------------------------------------------------------------------
(* The registries: how the numbers are issued.                              *)

Century(d) == CHOOSE c \in Centuries : d.year \in c.base..(c.base + 99)

NineDigits(d, serial) ==
  LET yy == d.year % 100
      mm == d.month + Century(d).offset
  IN  <<yy \div 10, yy % 10, mm \div 10, mm % 10, d.day \div 10, d.day % 10,
        serial[1], serial[2], serial[3]>>

Issued(nine, weights, modulus) ==
  LET sum == nine[1]*weights[1] + nine[2]*weights[2] + nine[3]*weights[3]
               + nine[4]*weights[4] + nine[5]*weights[5] + nine[6]*weights[6]
               + nine[7]*weights[7] + nine[8]*weights[8] + nine[9]*weights[9]
  IN  Append(nine, (sum % modulus) % 10)

Citizen(d, serial) ==
  LET pin == Issued(NineDigits(d, serial), <<2, 4, 8, 5, 10, 9, 7, 3, 6>>, 11)
  IN  [registry |-> "egn", pin |-> pin, dob |-> d,
       gender |-> IF serial[3] \in {0, 2, 4, 6, 8} THEN "male" ELSE "female"]

(* A foreigner's number may be made of any digits.                          *)
Foreigner(d, serial, gender) ==
  [registry |-> "lnch", gender |-> gender, dob |-> OtherDob,
   pin |-> Issued(NineDigits(d, serial), <<21, 19, 17, 13, 11, 9, 7, 3, 1>>, 10)]

PinInit ==
  /\ \E d \in Dates, serial \in Serials, gender \in {"male", "female"} :
       person \in {Citizen(d, serial), Foreigner(d, serial, gender)}
  /\ \E citizenship \in {"BG", "other"}, country \in {"BG", "other"}, middle \in BOOLEAN,
        pin \in {NoPin, person.pin} :
       form = [citizenship |-> citizenship, document_issuing_country |-> country,
               middle_name |-> middle, pin_egn |-> pin,
               date_of_birth |-> person.dob, gender |-> person.gender]
  /\ slip = 0
  /\ verdict = "open"

Mistype ==
  /\ verdict = "open" /\ slip = 0
  /\ form.pin_egn # NoPin
  /\ \E i \in 1..10, digit \in Digits :
       /\ digit # form.pin_egn[i]
       /\ form' = [form EXCEPT !.pin_egn[i] = digit]
       /\ slip' = i
  /\ UNCHANGED <<person, verdict>>

Submit ==
  /\ verdict = "open"
  /\ verdict' = IF Accepts(form) THEN "accepted" ELSE "refused"
  /\ UNCHANGED <<person, form, slip>>

PinNext == Mistype \/ Submit

PinSpec == PinInit /\ [][PinNext]_pinVars

-----------------------------------------------------------------------------
(* Properties.                                                              *)

(* Who fills in a complete form from the document is admitted, but for the  *)
(* foreigner whose number happens to read as the EGN of somebody else.      *)
OwnNumberAccepted ==
  verdict = "refused" /\ slip = 0 /\ Complete(form) =>
    /\ person.registry = "lnch"
    /\ ReadsAsEgn(form.pin_egn)
    /\ \/ person.dob \notin EncodedDobs(form.pin_egn)
       \/ person.gender # EncodedGender(form.pin_egn)

(* One mistyped digit is caught.  In a citizen's number it passes only when *)
(* the whole reads as an LNCh instead, or among the digits that encode no    *)
(* date, when the remainders were 0 and 10, which share a check digit; in a  *)
(* foreigner's only when it reads as an EGN of the same person.              *)
SlipsCaught ==
  verdict = "accepted" /\ slip # 0 =>
    LET pin == form.pin_egn
        onlyLnch == IsLnch(pin) /\ ~ReadsAsEgn(pin)
    IN  IF person.registry = "egn"
        THEN \/ onlyLnch
             \/ slip \in 7..9 /\ {EgnRemainder(pin), EgnRemainder(person.pin)} = {0, 10}
        ELSE ReadsAsEgn(pin) /\ person.dob \in EncodedDobs(pin)
=============================================================================
