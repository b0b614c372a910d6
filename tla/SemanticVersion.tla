--------------------------- MODULE SemanticVersion ---------------------------
(***************************************************************************)
(* SemanticVersion: what it accepts and how it orders versions.  A text is *)
(* a sequence of characters, and a character its place in the order of     *)
(* code points: '-' below the digits, the digits by their value, letters   *)
(* above them.  A tag is a text already cut at '+', the first '-' and the  *)
(* dots; comparisons give -1, 0 or 1.                                      *)
(***************************************************************************)
EXTENDS Integers, Sequences

Digits == 0 .. 9
Hyphen == -1
Letters == 10 .. 61  \* 'A' to 'Z', then 'a' to 'z'
Texts == Seq({Hyphen} \cup Digits \cup Letters)

\* A version as parse() stores it; build metadata takes no part in precedence.
SemVer == [core : [1 .. 3 -> Texts], prerelease : Seq(Texts)]
NoVersion == [core |-> <<>>, prerelease |-> <<>>]

isNumeric(text) == text # <<>> /\ \A i \in DOMAIN text : text[i] \in Digits

isValidNumericIdentifier(text) == isNumeric(text) /\ (Len(text) = 1 \/ text[1] # 0)

isValidIdentifier(text) ==
  /\ text # <<>>
  /\ \A i \in DOMAIN text : text[i] \in {Hyphen} \cup Digits \cup Letters

\* Numeric pre-release identifiers have no leading zeros; those of the build
\* metadata may.
parseIdentifiers(identifiers, rejectLeadingZero) ==
  /\ identifiers # <<>>
  /\ \A i \in DOMAIN identifiers :
       /\ isValidIdentifier(identifiers[i])
       /\ rejectLeadingZero /\ isNumeric(identifiers[i])
            => isValidNumericIdentifier(identifiers[i])

\* tag.parts says which separators the text has.
parse(tag) ==
  IF /\ Len(tag.core) = 3
     /\ \A i \in 1 .. 3 : isValidNumericIdentifier(tag.core[i])
     /\ "-" \in tag.parts => parseIdentifiers(tag.prerelease, TRUE)
     /\ "+" \in tag.parts => parseIdentifiers(tag.build, FALSE)
    THEN [core |-> tag.core, prerelease |-> tag.prerelease]
    ELSE NoVersion

isPrerelease(version) == version.prerelease # <<>>

-----------------------------------------------------------------------------
(* Precedence *)

order(a, b) == IF a < b THEN -1 ELSE IF a > b THEN 1 ELSE 0

\* The first comparison that decides; each loop of the code that returns at
\* the first difference is one of these.
first_decided(results) ==
  LET decided == {i \in DOMAIN results : results[i] # 0}
  IN  IF decided = {} THEN 0
      ELSE results[CHOOSE i \in decided : \A j \in decided : i <= j]

shorter(a, b) == IF Len(a) < Len(b) THEN Len(a) ELSE Len(b)

\* QString::compare(): character by character, then by length.
compareText(left, right) ==
  LET result == first_decided([i \in 1 .. shorter(left, right) |-> order(left[i], right[i])])
  IN  IF result # 0 THEN result ELSE order(Len(left), Len(right))

\* Numbers of any size, without conversion: the longer one is greater.
compareNumeric(left, right) ==
  IF Len(left) # Len(right) THEN order(Len(left), Len(right))
  ELSE compareText(left, right)

compareIdentifier(left, right) ==
  IF isNumeric(left) # isNumeric(right) THEN (IF isNumeric(left) THEN -1 ELSE 1)
  ELSE IF isNumeric(left) THEN compareNumeric(left, right)
  ELSE compareText(left, right)

compareCore(left, right) ==
  first_decided([i \in 1 .. 3 |-> compareNumeric(left[i], right[i])])

comparePrerelease(left, right) ==
  LET result == first_decided([i \in 1 .. shorter(left, right) |->
                                 compareIdentifier(left[i], right[i])])
  IN  IF result # 0 THEN result ELSE order(Len(left), Len(right))

\* A release comes after all of its pre-releases.
comparePrecedence(a, b) ==
  IF compareCore(a.core, b.core) # 0 THEN compareCore(a.core, b.core)
  ELSE IF ~isPrerelease(a) \/ ~isPrerelease(b)
    THEN order(IF isPrerelease(a) THEN 0 ELSE 1, IF isPrerelease(b) THEN 0 ELSE 1)
    ELSE comparePrerelease(a.prerelease, b.prerelease)
=============================================================================
