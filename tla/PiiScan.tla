------------------------------- MODULE PiiScan -------------------------------
(***************************************************************************)
(* generator/pii_scanner.py as operators.  A text is a sequence of tokens, *)
(* each given by its kind; a pattern finds tokens of certain kinds and     *)
(* replaces them (or the part it matches) by the placeholder.              *)
(***************************************************************************)
EXTENDS Integers, Sequences, FiniteSets

(* _REGEX_PATTERNS: the passes in order, and the kinds of token each one's *)
(* expression matches.  A ten-digit NHS number matches the phone pattern,  *)
(* which comes first.                                                      *)
Patterns == <<"EMAIL", "PHONE", "SSN", "CREDIT_CARD", "IP", "NHS", "IBAN",
              "AWS_KEY", "API_KEY">>

Hits == [EMAIL |-> {"email"}, PHONE |-> {"phone", "nhs"}, SSN |-> {"ssn"},
         CREDIT_CARD |-> {"card"}, IP |-> {"ip"}, NHS |-> {"nhs"},
         IBAN |-> {"iban"}, AWS_KEY |-> {"awsKey"}, API_KEY |-> {"apiKey"}]

(* _PRESIDIO_ENTITIES, with the kinds the analyzer finds under that name.  *)
Recognizers == [EMAIL_ADDRESS |-> {"email"}, PHONE_NUMBER |-> {"phone"},
                US_SSN |-> {"ssn"}, CREDIT_CARD |-> {"card"},
                IP_ADDRESS |-> {"ip"}, UK_NHS |-> {"nhs"},
                IBAN_CODE |-> {"iban"}, PERSON |-> {"name"}]

Entity == DOMAIN Hits \cup DOMAIN Recognizers
Placeholder == "[REDACTED]"

NoCounts == [e \in Entity |-> 0]

(* RedactionResult; an entity that is not in entity_counts has count 0.    *)
Untouched(text) ==
  [text |-> text, counts |-> NoCounts, backend |-> "none"]

Detected(r) == \E e \in Entity : r.counts[e] > 0

Found(text, kinds) == {i \in DOMAIN text : text[i] \in kinds}

(* One round of the loop: count the matches, replace them.                 *)
Pass(r, e) ==
  [r EXCEPT !.counts[e] = Cardinality(Found(r.text, Hits[e])),
            !.text = [i \in DOMAIN r.text |->
                        IF r.text[i] \in Hits[e] THEN Placeholder ELSE r.text[i]]]

(* a bug: every pattern is matched against the original text, and only the *)
(* last one's substitution survives                                        *)
ScanRegexFromOriginal(text) ==
  LET start == [text |-> text, counts |-> NoCounts, backend |-> "regex"]
      after[k \in 0 .. Len(Patterns)] ==
        IF k = 0 THEN start
        ELSE [Pass(start, Patterns[k]) EXCEPT
                !.counts = [e \in Entity |->
                              IF e = Patterns[k] THEN @[e] ELSE after[k - 1].counts[e]]]
  IN  after[Len(Patterns)]

(* _scan_regex: each pattern works on what the ones before it left.        *)
Passes(text) ==
  LET after[k \in 0 .. Len(Patterns)] ==
        IF k = 0 THEN [text |-> text, counts |-> NoCounts, backend |-> "regex"]
        ELSE Pass(after[k - 1], Patterns[k])
  IN  after

ScanRegex(text) == Passes(text)[Len(Patterns)]

(* _scan_presidio when analyzer and anonymizer answer.                     *)
ScanPresidio(text) ==
  LET kinds == UNION {Recognizers[e] : e \in DOMAIN Recognizers}
  IN  [text |-> [i \in DOMAIN text |->
                   IF text[i] \in kinds THEN Placeholder ELSE text[i]],
       counts |-> [e \in Entity |->
                     IF e \in DOMAIN Recognizers
                     THEN Cardinality(Found(text, Recognizers[e])) ELSE 0],
       backend |-> "presidio"]

(* _get_presidio and the scan: engines are built by the first scan that    *)
(* needs them; when only the analyzer could be built the pair is half full *)
(* and every scan fails over to the patterns.                              *)
PresidioOutcomes(text, engines) ==
  CASE engines = "none"  -> {<<ScanRegex(text), "none">>, <<ScanRegex(text), "half">>,
                             <<ScanRegex(text), "ready">>, <<ScanPresidio(text), "ready">>}
    [] engines = "half"  -> {<<ScanRegex(text), "half">>}
    [] engines = "ready" -> {<<ScanRegex(text), "ready">>, <<ScanPresidio(text), "ready">>}

(* scan(): the result and the engines after it.  Sampling is               *)
(* PII_SAMPLE_RATE < 1; a text it skips goes through as it is.             *)
ScanOutcomes(text, backend, sampling, engines) ==
  IF text = <<>> THEN {<<Untouched(text), engines>>}
  ELSE (IF sampling THEN {<<Untouched(text), engines>>} ELSE {})
       \cup (IF backend = "presidio" THEN PresidioOutcomes(text, engines)
             ELSE {<<ScanRegex(text), engines>>})

=============================================================================
