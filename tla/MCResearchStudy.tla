--------------------------- MODULE MCResearchStudy ----------------------------
(***************************************************************************)
(* An instance of ResearchStudy: a taxonomy of two templates in two        *)
(* editions, manifests written by hand for what the generator never makes, *)
(* and five recognizers; a one-case manifest is for the edit distance,     *)
(* over every hypothesis of up to three words, and one of twenty cases for *)
(* the percentile that falls on a whole rank.                              *)
(***************************************************************************)
EXTENDS ResearchStudy

Template(id, language, intent, text) ==
  [template_id |-> id, language |-> language, intent_id |-> intent, text |-> text,
   language_mode |-> IF language = "en-fil" THEN "code-switched" ELSE "monolingual",
   utterance_type |-> IF id = "pin" THEN "short-command" ELSE "conversational-request"]
Edition(text) ==
  <<Template("pin", "en", "pin_reset", <<text>>),
    Template("send", "en-fil", "money_transfer", <<"send">>)>>
MCEditions == {Edition("reset"), Edition("renew")}
MCSuffix ==
  [language \in {"en", "fil", "en-fil"} |->
    CASE language = "en" -> <<<<"please">>, <<"right", "now">>, <<"today">>>>
      [] language = "fil" -> <<<<"po">>, <<"ngayon">>, <<"ngayong", "araw">>>>
      [] OTHER -> <<<<"please", "po">>, <<"right", "now">>, <<"today", "po">>>>]

Audio(kind, voice, spoken) ==
  [kind |-> kind, voice |-> voice, spoken |-> spoken, noise |-> "clean", device |-> "phone"]
Case(id, kind, voice, split, intent, spoken) ==
  [id |-> id, words |-> spoken, sha |-> Audio(kind, voice, spoken), split |-> split,
   dims |-> [language |-> "en", language_mode |-> "monolingual",
             noise_condition |-> "clean", device |-> "phone", speaker_id |-> voice,
             intent_id |-> intent, utterance_type |-> "short-command"]]

Words == {"a", "b"}
Sentences == UNION {[1..n -> Words] : n \in 0..3}
Drills == {{Case(<<"drill", "1">>, "wav", "voice-a", "development", "pin_reset", s)} :
             s \in {<<>>, <<"a">>, <<"a", "b">>, <<"a", "b", "a">>, <<"b", "b", "a">>}}

\* Two cases to train on, and others by voice, split, intent and text.
Training(name) ==
  {Case(<<name, "1">>, "wav", "voice-a", "development", "pin_reset", <<"reset">>),
   Case(<<name, "2">>, "wav", "voice-a", "development", "money_transfer", <<"send">>)}
\* Twenty cases, one of which takes longer than the others.
Twenty == {"1", "2", "3", "4", "5", "6", "7", "8", "9", "10", "11", "12", "13", "14",
           "15", "16", "17", "18", "19", "20"}
Many ==
  {Case(<<"many", n>>, "wav", "voice-a", "development", "pin_reset",
        IF n = "20" THEN <<"reset", "it", "now">> ELSE <<"reset">>) : n \in Twenty}
Study(name, intent, testIntent, testText) ==
  Training(name) \union
  {Case(<<name, "3">>, "wav", "voice-c", "development", intent, <<"please", "reset">>),
   Case(<<name, "4">>, "wav", "voice-d", "test", testIntent, testText)}
\* Three cases to select on: two of one intent, and one of the other.
Plain ==
  Study("plain", "pin_reset", "money_transfer", <<"please", "send">>) \union
  {Case(<<"plain", "5">>, "wav", "voice-c", "development", "pin_reset", <<"reset", "it">>),
   Case(<<"plain", "6">>, "wav", "voice-c", "development", "money_transfer",
        <<"send", "it">>)}
MCHandMade ==
  Drills \union
  { Plain, Many,
    Study("leaky", "pin_reset", "pin_reset", <<"please", "reset">>),
    Study("untrained", "pin_reset", "card_security", <<"lock">>),
    Training("crossed") \union
      {Case(<<"crossed", "3">>, "wav", "voice-c", "test", "pin_reset", <<"renew">>),
       Case(<<"crossed", "4">>, "wav", "voice-d", "test", "pin_reset", <<"renew", "it">>)},
    {Case(<<"truncated", "1">>, "truncated", "voice-a", "development", "pin_reset",
          <<"reset">>)},
    {Case(<<"invalid", "1">>, "invalid", "voice-a", "development", "pin_reset",
          <<"reset">>)},
    {Case(<<"twice", "1">>, "wav", "voice-a", "development", "pin_reset", <<"reset">>),
     Case(<<"twice", "1">>, "wav", "voice-b", "development", "pin_reset", <<"send">>)},
    {Case(<<"split", "1">>, "wav", "voice-a", "development", "pin_reset", <<"reset">>),
     Case(<<"split", "2">>, "wav", "voice-a", "test", "pin_reset", <<"send">>)} }

Says == {<<"says">> \o s : s \in Sentences}
MCTried(m) ==
  IF m \in Drills THEN Says \X {"development"}
  ELSE {<<<<"exact">>, "development">>, <<<<"exact">>, "test">>}
         \union (IF m = Plain
                 THEN {<<<<"deaf">>, "all">>, <<<<"mumbling">>, "development">>} ELSE {})
         \union (IF m \in MCHandMade THEN {} ELSE {<<<<"fragile">>, "development">>})
MCHeard(model, audio) ==
  CASE model[1] = "says" -> [words |-> Tail(model), language |-> "en", confidence |-> 90]
    [] model[1] = "exact" -> [words |-> audio.spoken, language |-> "en", confidence |-> 100]
    [] model[1] = "mumbling" -> [words |-> <<"a">>, language |-> "en", confidence |-> 10]
    [] model[1] = "fragile" /\ audio.voice = "voice-b" -> Raises
    [] OTHER -> [words |-> <<audio.spoken[1]>>, language |-> "fil", confidence |-> 40]
MCLatency(model, audio) ==
  10 * Len(audio.spoken) + (IF audio.voice = "voice-a" THEN 3 ELSE 1)

MCReplacements(m) ==
  IF m = Absent \/ m \notin MCHandMade THEN {<<<<"pin", "voice-b">>, Escaped>>}
  ELSE IF <<"leaky", "3">> \in Ids(m)
  THEN {<<"leaky", "3">>} \X {Absent, Escaped, Audio("invalid", "voice-b", <<"reset">>)}
  ELSE {}
MCRuns(m) ==
  IF m \in MCHandMade THEN {} ELSE {<<Edition("reset"), 8>>, <<Edition("renew"), 5>>}

MCStrengths == <<"0.1", "1", "10">>
\* How likely the true label seems: a row for each strength; a case of money, another
\* of pins and the case "5" have a column each.
Column(c) ==
  IF Label(c) = "money_transfer" THEN 3 ELSE IF c.id[2] = "5" THEN 2 ELSE 1
Tables ==
  {<<<<90, 45, 80>>, <<40, 45, 80>>, <<40, 40, 40>>>>,   \* wrong, but unsure of it
   <<<<40, 80, 40>>, <<80, 96, 45>>, <<20, 96, 20>>>>,
   <<<<20, 40, 20>>, <<40, 20, 40>>, <<20, 20, 20>>>>,   \* all wrong
   <<<<60, 56, 60>>, <<80, 80, 20>>, <<60, 90, 5>>>>}    \* all right, and sure when wrong
MCLikelihood(table, strength, c, label) ==
  LET s == CHOOSE i \in DOMAIN MCStrengths : MCStrengths[i] = strength
      true == table[s][Column(c)]
  IN IF label = Label(c) THEN true ELSE 100 - true
Fit(text, acoustic, both, warm) ==
  [text |-> text, acoustic |-> acoustic, concatenated_fusion |-> both,
   temperature |-> [name \in Predictors |-> IF name \in warm THEN "2" ELSE "1"]]
MCFitted(development) ==
  IF \A r \in development.cases : r.id[1] = "plain"
  THEN {Fit(text, acoustic, both, warm) :
          text \in Tables, acoustic \in Tables, both \in Tables,
          warm \in {{}, Predictors, {"text"}}}
  ELSE {Fit(t, t, t, {}) : t \in Tables}
\* A temperature of 2 takes p to sqrt(p) / (sqrt(p) + sqrt(1 - p)).
MCScaled(temperature, p) ==
  IF temperature = "1" THEN p
  ELSE CASE p = 50 -> 50
         [] p > 50 -> 50 + (p - 50) \div 2
         [] OTHER -> 50 - (50 - p) \div 2
================================================================================
