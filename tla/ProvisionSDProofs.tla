-------------------------- MODULE ProvisionSDProofs --------------------------
(***************************************************************************)
(* Proofs about ProvisionSD, for any media and any number of runs: what is *)
(* erased, and where the identity goes, is decided by the fingerprint.     *)
(***************************************************************************)
EXTENDS ProvisionSD, TLAPS

\* Until it is written no card carries this run's identity, and none that of a
\* run to come.
Unwritten ==
  /\ \A c \in Media : ident[c] \in Nat => ident[c] <= run
  /\ pc \notin {"record", "eject", "done"} => \A c \in Media : ident[c] # run

\* What is opened, and what the identity is about to be written to, matched.
Matched ==
  /\ pc = "flash" /\ target # None => Matches(target)
  /\ pc = "write" => reader # None /\ Matches(reader)

\* The inductive invariant.
Inv == TypeOK /\ Unwritten /\ Matched /\ IdentityBound

USE ConstantsAssumption DEF ConstantsAssumption

\* It holds of a reader and cards as they are found.
LEMMA InvInit == Init => Inv
<1> SUFFICES ASSUME Init PROVE Inv
  OBVIOUS
<1>1. TypeOK
  <2>1. uuid \in [Media -> Media \union {"image", None}]
    BY DEF Init
  <2>2. content \in [Media -> {"blank", "pi", "partial", "image"}]
    BY DEF Init
  <2>3. ident \in [Media -> (0..MaxRuns) \union {Torn}] /\ run \in 1..MaxRuns
        /\ record \in (0..MaxRuns) \union {Torn}
    BY DEF Init
  <2> QED
    BY <2>1, <2>2, <2>3 DEF Init, TypeOK
<1>2. Unwritten /\ IdentityBound
  BY DEF Init, Unwritten, IdentityBound
<1>3. Matched
  BY DEF Init, Matched
<1> QED
  BY <1>1, <1>2, <1>3 DEF Inv

\* The steps that change no card, no fingerprint and no target.
LEMMA InvQuiet ==
  ASSUME Inv,
         Arguments \/ Fits \/ Unmount \/ FlashFails \/ Relist \/ Interrupt \/ UNCHANGED vars
  PROVE  Inv'
<1>1. TypeOK'
  BY DEF Inv, TypeOK, Arguments, Fits, Unmount, FlashFails, Relist, Interrupt, Goto, Stop, cards,
         found, vars
<1>2. Unwritten' /\ IdentityBound'
  BY DEF Inv, Unwritten, IdentityBound, Arguments, Fits, Unmount, FlashFails, Relist, Interrupt,
         Goto, Stop, cards, found, vars
<1>3. Matched'
  BY DEF Inv, Matched, Matches, Arguments, Fits, Unmount, FlashFails, Relist, Interrupt, Goto,
         Stop, cards, found, vars
<1> QED
  BY <1>1, <1>2, <1>3 DEF Inv

\* The steps up to open().
LEMMA InvBefore ==
  ASSUME Inv, Choose \/ Confirm \/ Open
  PROVE  Inv'
<1>1. CASE Choose
  <2>1. TypeOK'
    BY <1>1 DEF Inv, TypeOK, Choose, Goto, Stop, cards
  <2>2. Unwritten' /\ IdentityBound' /\ Matched'
    BY <1>1 DEF Inv, Unwritten, IdentityBound, Matched, Matches, Choose, Goto, Stop, cards
  <2> QED
    BY <2>1, <2>2 DEF Inv
<1>2. CASE Confirm
  <2>1. TypeOK'
    BY <1>2 DEF Inv, TypeOK, Confirm, Goto, Stop, cards
  <2>2. Unwritten' /\ Matched'
    BY <1>2 DEF Inv, Unwritten, Matched, Matches, Confirm, Goto, Stop, cards
  <2>3. IdentityBound'
    BY <1>2 DEF Inv, Unwritten, IdentityBound, Confirm, Goto, Stop, cards
  <2> QED
    BY <2>1, <2>2, <2>3 DEF Inv
<1>3. CASE Open
  <2>1. TypeOK'
    BY <1>3 DEF Inv, TypeOK, Open, Goto, Stop, cards
  <2>2. Unwritten' /\ IdentityBound'
    BY <1>3 DEF Inv, Unwritten, IdentityBound, Open, Goto, Stop, cards
  <2>3. Matched'
    BY <1>3 DEF Inv, Matched, Matches, Open, Goto, Stop, cards
  <2> QED
    BY <2>1, <2>2, <2>3 DEF Inv
<1> QED
  BY <1>1, <1>2, <1>3

\* The flash.
LEMMA InvFlash ==
  ASSUME Inv, FlashBegins \/ FlashEnds
  PROVE  Inv'
<1>1. CASE FlashBegins
  <2>1. TypeOK'
    BY <1>1 DEF Inv, TypeOK, FlashBegins, Goto, Stop
  <2>2. Unwritten' /\ IdentityBound'
    BY <1>1 DEF Inv, TypeOK, Unwritten, IdentityBound, FlashBegins, Goto, Stop
  <2>3. Matched'
    BY <1>1 DEF Matched, FlashBegins, Goto, Stop
  <2> QED
    BY <2>1, <2>2, <2>3 DEF Inv
<1>2. CASE FlashEnds
  <2>1. TypeOK'
    BY <1>2 DEF Inv, TypeOK, FlashEnds, Goto, found
  <2>2. Unwritten' /\ IdentityBound' /\ Matched'
    BY <1>2 DEF Inv, Unwritten, IdentityBound, Matched, FlashEnds, Goto, found
  <2> QED
    BY <2>1, <2>2 DEF Inv
<1> QED
  BY <1>1, <1>2

\* The identity.
LEMMA InvIdentity ==
  ASSUME Inv, Mount \/ WriteIdentity \/ Record \/ Eject
  PROVE  Inv'
<1>1. CASE Mount
  <2>1. TypeOK'
    BY <1>1, ZenonT(60) DEF Inv, TypeOK, Mount, Goto, Stop, cards, found
  <2>2. Unwritten' /\ IdentityBound' /\ Matched'
    BY <1>1 DEF Inv, Unwritten, IdentityBound, Matched, Matches, Mount, Goto, Stop, cards, found
  <2> QED
    BY <2>1, <2>2 DEF Inv
<1>2. CASE WriteIdentity
  <2>0. reader \in Media /\ Matches(reader)
    BY <1>2 DEF Inv, TypeOK, Matched, WriteIdentity
  <2>1. TypeOK'
    BY <1>2, <2>0 DEF Inv, TypeOK, WriteIdentity, Goto, Stop
  <2>2. Unwritten'
    BY <1>2, <2>0 DEF Inv, TypeOK, Unwritten, WriteIdentity, Goto, Stop
  <2>3. IdentityBound'
    BY <1>2, <2>0 DEF Inv, TypeOK, IdentityBound, Matches, WriteIdentity, Goto, Stop
  <2>4. Matched'
    BY <1>2 DEF Matched, WriteIdentity, Goto, Stop
  <2> QED
    BY <2>1, <2>2, <2>3, <2>4 DEF Inv
<1>3. CASE Record
  <2>1. TypeOK'
    BY <1>3 DEF Inv, TypeOK, Record, Goto, Stop, found
  <2>2. Unwritten' /\ IdentityBound' /\ Matched'
    BY <1>3 DEF Inv, Unwritten, IdentityBound, Matched, Record, Goto, Stop, found
  <2> QED
    BY <2>1, <2>2 DEF Inv
<1>4. CASE Eject
  <2>1. TypeOK'
    BY <1>4, ZenonT(60) DEF Inv, TypeOK, Eject, Stop, found
  <2>2. Unwritten' /\ IdentityBound' /\ Matched'
    BY <1>4 DEF Inv, Unwritten, IdentityBound, Matched, Eject, Stop, found
  <2> QED
    BY <2>1, <2>2 DEF Inv
<1> QED
  BY <1>1, <1>2, <1>3, <1>4

\* The operator.
LEMMA InvOperator ==
  ASSUME Inv, Swap \/ Again
  PROVE  Inv'
<1>1. CASE Swap
  <2>1. ident' \in [Media -> (0..MaxRuns) \union {Torn}]
        /\ \A c \in Media : ident'[c] = ident[c] \/ ident'[c] = Torn
    BY <1>1 DEF Inv, TypeOK, Swap
  <2>2. TypeOK'
    BY <1>1, <2>1 DEF Inv, TypeOK, Swap
  <2>3. Unwritten' /\ IdentityBound'
    BY <1>1, <2>1 DEF Inv, TypeOK, Unwritten, IdentityBound, Swap
  <2>4. Matched'
    BY <1>1 DEF Inv, Matched, Matches, Swap
  <2> QED
    BY <2>2, <2>3, <2>4 DEF Inv
<1>2. CASE Again
  <2>1. run' = run + 1 /\ run \in Nat /\ ident' = ident /\ pc' = "args"
    BY <1>2 DEF Inv, TypeOK, Again
  <2>2. TypeOK'
    <3>1. content' \in [Media -> {"blank", "pi", "partial", "image"}]
      BY <1>2 DEF Inv, TypeOK, Again
    <3>2. run' \in 1..MaxRuns
      BY <1>2 DEF Inv, TypeOK, Again
    <3> QED
      BY <1>2, <3>1, <3>2 DEF Inv, TypeOK, Again
  <2>3. \A c \in Media : ident[c] # run'
    BY <2>1 DEF Inv, Unwritten
  <2>4. Unwritten'
    BY <1>2, <2>1, <2>3 DEF Inv, TypeOK, Unwritten, Again
  <2>5. IdentityBound' /\ Matched'
    BY <2>1, <2>3 DEF IdentityBound, Matched
  <2> QED
    BY <2>2, <2>4, <2>5 DEF Inv
<1> QED
  BY <1>1, <1>2

\* Every step keeps the invariant.
LEMMA InvStep == Inv /\ [Next]_vars => Inv'
BY InvQuiet, InvBefore, InvFlash, InvIdentity, InvOperator DEF Next, Tool

\* The invariant, always.
THEOREM Invariance == Spec => []Inv
<1>1. Init => Inv
  BY InvInit
<1>2. Inv /\ [Next]_vars => Inv'
  BY InvStep
<1> QED
  BY <1>1, <1>2, PTL DEF Spec

\* Every variable keeps its type; in particular the image is whole on no card
\* that is too small for it.
THEOREM TypeCorrect == Spec => []TypeOK
<1>1. Inv => TypeOK
  BY DEF Inv
<1> QED
  BY <1>1, Invariance, PTL

\* main() writes the identity to no card whose name and size differ from those
\* of the card the operator confirmed, whatever is put into the reader and when.
THEOREM IdentityIsBound == Spec => []IdentityBound
<1>1. Inv => IdentityBound
  BY DEF Inv
<1> QED
  BY <1>1, Invariance, PTL

\* Nothing is written to before the flash, and nothing is told before the end.
Told ==
  /\ pc \in {"args", "choose", "confirm", "fits", "unmount", "open", "flash"} => written = {}
  /\ pc # "done" => told = "running"
  /\ ReportTrue

\* A message is told at a step that is before or after what it is about.
LEMMA ToldStep ==
  ASSUME Inv, Told, [Next]_vars
  PROVE  Told'
<1>1. CASE Arguments
  BY <1>1 DEF Inv, Unwritten, Told, ReportTrue, Arguments, Goto, Stop, cards, found
<1>2. CASE Choose
  BY <1>2 DEF Inv, Unwritten, Told, ReportTrue, Choose, Goto, Stop, cards
<1>3. CASE Confirm
  BY <1>3 DEF Inv, Unwritten, Told, ReportTrue, Confirm, Goto, Stop, cards
<1>4. CASE Fits
  BY <1>4 DEF Inv, Unwritten, Told, ReportTrue, Fits, Goto, Stop, cards, found
<1>5. CASE Unmount
  BY <1>5 DEF Inv, Unwritten, Told, ReportTrue, Unmount, Goto, Stop, cards, found
<1>6. CASE Open
  BY <1>6 DEF Inv, Unwritten, Told, ReportTrue, Open, Goto, Stop, cards
<1>7. CASE FlashBegins
  BY <1>7 DEF Inv, Unwritten, Told, ReportTrue, FlashBegins, Goto, Stop
<1>8. CASE FlashEnds
  BY <1>8 DEF Inv, Unwritten, Told, ReportTrue, FlashEnds, Goto, found
<1>9. CASE FlashFails
  BY <1>9 DEF Inv, Unwritten, Told, ReportTrue, FlashFails, Stop, cards, found
<1>10. CASE Relist
  BY <1>10 DEF Inv, Unwritten, Told, ReportTrue, Relist, Goto, Stop, cards, found
<1>11. CASE Mount
  BY <1>11 DEF Inv, Unwritten, Told, ReportTrue, Mount, Goto, Stop, cards, found
<1>12. CASE WriteIdentity
  BY <1>12 DEF Inv, Unwritten, Told, ReportTrue, WriteIdentity, Goto, Stop
<1>13. CASE Record
  BY <1>13 DEF Inv, Unwritten, Told, ReportTrue, Record, Goto, Stop, found
<1>14. CASE Eject
  BY <1>14 DEF Inv, Unwritten, Told, ReportTrue, Eject, Stop, found
<1>15. CASE Interrupt
  BY <1>15 DEF Inv, Unwritten, Told, ReportTrue, Interrupt, Stop, cards, found
<1>16. CASE Swap
  <2>1. \A c \in Media : ident'[c] = ident[c] \/ ident'[c] = Torn
    BY <1>16 DEF Inv, TypeOK, Swap
  <2>2. UNCHANGED <<run, written, pc, told>>
    BY <1>16 DEF Swap
  <2>3. run \in Nat
    BY DEF Inv, TypeOK
  <2>4. \A c \in Media : ident[c] # run => ident'[c] # run
    BY <2>1, <2>3
  <2> QED
    BY <2>2, <2>4 DEF Told, ReportTrue
<1>17. CASE Again
  BY <1>17 DEF Told, ReportTrue, Again
<1>18. CASE UNCHANGED vars
  BY <1>18 DEF Told, ReportTrue, vars
<1> QED
  BY <1>1, <1>2, <1>3, <1>4, <1>5, <1>6, <1>7, <1>8, <1>9, <1>10,
     <1>11, <1>12, <1>13, <1>14, <1>15, <1>16, <1>17, <1>18 DEF Next, Tool

\* What is told, always.
THEOREM ToldInvariance == Spec => []Told
<1>1. Init => Told
  BY DEF Init, Told, ReportTrue
<1>2. Inv /\ Told /\ [Next]_vars => Told'
  BY ToldStep
<1> QED
  BY <1>1, <1>2, Invariance, PTL DEF Spec

\* What main() tells the operator of the cards is so: "nothing written", and what
\* it says of a card before an identity is on it.
THEOREM ReportIsTrue == Spec => []ReportTrue
<1>1. Told => ReportTrue
  BY DEF Told
<1> QED
  BY <1>1, ToldInvariance, PTL

\* main() erases no card but the confirmed one and those that diskutil cannot
\* tell from it.
THEOREM ErasesOnlyConfirmed == Spec => OnlyConfirmed
<1>1. Inv /\ [Next]_vars =>
        [\A c \in Media :
           content'[c] = "partial" /\ content[c] # "partial"
           => /\ Class(c) = Class(confirmed.card)
              /\ c = confirmed.card \/ uuid[c] = None \/ confirmed.uuid \in {None, uuid[c]}]_vars
  <2> SUFFICES ASSUME Inv, Next, NEW c \in Media, content'[c] = "partial", content[c] # "partial"
               PROVE  /\ Class(c) = Class(confirmed.card)
                      /\ c = confirmed.card \/ uuid[c] = None \/ confirmed.uuid \in {None, uuid[c]}
    OBVIOUS
  <2>1. CASE FlashBegins
    <3>1. c = target /\ target # None /\ pc = "flash"
      BY <2>1 DEF Inv, TypeOK, FlashBegins
    <3> QED
      BY <3>1 DEF Inv, Matched, Matches
  <2>2. CASE FlashEnds
    BY <2>2 DEF Inv, TypeOK, FlashEnds
  <2>3. CASE Again
    BY <2>3 DEF Inv, TypeOK, Again
  <2>4. CASE ~(FlashBegins \/ FlashEnds \/ Again)
    BY <2>4 DEF Next, Tool, Arguments, Choose, Confirm, Fits, Unmount, Open, FlashFails, Relist,
       Mount, WriteIdentity, Record, Eject, Interrupt, Swap, cards
  <2> QED
    BY <2>1, <2>2, <2>3, <2>4
<1> QED
  BY <1>1, Invariance, PTL DEF Spec, OnlyConfirmed

\* A card of this run with its identity, beside the one that was flashed.
Finished ==
  \E c \in Media :
    /\ ident[c] = run /\ content[c] \in {"pi", "image"} /\ Class(c) = Class(target)
    /\ content[target] = "image" /\ written = {c, target}

\* The card that was opened is of the confirmed class and the only one written
\* to; it is whole when the flash has ended.
Flashed ==
  /\ pc = "stream" /\ target # None =>
       written = {target} /\ Class(target) = Class(confirmed.card)
  /\ pc \in {"settle", "mount", "write"} =>
       /\ target \in Media /\ content[target] = "image"
       /\ written = {target} /\ Class(target) = Class(confirmed.card)
  /\ pc = "write" => content[reader] \in {"pi", "image"}

\* Nothing of a complete run is left to be lost when the card is taken out.
Done ==
  /\ pc \in {"record", "eject"} => Finished
  /\ told = "complete" => Finished /\ cached = None

\* The operator changes no card that is whole and flushed.
LEMMA CompleteOperator ==
  ASSUME Inv, Told, Flashed, Done, Swap \/ Again
  PROVE  (Flashed /\ Done)'
<1>1. CASE Swap
  <2>1. UNCHANGED <<content, run, written, pc, told, confirmed>>
        /\ (pc \notin {"flash", "stream"} => target' = target)
        /\ (pc \in {"flash", "stream"} => target' = None)
    BY <1>1 DEF Swap
  <2>2. Flashed'
    BY <1>1, <2>1 DEF Flashed, Swap
  <2>3. told = "complete" => ident' = ident /\ cached' = None
    BY <1>1 DEF Done, Swap
  <2>4. pc \notin {"record", "eject"} /\ (told = "complete" => pc = "done")
    BY <1>1 DEF Swap, Told
  <2>5. told = "complete" => Finished'
    BY <2>1, <2>3, <2>4 DEF Done, Finished
  <2> QED
    BY <2>1, <2>2, <2>3, <2>4, <2>5 DEF Done
<1>2. CASE Again
  BY <1>2 DEF Flashed, Done, Again
<1> QED
  BY <1>1, <1>2

\* The flash and the identity, step by step.
LEMMA CompleteStep ==
  ASSUME Inv, Told, Flashed, Done, [Next]_vars
  PROVE  (Flashed /\ Done)'
<1>1. CASE Arguments
  BY <1>1 DEF Flashed, Done, Told, Arguments, Goto, Stop, cards, found
<1>2. CASE Choose
  BY <1>2 DEF Flashed, Done, Told, Choose, Goto, Stop, cards
<1>3. CASE Confirm
  BY <1>3 DEF Flashed, Done, Told, Confirm, Goto, Stop, cards
<1>4. CASE Fits
  BY <1>4 DEF Flashed, Done, Told, Fits, Goto, Stop, cards, found
<1>5. CASE Unmount
  BY <1>5 DEF Flashed, Done, Told, Unmount, Goto, Stop, cards, found
<1>6. CASE Open
  BY <1>6 DEF Flashed, Done, Told, Open, Goto, Stop, cards
<1>7. CASE FlashBegins
  BY <1>7 DEF Inv, TypeOK, Matched, Matches, Flashed, Done, Told, FlashBegins, Goto, Stop
<1>8. CASE FlashEnds
  BY <1>8 DEF Inv, TypeOK, Flashed, Done, Told, FlashEnds, Goto, found
<1>9. CASE FlashFails
  BY <1>9 DEF Flashed, Done, FlashFails, Stop, cards, found
<1>10. CASE Relist
  BY <1>10 DEF Flashed, Done, Told, Relist, Goto, Stop, cards, found
<1>11. CASE Mount
  BY <1>11 DEF Flashed, Done, Told, Mount, Goto, Stop, cards, found
<1>12. CASE WriteIdentity
  <2>1. reader \in Media /\ Class(reader) = Class(target) /\ content[reader] \in {"pi", "image"}
        /\ content[target] = "image" /\ written' = {reader, target}
    BY <1>12 DEF Inv, TypeOK, Matched, Matches, Flashed, WriteIdentity
  <2>2. CASE pc' = "record"
    <3>1. ident'[reader] = run
      BY <1>12, <2>1, <2>2 DEF Inv, TypeOK, WriteIdentity, Goto, Stop
    <3>2. Finished'
      BY <1>12, <2>1, <3>1 DEF Finished, WriteIdentity
    <3> QED
      BY <1>12, <2>2, <3>2 DEF Flashed, Done, Told, WriteIdentity, Goto, Stop
  <2>3. CASE pc' # "record"
    BY <1>12, <2>3 DEF Flashed, Done, WriteIdentity, Goto, Stop
  <2> QED
    BY <2>2, <2>3
<1>13. CASE Record
  BY <1>13 DEF Flashed, Done, Finished, Told, Record, Goto, Stop, found
<1>14. CASE Eject
  BY <1>14 DEF Flashed, Done, Finished, Told, Eject, Stop, found
<1>15. CASE Interrupt
  BY <1>15 DEF Flashed, Done, Interrupt, Stop, cards, found
<1>16. CASE Swap \/ Again
  BY <1>16, CompleteOperator
<1>17. CASE UNCHANGED vars
  BY <1>17 DEF Flashed, Done, Finished, vars
<1> QED
  BY <1>1, <1>2, <1>3, <1>4, <1>5, <1>6, <1>7, <1>8, <1>9, <1>10,
     <1>11, <1>12, <1>13, <1>14, <1>15, <1>16, <1>17 DEF Next, Tool

\* "Provisioning complete" is told of a card that holds this run's identity, of
\* the class of the one that was flashed, and of no run that wrote elsewhere; it
\* stays so whatever is put into the reader afterwards.
THEOREM CompleteIsTrue == Spec => []CompleteIsComplete
<1>1. Init => Flashed /\ Done
  BY DEF Init, Flashed, Done
<1>2. Inv /\ Told /\ Flashed /\ Done /\ [Next]_vars => (Flashed /\ Done)'
  BY CompleteStep
<1>3. Done => CompleteIsComplete
  BY DEF Done, Finished, CompleteIsComplete
<1> QED
  BY <1>1, <1>2, <1>3, Invariance, ToldInvariance, PTL DEF Spec
===============================================================================
