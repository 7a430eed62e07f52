------------------------------ MODULE Settings ------------------------------
(***************************************************************************)
(* hw_settings_load() and hw_settings_tx_scale() of src/src/hw_settings.c: *)
(* the calibration file read once before any thread exists, and the drive  *)
(* scale that the audio thread looks up for every block it transmits.      *)
(*                                                                         *)
(* A line is a section's name, a key with its value, or anything else: a   *)
(* comment, a blank, a line without "=" or with a value that does not      *)
(* begin as an integer does (".0008").  The text of a line, the messages   *)
(* and numbers of more than 32 bits are left out.  The file may end after  *)
(* any line, so what holds of every state holds of the table that any file *)
(* leaves.                                                                 *)
(***************************************************************************)

EXTENDS Integers, Sequences, FiniteSets

CONSTANTS
  Lines,          \* the lines a file may consist of
  MaxLines,       \* a bound on the lines of a file
  MaxBands,       \* HW_MAX_TX_BANDS
  DefaultScale,   \* HW_DEFAULT_TX_SCALE
  CompiledIn      \* bfo_freq and xtal_filter_center without a file

SectionLine(name)   == [is |-> "section", name |-> name]
KeyLine(key, value) == [is |-> "key", name |-> key, value |-> value]
OtherLine           == [is |-> "other"]

TopKeys == {"bfo_freq", "xtal_filter_center"}

ASSUME SettingsAssumption ==
  /\ Lines \subseteq [is : {"section"}, name : STRING]
                       \union [is : {"key"}, name : STRING, value : Int]
                       \union {OtherLine}
  /\ MaxLines \in Nat
  /\ MaxBands \in Nat \ {0}
  /\ CompiledIn \in [TopKeys -> Int]

VARIABLES
  measured,     \* bfo_freq and xtal_filter_center
  section,      \* the section being read
  bands,        \* tx_band_scales
  count,        \* tx_band_scale_count
  linesRead     \* history: the lines read so far

settingsVars == <<measured, section, bands, count, linesRead>>

NoBand == [f_start |-> 0, f_stop |-> 0, scale |-> 0]

LoadInit ==
  /\ measured = CompiledIn
  /\ section = "top"
  /\ bands = [i \in 0 .. MaxBands - 1 |-> NoBand]
  /\ count = 0
  /\ linesRead = <<>>

-----------------------------------------------------------------------------
(* The next line, and what becomes of it                                   *)

Take(line) ==
  /\ Len(linesRead) < MaxLines
  /\ linesRead' = Append(linesRead, line)

HasRoom == count < MaxBands

EnterBandKeeping(line) ==       \* mutant: an entry is not cleared
  /\ line.is = "section" /\ line.name = "tx_band"
  /\ section' = "tx_band"
  /\ UNCHANGED <<measured, bands, count>>

(* An entry is cleared before its keys come.                               *)
EnterBand(line) ==
  /\ line.is = "section" /\ line.name = "tx_band"
  /\ section' = "tx_band"
  /\ bands' = IF HasRoom THEN [bands EXCEPT ![count] = NoBand] ELSE bands
  /\ UNCHANGED <<measured, count>>

EnterOther(line) ==
  /\ line.is = "section" /\ line.name # "tx_band"
  /\ section' = "other"
  /\ UNCHANGED <<measured, bands, count>>

TopKey(line) ==
  /\ line.is = "key" /\ section = "top" /\ line.name \in TopKeys
  /\ measured' = [measured EXCEPT ![line.name] = line.value]
  /\ UNCHANGED <<section, bands, count>>

IsBandKey(line) == line.is = "key" /\ section = "tx_band" /\ HasRoom

EdgeKey(line) ==
  /\ IsBandKey(line) /\ line.name \in {"f_start", "f_stop"}
  /\ bands' = [bands EXCEPT ![count][line.name] = line.value]
  /\ UNCHANGED <<measured, section, count>>

(* The scale comes last: with it the entry counts, if it has an edge.      *)
ScaleKey(line) ==
  /\ IsBandKey(line) /\ line.name = "scale"
  /\ bands' = [bands EXCEPT ![count].scale = line.value]
  /\ count' = IF bands[count].f_start # 0 \/ bands[count].f_stop # 0
              THEN count + 1 ELSE count
  /\ UNCHANGED <<measured, section>>

PassOver(line) ==
  /\ line.is # "section"
  /\ ~(line.is = "key" /\ section = "top" /\ line.name \in TopKeys)
  /\ ~(IsBandKey(line) /\ line.name \in {"f_start", "f_stop", "scale"})
  /\ UNCHANGED <<measured, section, bands, count>>

LoadNext ==
  \E line \in Lines :
    /\ Take(line)
    /\ \/ EnterBand(line) \/ EnterOther(line) \/ TopKey(line)
       \/ EdgeKey(line) \/ ScaleKey(line) \/ PassOver(line)

LoadSpec == LoadInit /\ [][LoadNext]_settingsVars

(* hw_settings_tx_scale(): the first entry that holds the frequency.       *)
Holds(band, freq) == band.f_start <= freq /\ freq <= band.f_stop

Holding(freq) == {i \in 0 .. count - 1 : Holds(bands[i], freq)}

LastOne(S)  == CHOOSE i \in S : \A j \in S : j <= i
FirstOne(S) == CHOOSE i \in S : \A j \in S : i <= j

TxScale(freq) ==
  IF Holding(freq) = {} THEN DefaultScale ELSE bands[FirstOne(Holding(freq))].scale

-----------------------------------------------------------------------------
(* What a file says, whatever its sections are and however complete        *)

IsKey(n, key) == linesRead[n].is = "key" /\ linesRead[n].name = key

(* The n-th line belongs to a section of the name.                         *)
Within(n, name) ==
  \E h \in 1 .. n - 1 :
    /\ linesRead[h] = SectionLine(name)
    /\ \A i \in h + 1 .. n - 1 : linesRead[i].is # "section"

AtTop(n) == \A i \in 1 .. n - 1 : linesRead[i].is # "section"

(* A band begins with a section, or after a scale.                         *)
Divides(n) == linesRead[n].is = "section" \/ IsKey(n, "scale")

(* The lines that give the key to the band that the n-th line belongs to,  *)
(* and what they say: the last one counts.                                 *)
Giving(n, key) ==
  {j \in 1 .. n - 1 : IsKey(j, key) /\ \A i \in j + 1 .. n - 1 : ~Divides(i)}

Given(n, key) ==
  IF Giving(n, key) = {} THEN 0 ELSE linesRead[LastOne(Giving(n, key))].value

Band(n) == [f_start |-> Given(n, "f_start"), f_stop |-> Given(n, "f_stop"),
            scale   |-> linesRead[n].value]

(* The lines that complete a band, and the band's number.                  *)
Completes(n) ==
  /\ IsKey(n, "scale") /\ Within(n, "tx_band")
  /\ Band(n).f_start # 0 \/ Band(n).f_stop # 0

Complete == {n \in DOMAIN linesRead : Completes(n)}
Number(n) == Cardinality({m \in Complete : m <= n})

(* The lines that give a top-level key.                                    *)
TopLines(key) == {n \in DOMAIN linesRead : IsKey(n, key) /\ AtTop(n)}

-----------------------------------------------------------------------------
SettingsTypeOK ==
  /\ measured \in [TopKeys -> Int]
  /\ section \in {"top", "tx_band", "other"}
  /\ bands \in [0 .. MaxBands - 1 -> [f_start : Int, f_stop : Int, scale : Int]]
  /\ count \in 0 .. MaxBands
  /\ linesRead \in Seq(Lines)

(* The drive of a band is what the settings file says of it: the table is  *)
(* the file's complete bands in their order, as many as fit; nothing of an *)
(* incomplete one, of a section that is not a band's or of a line that     *)
(* cannot be read gets into another.  The two measured frequencies are     *)
(* what the top of the file said last of them.                             *)
EachBandAsWritten ==
  /\ count = IF Cardinality(Complete) < MaxBands THEN Cardinality(Complete) ELSE MaxBands
  /\ \A n \in Complete : Number(n) <= MaxBands => bands[Number(n) - 1] = Band(n)
  /\ \A key \in TopKeys :
       measured[key] = IF TopLines(key) = {} THEN CompiledIn[key]
                       ELSE linesRead[LastOne(TopLines(key))].value

(* What the audio thread gets for a frequency is the scale of the first    *)
(* band written that holds it, among those that fit the table.             *)
WrittenFor(freq) ==
  {n \in Complete : Number(n) <= MaxBands /\ Holds(Band(n), freq)}

ScaleOfTheFirst ==
  \A freq \in Int :
    TxScale(freq) = IF WrittenFor(freq) = {} THEN DefaultScale
                    ELSE linesRead[FirstOne(WrittenFor(freq))].value

=============================================================================
