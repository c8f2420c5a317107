---------------------------- MODULE AudioDevice ----------------------------
(***************************************************************************)
(* Boot audio (core/src/audio.rs): the Intel HDA controller that the       *)
(* verification boot brings up, the AC97 controller that both boots use,   *)
(* and the silent path when neither is there.                              *)
(*                                                                         *)
(* The driver is one thread.  Beside it run the hardware's engines, which  *)
(* are external: the reset bit that follows the request, the codec that    *)
(* answers an immediate command late or never, the HDA stream and the AC97 *)
(* bus master that fetch samples while the processor goes on.              *)
(*                                                                         *)
(* Every wait of the driver is `spin_until` with a budget (1,000,000 reads,*)
(* here SpinBudget).  Serial markers are left out; the outcome they report *)
(* is `hdaEnd` and the end of `pc`.                                        *)
(***************************************************************************)
EXTENDS Naturals, Integers, Sequences, FiniteSets, SequencesExt

CONSTANTS
    Modes,          \* which boots run: "verify" (main.rs), "normal" (normal_boot.rs)
    Buses,          \* the primary PCI buses: sequences of function kinds
    CodecGraphs,    \* the codecs' nodes, each a function from node id to node
    CodecSets,      \* the sets of codec addresses that report after reset
    SpinBudget,     \* reads of one spin_until
    Entries         \* AC97_BDL_ENTRY_COUNT, 32 in the code

AudioBounds == SpinBudget \in Nat \ {0} /\ Entries \in Nat \ {0, 1}

VARIABLES
    mode, bus, pc,
    spins,      \* reads already made by the current spin_until
    hdaAt,      \* slot of the HDA function probe_hda returned, 0 for none
    ac97At,     \* slot of the AC97 function select_device returned, 0 for none
    crst,       \* GCTL.CRST: what was written last, and what the hardware shows
    statests,   \* codec addresses that reported
    graph,      \* the codec's nodes
    ici,        \* immediate command registers
    walk,       \* locals of hda_enumerate_codec
    path,       \* HdaOutputPath
    routed,     \* (node, verb) pairs the codec has executed
    stream,     \* output stream descriptor and its DMA position
    hdaBuf,     \* HDA_PCM: "empty", "part", "boot"
    hdaBdl,     \* HDA_BDL: what each of the four entries covers
    hdaEnd,     \* what the boot reports of HDA
    ac97,       \* AC97 PCM-out registers and engine
    pcm,        \* PCM_BUFFER
    bdl,        \* BDL, the AC97 descriptor list
    seen        \* history: what the engines and the driver read

hdaVars == <<hdaAt, crst, statests, graph, ici, walk, path, routed, stream, hdaBuf, hdaBdl, hdaEnd>>

ac97Vars == <<ac97At, ac97, pcm, bdl>>

vars == <<mode, bus, pc, spins, hdaVars, ac97Vars, seen>>

----------------------------------------------------------------------------
(* PCI scan. *)

(* hda_mmio_base: an I/O BAR or a zero base is no HDA controller. *)
HdaUsable(kind) == kind = "hda"

(* The first of the functions that match, 0 for none *)
FirstSlot(hits) == IF hits = {} THEN 0 ELSE CHOOSE i \in hits : \A j \in hits : i <= j

IsAc97(kind) == kind \in {"ac97", "ac97_bad_bar", "ac97_rejects", "ac97_high_port"}

----------------------------------------------------------------------------
(* The codec's immediate command interface. *)

NoCommand == [cad |-> 0, nid |-> 0, verb |-> "none", param |-> "none"]

Verb(cad, nid, verb, param) == [cad |-> cad, nid |-> nid % 256, verb |-> verb, param |-> param]

GetParam(nid, param) == Verb(walk.cad, nid, "get_param", param)

(* What the codec answers: <<first subordinate node, count>> or a type code. *)
Answer(command) ==
    LET node == graph[command.nid]
    IN CASE command.param = "node_count" -> <<node.start, node.count>>
         [] command.param \in {"fg_type", "widget_cap"} -> <<node.type, 0>>
         [] OTHER -> <<0, 0>>

FG_AUDIO == 1

WIDGET_OUTPUT == 0

WIDGET_PIN == 4

NoWidget == 99

(* DAC: format, stream tag, amplifier; pin: output enable, amplifier, EAPD. *)
OutputCommands ==
    << Verb(path.cad, path.dac, "stream_format", "48k_16_stereo"),
       Verb(path.cad, path.dac, "stream_channel", "tag"),
       Verb(path.cad, path.dac, "amp", "out_both"),
       Verb(path.cad, path.pin, "pin_ctl", "out_en"),
       Verb(path.cad, path.pin, "amp", "out_both"),
       Verb(path.cad, path.pin, "eapd", "enable") >>

(* The command the driver is waiting to issue or to see answered. *)
Command ==
    CASE walk.stage = "root"     -> GetParam(0, "node_count")
      [] walk.stage = "fg_type"  -> GetParam(walk.fgStart + walk.fg, "fg_type")
      [] walk.stage = "fg_nodes" -> GetParam(walk.fgStart + walk.fg, "node_count")
      [] walk.stage = "widget"   -> GetParam(walk.wStart + walk.w, "widget_cap")
      [] walk.stage = "output"   -> OutputCommands[walk.out]
      [] OTHER -> NoCommand

NewWalk == [stage |-> "none", cad |-> 0, fgStart |-> 0, fgCount |-> 0, fg |-> 0,
            wStart |-> 0, wCount |-> 0, w |-> 0, dac |-> NoWidget, pin |-> NoWidget, out |-> 0]

NoPath == [cad |-> 0, afg |-> 0, dac |-> NoWidget, pin |-> NoWidget]

----------------------------------------------------------------------------
Init ==
    /\ mode \in Modes /\ bus \in Buses
    /\ pc = IF mode = "verify" THEN "probe_hda" ELSE "select"
    /\ spins = 0 /\ hdaAt = 0 /\ ac97At = 0
    /\ crst = [want |-> 1, now |-> 1]
    /\ statests \in CodecSets /\ graph \in CodecGraphs
    /\ ici = [icb |-> FALSE, irv |-> FALSE, icoi |-> NoCommand, icii |-> NoCommand]
    /\ walk = NewWalk /\ path = NoPath /\ routed = {}
    /\ stream = [run |-> FALSE, lvi |-> 0, cbl |-> 0, pos |-> 0, before |-> 0, fetched |-> FALSE]
    /\ hdaBuf = "empty"
    /\ hdaBdl = [i \in 0..3 |-> "empty"]
    /\ hdaEnd = "none"
    /\ ac97 = [run |-> FALSE, dma |-> FALSE, civ |-> 0, lvi |-> 0, played |-> 0]
    /\ pcm = "zero"
    /\ bdl = [i \in 0..Entries - 1 |-> "empty"]
    /\ seen = [torn |-> FALSE, wild |-> FALSE, stale |-> FALSE, lost |-> 0]

(* The budget of spin_until. *)
Counted(n) == n + 1

Exhausted == spins + 1 >= SpinBudget

(* One more read that did not see the condition, within the budget. *)
SpinAgain == /\ ~Exhausted
             /\ spins' = Counted(spins)
             /\ UNCHANGED <<mode, bus, pc, hdaVars, ac97Vars, seen>>

----------------------------------------------------------------------------
(* HDA: probe, reset, rings. *)

ProbeHda ==
    /\ pc = "probe_hda"
    /\ hdaAt' = FirstSlot({i \in DOMAIN bus : HdaUsable(bus[i])})
    /\ IF hdaAt' = 0
       THEN /\ pc' = "select"
            /\ UNCHANGED crst
       ELSE /\ pc' = "reset_low"
            /\ crst' = [crst EXCEPT !.want = 0]
    /\ UNCHANGED <<mode, bus, spins, statests, graph, ici, walk, path, routed, stream,
                   hdaBuf, hdaBdl, hdaEnd, ac97Vars, seen>>

HdaGivesUp(report) ==
    /\ hdaEnd' = report /\ pc' = "select" /\ spins' = 0

(* hda_reset_controller: confirm the reset, then release it and confirm. *)
ResetController ==
    /\ pc \in {"reset_low", "reset_high"}
    /\ LET level == IF pc = "reset_low" THEN 0 ELSE 1
       IN \/ /\ crst.now = level
             /\ spins' = 0
             /\ pc' = IF level = 0 THEN "reset_high" ELSE "rings"
             /\ crst' = [crst EXCEPT !.want = 1]
             /\ UNCHANGED <<mode, bus, hdaAt, statests, graph, ici, walk, path, routed, stream,
                            hdaBuf, hdaBdl, hdaEnd, ac97Vars, seen>>
          \/ crst.now # level /\ SpinAgain
          \/ /\ crst.now # level /\ Exhausted
             /\ HdaGivesUp("init_failed")
             /\ UNCHANGED <<mode, bus, hdaAt, crst, statests, graph, ici, walk, path, routed,
                            stream, hdaBuf, hdaBdl, ac97Vars, seen>>

(* hda_setup_corb_rirb; a ring that is not mapped is the only way to fail: *)
(* the results of its own waits are not looked at.                         *)
SetupRings ==
    /\ pc = "rings"
    /\ \/ pc' = "enumerate" /\ UNCHANGED <<hdaEnd, spins>>
       \/ HdaGivesUp("init_failed")
    /\ UNCHANGED <<mode, bus, hdaAt, crst, statests, graph, ici, walk, path, routed, stream,
                   hdaBuf, hdaBdl, ac97Vars, seen>>

----------------------------------------------------------------------------
(* HDA: one codec command (hda_codec_command). *)

(* STATESTS = 0 is an error; otherwise the lowest address is enumerated. *)
BeginEnumeration ==
    /\ pc = "enumerate"
    /\ IF statests = {}
       THEN HdaGivesUp("codec_enum_failed") /\ UNCHANGED walk
       ELSE /\ pc' = "issue"
            /\ walk' = [NewWalk EXCEPT !.stage = "root",
                                       !.cad = CHOOSE c \in statests : \A d \in statests : c <= d]
            /\ UNCHANGED <<hdaEnd, spins>>
    /\ UNCHANGED <<mode, bus, hdaAt, crst, statests, graph, ici, path, routed, stream,
                   hdaBuf, hdaBdl, ac97Vars, seen>>

(* Mutant: a stale result-valid bit is not cleared. *)
IssuedStale == [ici EXCEPT !.icb = TRUE, !.icoi = Command]

(* Registers after clearing IRV, writing ICOI and setting ICB. *)
Issued == [ici EXCEPT !.icb = TRUE, !.irv = FALSE, !.icoi = Command]

Issue ==
    /\ pc = "issue" /\ ~ici.icb
    /\ ici' = Issued
    /\ pc' = "result" /\ spins' = 0
    /\ UNCHANGED <<mode, bus, hdaAt, crst, statests, graph, walk, path, routed, stream,
                   hdaBuf, hdaBdl, hdaEnd, ac97Vars, seen>>

(* The next command of hda_start_output, or its stream setup. *)
AfterOutput == IF walk.out = Len(OutputCommands)
               THEN pc' = "stream" /\ UNCHANGED walk
               ELSE pc' = "issue" /\ walk' = [walk EXCEPT !.out = @ + 1]

(* Either wait ran out.  Enumeration gives up (`?`), output carries on. *)
NoAnswer ==
    /\ \/ pc = "issue" /\ ici.icb
       \/ pc = "result" /\ ~ici.irv
    /\ \/ SpinAgain
       \/ /\ Exhausted
          /\ IF walk.stage = "output"
             THEN AfterOutput /\ spins' = 0 /\ UNCHANGED hdaEnd
             ELSE HdaGivesUp("codec_enum_failed") /\ UNCHANGED walk
          /\ seen' = [seen EXCEPT !.lost = 1]
          /\ UNCHANGED <<mode, bus, hdaAt, crst, statests, graph, ici, path, routed, stream,
                         hdaBuf, hdaBdl, ac97Vars>>

----------------------------------------------------------------------------
(* HDA: enumeration of the codec's output path (hda_enumerate_codec). *)

(* The next function group starts with no DAC and no pin. *)
NextGroup == [walk EXCEPT !.stage = "fg_type", !.fg = @ + 1, !.dac = NoWidget, !.pin = NoWidget]

FoundPath == [cad |-> walk.cad, afg |-> walk.fgStart + walk.fg, dac |-> walk.dac, pin |-> walk.pin]

(* The first output converter and the first pin complex are kept. *)
Classified(w, type) ==
    [w EXCEPT !.dac = IF type = WIDGET_OUTPUT /\ @ = NoWidget THEN w.wStart + w.w ELSE @,
              !.pin = IF type = WIDGET_PIN /\ @ = NoWidget THEN w.wStart + w.w ELSE @,
              !.w = @ + 1]

(* The walk after an answer; stage "done" when the loops are finished. *)
Walked(value) ==
    LET settled(w) == IF w.fg < w.fgCount THEN w ELSE [w EXCEPT !.stage = "done"]
        finished(w) == IF w.w < w.wCount THEN w
                       ELSE IF w.dac # NoWidget /\ w.pin # NoWidget
                            THEN [w EXCEPT !.stage = "found"]
                            ELSE settled(NextGroup)
    IN CASE walk.stage = "root" ->
              settled([walk EXCEPT !.stage = "fg_type", !.fgStart = value[1], !.fgCount = value[2]])
         [] walk.stage = "fg_type" ->
              IF value[1] = FG_AUDIO THEN [walk EXCEPT !.stage = "fg_nodes"] ELSE settled(NextGroup)
         [] walk.stage = "fg_nodes" ->
              finished([walk EXCEPT !.stage = "widget", !.wStart = value[1], !.wCount = value[2],
                                    !.w = 0])
         [] walk.stage = "widget" -> finished(Classified(walk, value[1]))

Result ==
    /\ pc = "result" /\ ici.irv
    /\ seen' = [seen EXCEPT !.stale = @ \/ ici.icii # Command]
    /\ spins' = 0
    /\ IF walk.stage = "output"
       THEN AfterOutput /\ UNCHANGED <<path, hdaEnd>>
       ELSE /\ walk' = Walked(Answer(ici.icii))
            /\ CASE walk'.stage = "found" -> /\ pc' = "fill_hda"
                                             /\ path' = [FoundPath EXCEPT !.dac = walk'.dac, !.pin = walk'.pin]
                                             /\ UNCHANGED hdaEnd
                 [] walk'.stage = "done" -> /\ pc' = "select" /\ hdaEnd' = "codec_enum_failed"
                                            /\ UNCHANGED path
                 [] OTHER -> pc' = "issue" /\ UNCHANGED <<path, hdaEnd>>
    /\ UNCHANGED <<mode, bus, hdaAt, crst, statests, graph, ici, routed, stream,
                   hdaBuf, hdaBdl, ac97Vars>>

----------------------------------------------------------------------------
(* HDA: output (hda_start_output). *)

(* hda_fill_boot_audio, in two parts so that an engine can come between;   *)
(* then the translation of the two static buffers, which may fail.         *)
FillHda ==
    /\ pc \in {"fill_hda", "filling_hda"}
    /\ IF pc = "fill_hda"
       THEN /\ hdaBuf' = "part" /\ pc' = "filling_hda"
            /\ UNCHANGED <<hdaBdl, walk, hdaEnd, spins>>
       ELSE /\ hdaBuf' = "boot"
            /\ \/ /\ hdaBdl' = [hdaBdl EXCEPT ![0] = "first_half", ![1] = "second_half"]
                  /\ walk' = [walk EXCEPT !.stage = "output", !.out = 1]
                  /\ pc' = "issue"
                  /\ UNCHANGED <<hdaEnd, spins>>
               \/ HdaGivesUp("pcm_failed") /\ UNCHANGED <<hdaBdl, walk>>
    /\ UNCHANGED <<mode, bus, hdaAt, crst, statests, graph, ici, path, routed, stream,
                   ac97Vars, seen>>

(* Stream registers when RUN is written: two entries, LVI 1, the whole buffer. *)
Programmed == [run |-> TRUE, lvi |-> 1, cbl |-> 2, pos |-> 0, before |-> 0, fetched |-> FALSE]

(* Reset the stream (waits not looked at), program it, set RUN, and read   *)
(* the first position.                                                     *)
StartStream ==
    /\ pc = "stream"
    /\ stream' = Programmed
    /\ pc' = "position"
    /\ UNCHANGED <<mode, bus, spins, hdaAt, crst, statests, graph, ici, walk, path, routed,
                   hdaBuf, hdaBdl, hdaEnd, ac97Vars, seen>>

(* The second read of the position, a delay later. *)
ConfirmPosition ==
    /\ pc = "position"
    /\ HdaGivesUp(IF stream.pos = stream.before THEN "pcm_failed" ELSE "playback")
    /\ UNCHANGED <<mode, bus, hdaAt, crst, statests, graph, ici, walk, path, routed, stream,
                   hdaBuf, hdaBdl, ac97Vars, seen>>

----------------------------------------------------------------------------
(* AC97 and the silent path. *)

AudioError == IF mode = "verify" THEN "panic" ELSE "skipped"

(* select_device: the first AC97 function decides, its BARs and the        *)
(* read-back of its command register included.                             *)
SelectDevice ==
    /\ pc = "select"
    /\ LET at == FirstSlot({i \in DOMAIN bus : IsAc97(bus[i])})
       IN /\ ac97At' = IF at # 0 /\ bus[at] \in {"ac97", "ac97_high_port"} THEN at ELSE 0
          /\ pc' = IF at # 0 /\ ac97At' = 0 THEN AudioError ELSE "driver"
    /\ UNCHANGED <<mode, bus, spins, hdaVars, ac97, pcm, bdl, seen>>

(* configure_ac97: a port past the end of the port space is an error.      *)
InitializeDriver ==
    /\ pc = "driver"
    /\ pc' = IF ac97At # 0 /\ bus[ac97At] = "ac97_high_port" THEN AudioError ELSE "buffers"
    /\ UNCHANGED <<mode, bus, spins, hdaVars, ac97Vars, seen>>

(* prepare_ac97_buffers: samples and descriptors cleared, both addresses   *)
(* translated (which may fail), then all descriptors over the one buffer.  *)
PrepareBuffers ==
    /\ pc = "buffers"
    /\ IF ac97At = 0
       THEN pc' = "play" /\ UNCHANGED <<pcm, bdl>>
       ELSE /\ pcm' = "zero"
            /\ \/ /\ bdl' = [i \in DOMAIN bdl |-> "pcm"]
                  /\ pc' = "play"
               \/ /\ bdl' = [i \in DOMAIN bdl |-> "empty"]
                  /\ pc' = AudioError
    /\ UNCHANGED <<mode, bus, spins, hdaVars, ac97At, ac97, seen>>

(* start_ac97_pcm: reset the engine, clear status, base, LVI, RUN. *)
Started == [run |-> TRUE, dma |-> TRUE, civ |-> 0, lvi |-> Entries - 1, played |-> 0]

(* play_fixed_pcm: fill (in two parts), then start. *)
PlayFixed ==
    /\ pc \in {"play", "playing"}
    /\ CASE ac97At = 0 -> pc' = "mix" /\ UNCHANGED <<pcm, ac97>>
         [] ac97At # 0 /\ pc = "play" -> pc' = "playing" /\ pcm' = "part" /\ UNCHANGED ac97
         [] OTHER -> pc' = "mix" /\ pcm' = "fixed" /\ ac97' = Started
    /\ UNCHANGED <<mode, bus, spins, hdaVars, ac97At, bdl, seen>>

(* mix_boot_audio: stop_ac97_pcm clears RUN and waits io_delay.            *)
StopPcm ==
    /\ pc = "mix"
    /\ IF ac97At = 0
       THEN pc' = "complete" /\ UNCHANGED ac97
       ELSE pc' = "mix_delay" /\ ac97' = [ac97 EXCEPT !.run = FALSE]
    /\ UNCHANGED <<mode, bus, spins, hdaVars, ac97At, pcm, bdl, seen>>

(* The controller is taken to halt within io_delay: the code does not read *)
(* the halted bit.                                                         *)
IoDelay ==
    /\ pc = "mix_delay"
    /\ ac97' = [ac97 EXCEPT !.dma = FALSE]
    /\ pc' = "mix_fill"
    /\ UNCHANGED <<mode, bus, spins, hdaVars, ac97At, pcm, bdl, seen>>

(* fill_mixed_pcm_buffer in two parts, then start_ac97_pcm. *)
MixAndStart ==
    /\ pc \in {"mix_fill", "mixing"}
    /\ IF pc = "mix_fill"
       THEN pc' = "mixing" /\ pcm' = "part" /\ UNCHANGED ac97
       ELSE pc' = "complete" /\ pcm' = "mixed" /\ ac97' = Started
    /\ UNCHANGED <<mode, bus, spins, hdaVars, ac97At, bdl, seen>>

----------------------------------------------------------------------------
(* The hardware's engines; external. *)

CrstFollows ==
    /\ crst.now # crst.want
    /\ crst' = [crst EXCEPT !.now = crst.want]
    /\ UNCHANGED <<mode, bus, pc, spins, hdaAt, statests, graph, ici, walk, path, routed, stream,
                   hdaBuf, hdaBdl, hdaEnd, ac97Vars, seen>>

(* The codec executes the command and answers; a codec that is not there,  *)
(* or is too slow, leaves ICB set.                                         *)
CodecAnswers ==
    /\ ici.icb /\ ici.icoi.cad \in statests
    /\ ici' = [ici EXCEPT !.icb = FALSE, !.irv = TRUE, !.icii = ici.icoi]
    /\ routed' = IF ici.icoi.verb = "get_param" THEN routed
                 ELSE routed \cup {<<ici.icoi.nid, ici.icoi.verb>>}
    /\ UNCHANGED <<mode, bus, pc, spins, hdaAt, crst, statests, graph, walk, path, stream,
                   hdaBuf, hdaBdl, hdaEnd, ac97Vars, seen>>

(* The HDA stream fetches the half its entry covers and moves on. *)
HdaFetches ==
    /\ stream.run
    /\ stream' = [stream EXCEPT !.pos = (@ + 1) % stream.cbl, !.fetched = TRUE]
    /\ seen' = [seen EXCEPT !.torn = @ \/ hdaBuf # "boot",
                            !.wild = @ \/ stream.pos > stream.lvi
                                       \/ hdaBdl[stream.pos] = "empty"]
    /\ UNCHANGED <<mode, bus, pc, spins, hdaAt, crst, statests, graph, ici, walk, path, routed,
                   hdaBuf, hdaBdl, hdaEnd, ac97Vars>>

(* The AC97 engine plays one descriptor; it halts after the last valid one.*)
Ac97Fetches ==
    /\ ac97.dma
    /\ ac97' = IF ac97.civ = ac97.lvi
               THEN [ac97 EXCEPT !.dma = FALSE, !.played = @ + 1]
               ELSE [ac97 EXCEPT !.civ = @ + 1, !.played = @ + 1]
    /\ seen' = [seen EXCEPT !.torn = @ \/ pcm = "part",
                            !.wild = @ \/ ac97.civ \notin DOMAIN bdl
                                       \/ (ac97.civ \in DOMAIN bdl /\ bdl[ac97.civ] = "empty")]
    /\ UNCHANGED <<mode, bus, pc, spins, hdaVars, ac97At, pcm, bdl>>

----------------------------------------------------------------------------
Ends == {"complete", "skipped", "panic"}

Driver ==
    \/ ProbeHda \/ ResetController \/ SetupRings \/ BeginEnumeration
    \/ Issue \/ NoAnswer \/ Result
    \/ FillHda \/ StartStream \/ ConfirmPosition
    \/ SelectDevice \/ InitializeDriver \/ PrepareBuffers \/ PlayFixed
    \/ StopPcm \/ IoDelay \/ MixAndStart

Ended == pc \in Ends /\ UNCHANGED vars

Next == Driver \/ CrstFollows \/ CodecAnswers \/ HdaFetches \/ Ac97Fetches \/ Ended

Spec == Init /\ [][Next]_vars /\ WF_vars(Driver)

----------------------------------------------------------------------------
(* Properties. *)

(* The driver's place, the immediate command registers and the engines'    *)
(* indices stay in their ranges.                                           *)
TypeOK ==
    /\ pc \in Ends \cup {"probe_hda", "reset_low", "reset_high", "rings", "enumerate", "issue",
                         "result", "fill_hda", "filling_hda", "stream", "position", "select",
                         "driver", "buffers", "play", "playing", "mix", "mix_delay", "mix_fill",
                         "mixing"}
    /\ spins \in 0..SpinBudget
    /\ hdaEnd \in {"none", "init_failed", "codec_enum_failed", "pcm_failed", "playback"}
    /\ ac97.lvi < Entries

(* Neither engine ever reads a sample buffer that the driver is part way   *)
(* through filling (fill_mixed_pcm_buffer: "`PCM_BUFFER` is stopped before *)
(* being rewritten"), though the engines run beside the driver.            *)
NoTornSamples == ~seen.torn

(* Neither engine follows a descriptor that was never filled or that lies  *)
(* past the list: LVI, the list and the buffer length agree.               *)
FetchesDescribed == ~seen.wild

(* A response read from ICII answers the command just issued, although an  *)
(* earlier command may have timed out and be answered later.               *)
AnswersMatchCommands == ~seen.stale

Widgets(group) == group.start..(group.start + group.count - 1)

(* Audio function groups of the codec that hold a DAC and a pin. *)
OutputGroups ==
    LET root == graph[0]
    IN {g \in root.start..(root.start + root.count - 1) :
          /\ graph[g].type = FG_AUDIO
          /\ \E d, p \in Widgets(graph[g]) :
                graph[d].type = WIDGET_OUTPUT /\ graph[p].type = WIDGET_PIN}

(* Enumeration resolves a DAC and a pin of one audio function group, and   *)
(* fails with every command answered only when no group holds both.        *)
EnumerationResolves ==
    /\ path # NoPath => /\ path.afg \in OutputGroups
                        /\ {path.dac, path.pin} \subseteq Widgets(graph[path.afg])
                        /\ graph[path.dac].type = WIDGET_OUTPUT
                        /\ graph[path.pin].type = WIDGET_PIN
    /\ (hdaEnd = "codec_enum_failed" /\ seen.lost = 0 /\ statests # {}) => OutputGroups = {}

(* Playback is reported only while samples are fetched, and, when every    *)
(* codec command was answered, with the DAC tagged with the stream and the *)
(* pin driven.                                                             *)
PlaybackIsRouted ==
    hdaEnd = "playback" =>
        /\ stream.fetched
        /\ seen.lost = 0 => {<<path.dac, "stream_channel">>, <<path.pin, "pin_ctl">>} \subseteq routed

(* After the mix, an engine that has halted by itself has played exactly   *)
(* the frames that mix_boot_audio reports (Entries buffers), all mixed.    *)
MixPlayedInFull ==
    (pc = "complete" /\ ac97At # 0 /\ ~ac97.dma) => ac97.played = Entries /\ pcm = "mixed"

=============================================================================
