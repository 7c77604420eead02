-------------------------------- MODULE Panel --------------------------------
(***************************************************************************)
(* The two messages the bot keeps in a private chat (telegram/panel.py):   *)
(* the anchor that carries the reply keyboard and the panel whose text     *)
(* every handler edits.  Handlers run at once; each reads the stored id    *)
(* before it talks to Telegram and stores one after.                       *)
(***************************************************************************)
EXTENDS Integers, FiniteSets, FiniteSetsExt

CONSTANTS
  Screen,       \* handlers that may run at once
  MaxMessage    \* bound of the model: messages sent

ASSUME ScreenAssumption == IsFiniteSet(Screen) /\ MaxMessage \in Nat

\* Telegram numbers messages; 0 stands for none.
Message == 1..MaxMessage

VARIABLES
  anchors, panels,  \* the messages of either kind that are in the chat
  sent,             \* how many messages were sent
  stored,           \* the columns of the user's row
  screen            \* [Screen -> ...]: phase, the id read, the id sent

panelVars == <<anchors, panels, sent, stored, screen>>

NoScreen == [phase |-> "idle", old |-> 0, new |-> 0]

PanelInit ==
  /\ anchors = {} /\ panels = {} /\ sent = 0
  /\ stored = [anchor |-> 0, panel |-> 0]
  /\ screen = [h \in Screen |-> NoScreen]

Goes(h, phase) == screen' = [screen EXCEPT ![h].phase = phase]

-----------------------------------------------------------------------------
(* replace_menu_anchor.                                                    *)

ReadAnchor(h) ==
  /\ screen[h] = NoScreen
  /\ screen' = [screen EXCEPT ![h].phase = "anchor", ![h].old = stored.anchor]
  /\ UNCHANGED <<anchors, panels, sent, stored>>

SendAnchor(h) ==
  /\ screen[h].phase = "anchor" /\ sent < MaxMessage
  /\ sent' = sent + 1
  /\ anchors' = anchors \cup {sent'}
  /\ screen' = [screen EXCEPT ![h].phase = "saveAnchor", ![h].new = sent']
  /\ UNCHANGED <<panels, stored>>

SaveAnchor(h) ==
  /\ screen[h].phase = "saveAnchor"
  /\ stored' = [stored EXCEPT !.anchor = screen[h].new]
  /\ Goes(h, "clean")
  /\ UNCHANGED <<anchors, panels, sent>>

\* Faulty: whatever anchor the row names is cleaned up.
Stale(h) == stored.anchor

Old(h) == screen[h].old

\* The old anchor goes last; Telegram may not delete it.
CleanAnchor(h) ==
  /\ screen[h].phase = "clean"
  /\ anchors' \in {anchors, anchors \ {Old(h)}}
  /\ screen' = [screen EXCEPT ![h] = NoScreen]
  /\ UNCHANGED <<panels, sent, stored>>

-----------------------------------------------------------------------------
(* show_or_edit_panel.                                                     *)

\* The target is the message whose button was pressed, or the stored one.
ReadPanel(h, force) ==
  /\ screen[h] = NoScreen
  /\ \E target \in panels \cup {stored.panel} :
       screen' = [screen EXCEPT ![h].phase = IF target = 0 THEN "send"
                                             ELSE IF force THEN "move" ELSE "edit",
                                ![h].old = target]
  /\ UNCHANGED <<anchors, panels, sent, stored>>

\* force_send: the old panel is deleted first, if Telegram does.
DeletePanel(h) ==
  /\ screen[h].phase = "move"
  /\ panels' \in {panels, panels \ {Old(h)}}
  /\ Goes(h, "send")
  /\ UNCHANGED <<anchors, sent, stored>>

\* A message that is gone, or that may not be edited any more, is replaced.
EditPanel(h) ==
  /\ screen[h].phase = "edit"
  /\ \/ Old(h) \in panels
        /\ screen' = [screen EXCEPT ![h].phase = "savePanel", ![h].new = Old(h)]
     \/ Goes(h, "send")
  /\ UNCHANGED <<anchors, panels, sent, stored>>

SendPanel(h) ==
  /\ screen[h].phase = "send" /\ sent < MaxMessage
  /\ sent' = sent + 1
  /\ panels' = panels \cup {sent'}
  /\ screen' = [screen EXCEPT ![h].phase = "savePanel", ![h].new = sent']
  /\ UNCHANGED <<anchors, stored>>

SavePanel(h) ==
  /\ screen[h].phase = "savePanel"
  /\ stored' = [stored EXCEPT !.panel = screen[h].new]
  /\ screen' = [screen EXCEPT ![h] = NoScreen]
  /\ UNCHANGED <<anchors, panels, sent>>

\* Any other refusal by Telegram of a message or an edit ends the handler.
Refused(h) ==
  /\ screen[h].phase \in {"anchor", "edit", "send"}
  /\ screen' = [screen EXCEPT ![h] = NoScreen]
  /\ UNCHANGED <<anchors, panels, sent, stored>>

PanelNext ==
  \E h \in Screen :
    \/ ReadAnchor(h) \/ SendAnchor(h) \/ SaveAnchor(h) \/ CleanAnchor(h)
    \/ \E force \in BOOLEAN : ReadPanel(h, force)
    \/ DeletePanel(h) \/ EditPanel(h) \/ SendPanel(h) \/ SavePanel(h) \/ Refused(h)

-----------------------------------------------------------------------------
(* Properties.                                                             *)

PanelTypeOK ==
  /\ anchors \cup panels \subseteq 1..sent /\ anchors \cap panels = {}
  /\ sent \in 0..MaxMessage
  /\ stored \in [anchor: Message \cup {0}, panel: Message \cup {0}]
  /\ \A h \in Screen :
       /\ screen[h].phase \in {"idle", "anchor", "saveAnchor", "clean", "move", "edit",
                               "send", "savePanel"}
       /\ {screen[h].old, screen[h].new} \subseteq Message \cup {0}

\* Once the reply keyboard is there it stays: however many handlers replace its
\* anchor at once, the newest is never the one that is cleaned up
\* (panel.py:103).
KeyboardStays == stored.anchor # 0 => anchors # {} /\ Max(anchors) >= stored.anchor

=============================================================================
