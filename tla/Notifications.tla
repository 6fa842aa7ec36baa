---------------------------- MODULE Notifications ----------------------------
(***************************************************************************)
(* The notifications of the panel (zashboard/src/helper/notification.ts):  *)
(* alerts known by a key, each with a timer that removes it; a second call *)
(* with the key of an alert on display changes that alert, and the mouse   *)
(* over an alert stops its timer.                                          *)
(***************************************************************************)
EXTENDS Integers, FiniteSets

CONSTANTS
  AlertKeys,  \* keys, or contents where no key is given
  MaxShows,   \* bound: calls of showNotification
  MaxHovers   \* bound: times the mouse enters an alert

\* What the constants are: assumed where they get their values.
NotificationsAssumption == AlertKeys # {} /\ MaxShows \in Nat /\ MaxHovers \in Nat

VARIABLES
  hasToast,   \* initNotification has given the element alerts are put in
  alertMap,   \* key -> [alert, timer, isPaused, remaining]
  onScreen,   \* the alerts in that element
  alertKey,   \* alert -> the key its buttons and listeners use
  running,    \* the timers that run: [timer, key, alert], what each is to remove
  over,       \* the alert under the mouse; 0: none
  nextTimer,  \* the number of the next timer
  shows, hovers  \* counters of the bounds; an alert has the number of the call that made it

notifVars == <<hasToast, alertMap, onScreen, alertKey, running, over, nextTimer, shows, hovers>>

NoTimer == -1
Empty == [k \in {} |-> 0]
Remaining == {"whole", "part", "negative"}

NotificationsInit ==
  /\ hasToast = FALSE /\ alertMap = Empty /\ onScreen = {} /\ alertKey = Empty
  /\ running = {} /\ over = 0 /\ nextTimer = 1
  /\ shows = 0 /\ hovers = 0

\* initNotification, when the application is mounted.
initNotification ==
  /\ ~hasToast /\ hasToast' = TRUE
  /\ UNCHANGED <<alertMap, onScreen, alertKey, running, over, nextTimer, shows, hovers>>

-----------------------------------------------------------------------------
With(f, k, v) == [x \in DOMAIN f \union {k} |-> IF x = k THEN v ELSE f[x]]
Less(f, k) == [x \in DOMAIN f \ {k} |-> f[x]]
OtherTimers(timer) == {r \in running : r.timer # timer}

\* alert.remove(): the mouse is no longer over it.
RemoveAlert(alert) ==
  /\ onScreen' = onScreen \ {alert}
  /\ over' = IF over = alert THEN 0 ELSE over

\* setTimer, with the old timer of the alert cleared: a timeout of 0 starts none.
setTimer(key, alert, old, lasts) ==
  LET timer == IF lasts THEN NoTimer ELSE nextTimer
  IN  /\ alertMap' = With(alertMap, key,
           [alert |-> alert, timer |-> timer, isPaused |-> FALSE,
            remaining |-> IF lasts THEN "none" ELSE "whole"])
      /\ running' = OtherTimers(old) \union
                    (IF lasts THEN {} ELSE {[timer |-> timer, key |-> key, alert |-> alert]})
      /\ nextTimer' = IF lasts THEN nextTimer ELSE nextTimer + 1

\* showNotification with a key that is on the map: its alert gets the new content and a new
\* timer, whatever the mouse does.
ShowAgain(key, lasts) ==
  /\ key \in DOMAIN alertMap
  /\ setTimer(key, alertMap[key].alert, alertMap[key].timer, lasts)
  /\ UNCHANGED <<onScreen, alertKey>>

\* With a new one: a new alert, put on top if there is an element for it.
ShowNew(key, lasts) ==
  /\ key \notin DOMAIN alertMap
  /\ onScreen' = IF hasToast THEN onScreen \union {shows + 1} ELSE onScreen
  /\ alertKey' = With(alertKey, shows + 1, key)
  /\ setTimer(key, shows + 1, NoTimer, lasts)

showNotification(key, lasts) ==
  /\ shows < MaxShows /\ shows' = shows + 1
  /\ ShowAgain(key, lasts) \/ ShowNew(key, lasts)
  /\ UNCHANGED <<hasToast, over, hovers>>

\* A timer ends: its key leaves the map and its alert the screen.
TimerEnds ==
  /\ \E r \in running :
       /\ running' = running \ {r}
       /\ alertMap' = Less(alertMap, r.key)
       /\ RemoveAlert(r.alert)
  /\ UNCHANGED <<hasToast, alertKey, nextTimer, shows, hovers>>

\* mouseenter, pauseTimer: the timer is cleared and what is left of its time kept; of an
\* alert that has no timer less than nothing is left.
pauseTimer ==
  /\ hovers < MaxHovers /\ hovers' = hovers + 1
  /\ over = 0
  /\ \E alert \in onScreen :
       LET key == alertKey[alert]
       IN  /\ over' = alert
           /\ IF key \in DOMAIN alertMap /\ ~alertMap[key].isPaused
              THEN /\ running' = OtherTimers(alertMap[key].timer)
                   /\ alertMap' = [alertMap EXCEPT
                        ![key].isPaused = TRUE,
                        ![key].remaining = IF @ \in {"none", "negative"} THEN "negative"
                                           ELSE "part"]
              ELSE UNCHANGED <<running, alertMap>>
  /\ UNCHANGED <<hasToast, onScreen, alertKey, nextTimer, shows>>

\* Mutant: the timer it starts is not kept.
resumeTimer_Forgets ==
  /\ over # 0 /\ over' = 0
  /\ LET key == alertKey[over]
     IN  IF key \in DOMAIN alertMap /\ alertMap[key].isPaused
         THEN /\ alertMap' = [alertMap EXCEPT ![key].isPaused = FALSE]
              /\ running' = running \union
                            {[timer |-> nextTimer, key |-> key, alert |-> alertMap[key].alert]}
              /\ nextTimer' = nextTimer + 1
         ELSE UNCHANGED <<alertMap, running, nextTimer>>
  /\ UNCHANGED <<hasToast, onScreen, alertKey, shows, hovers>>

\* mouseleave, resumeTimer: a timer starts for what is left, at once over if that is nothing.
resumeTimer ==
  /\ over # 0 /\ over' = 0
  /\ LET key == alertKey[over]
     IN  IF key \in DOMAIN alertMap /\ alertMap[key].isPaused
         THEN /\ alertMap' = [alertMap EXCEPT ![key].isPaused = FALSE, ![key].timer = nextTimer]
              /\ running' = running \union
                            {[timer |-> nextTimer, key |-> key, alert |-> alertMap[key].alert]}
              /\ nextTimer' = nextTimer + 1
         ELSE UNCHANGED <<alertMap, running, nextTimer>>
  /\ UNCHANGED <<hasToast, onScreen, alertKey, shows, hovers>>

\* The close button, under the mouse.
closeAlert ==
  /\ over # 0
  /\ LET key == alertKey[over]
     IN  IF key \in DOMAIN alertMap
         THEN running' = OtherTimers(alertMap[key].timer) /\ alertMap' = Less(alertMap, key)
         ELSE UNCHANGED <<running, alertMap>>
  /\ RemoveAlert(over)
  /\ UNCHANGED <<hasToast, alertKey, nextTimer, shows, hovers>>

NotificationsNext ==
  \/ initNotification
  \/ \E key \in AlertKeys, lasts \in BOOLEAN : showNotification(key, lasts)
  \/ TimerEnds \/ pauseTimer \/ resumeTimer \/ closeAlert

NotificationsSpec == NotificationsInit /\ [][NotificationsNext]_notifVars

-----------------------------------------------------------------------------
(* The type of the notifications. *)
NotificationsTypeOK ==
  /\ hasToast \in BOOLEAN /\ onScreen \subseteq DOMAIN alertKey /\ over \in onScreen \union {0}
  /\ DOMAIN alertKey \subseteq 1 .. MaxShows
  /\ \A a \in DOMAIN alertKey : alertKey[a] \in AlertKeys
  /\ DOMAIN alertMap \subseteq AlertKeys
  /\ \A k \in DOMAIN alertMap :
       /\ alertMap[k].alert \in DOMAIN alertKey /\ alertMap[k].isPaused \in BOOLEAN
       /\ alertMap[k].timer \in (1 .. nextTimer - 1) \union {NoTimer}
       /\ alertMap[k].remaining \in Remaining \union {"none"}
  /\ \A r \in running : r.timer \in 1 .. nextTimer - 1 /\ r.key \in AlertKeys
  /\ nextTimer \in Nat /\ shows \in 0 .. MaxShows /\ hovers \in 0 .. MaxHovers

(* Every alert on the screen is the one its key has on the map, so that it can be changed and *)
(* closed; a timer that runs removes the alert of its key, and it is the one the map has; and *)
(* an alert stays for good only if it has no timeout or the mouse is over it: whatever calls, *)
(* timers and the mouse do in between (notification.ts:22-88, 146-161).                       *)
AlertsTimed ==
  /\ \A a \in onScreen : alertKey[a] \in DOMAIN alertMap /\ alertMap[alertKey[a]].alert = a
  /\ \A r \in running : /\ r.key \in DOMAIN alertMap
                        /\ alertMap[r.key].alert = r.alert /\ alertMap[r.key].timer = r.timer
  /\ \A k \in DOMAIN alertMap :
       LET e == alertMap[k]
       IN  \/ \E r \in running : r.key = k
           \/ e.isPaused /\ over = e.alert
           \/ e.timer = NoTimer /\ e.remaining = "none"
=============================================================================
