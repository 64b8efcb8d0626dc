----------------------------- MODULE WifiConnect -----------------------------
(***************************************************************************)
(* Joining the Wi-Fi network before an update is installed                 *)
(* (main/mesh_wifi_connect.c): app_main starts the station, creates a      *)
(* semaphore and waits on it without a timeout; the event task gives it    *)
(* when the station has an address.  The network is external.              *)
(***************************************************************************)
EXTENDS Integers

VARIABLE wifi  \* see Joining

NoSemaphore == -1

\* task is where app_main is in mesh_wifi_connect; semaphore is
\* s_semph_get_ip_addrs, or its count; station is what the driver does.
Joining ==
  [task : {"idle", "started", "waiting", "connected"},
   semaphore : {NoSemaphore, 0, 1},
   station : {"stopped", "connecting", "up"}]

Off == [task |-> "idle", semaphore |-> NoSemaphore, station |-> "stopped"]

\* The first half of start(): wifi_start registers the handlers and connects ...
Start ==
  /\ wifi.task = "idle"
  /\ wifi' = [wifi EXCEPT !.task = "started", !.station = "connecting"]

\* ... the second half creates the semaphore, for one interface.
CreateSemaphore ==
  /\ wifi.task = "started"
  /\ wifi' = [wifi EXCEPT !.task = "waiting", !.semaphore = 0]

\* (mutant) the count is reset after the wait has begun
TakeNever ==
  /\ wifi.task = "waiting" /\ wifi.semaphore > 1
  /\ wifi' = [wifi EXCEPT !.task = "connected", !.semaphore = @ - 1]

\* xSemaphoreTake(s_semph_get_ip_addrs, portMAX_DELAY) returns.
Take ==
  /\ wifi.task = "waiting" /\ wifi.semaphore > 0
  /\ wifi' = [wifi EXCEPT !.task = "connected", !.semaphore = @ - 1]

\* on_got_ip, on the event task; a second address leaves the count at one.
GotIp ==
  /\ wifi.station = "connecting" /\ wifi.semaphore # NoSemaphore
  /\ wifi' = [wifi EXCEPT !.station = "up", !.semaphore = 1]

\* on_got_ip before start() has created the semaphore: xSemaphoreGive asserts.
GivesToNothing == wifi.station = "connecting" /\ wifi.semaphore = NoSemaphore

\* on_wifi_disconnect connects again.
Reconnect ==
  /\ wifi.station = "up"
  /\ wifi' = [wifi EXCEPT !.station = "connecting"]

Next == Start \/ CreateSemaphore \/ Take \/ GotIp \/ Reconnect
=============================================================================
