# A specification of the EC801E/HID firmware and its echo server

This directory models, in TLA+, the firmware that CMake builds from
`src/main_ec801e_hid.c` and the Go server in `cmd/gpsce`. An ESP32-S3 shows a USB
host a small FAT disk with one file, `hosts.txt`. When the host ejects the disk the
firmware reads the file, probes the address in it over a 4G modem, and makes it the
*active address* if the probe connects. The active address lives in RAM and in a
private flash partition. At boot the firmware runs a session against an echo server:
it sends a telemetry frame and checks the echo. The frame is packed by the bitproto
codec. Two more programs of the same sources are modelled: the polling firmware
`main_hid.c`, and `main_chip_info.c`, which shows texts and pictures on an e-paper panel.

Paths below are relative to the repository; line numbers are those of `PROJECT.json`.

- [Parts of the system](#parts-of-the-system)
- [Modules](#modules)
- [Runs](#runs)
- [Fairness](#fairness)
- [Proofs](#proofs)
- [Where the code and its documents disagree](#where-the-code-and-its-documents-disagree)
- [What is not modelled](#what-is-not-modelled)
- [Plan](#plan)

## Parts of the system

### Active-address store, `src/serv_addr.c`

*State.* `g_active_addr`, `g_active_valid`; one checksummed record in
`activeaddr_partition`.
*Operations.* `serv_addr_init` restores the record or adopts the content of `hosts.txt`;
`serv_addr_try_promote` probes a candidate and saves it; `get_serv_addr` reads. A save
is an erase followed by a write.
*Used by* main, at boot and after an eject; *uses* flash and the socket API.
*Hard.* Power may fail between erase and write; each flash call may fail; a failed save
leaves flash and RAM different; a failed read looks like a missing record.
*Correct when* a restart finds the running address or nothing, never a third one; when
nothing runs that neither answered a probe nor was adopted for want of a record; and
when a refused, unreachable or unsaved candidate leaves the running address alone.

### HID firmware, `src/main_ec801e_hid.c`, and USB glue, `src/usb.c`

*State.* The mount; `hosts_refresh_pending`, `usb_host_connected`, `last_host_value`,
`serv_ip`, `serv_port`, `sync_sem`; the stack buffer `host[80]` of `consumer_thread`.
*Operations.* Boot (`setup_flash_disk`, `setup_usb_msc`), up to three session attempts,
then the loop around `refresh_hosts_if_needed`; `consumer_thread` on every eject; the USB
callbacks `usb_msg_cb` and `usbd_msc_medium_event`; and the host, which writes raw
sectors below the firmware's file system.
*Hard.* Three actors and no lock. main (priority 0) and consumer (priority 7) share the
disk and `serv_ip`/`serv_port`; the USB thread sets flags at any moment; the host changes
the disk under a mounted FAT; several early returns come after the flag is cleared.
*Correct when* no eject is lost, every eject is eventually processed, the store is called
in the order it needs, and the recorded address outlives a disk that is formatted, emptied
or read half way.

### Socket offload and EC801E driver, `drivers/ec801e/`

*State.* `g_ctx` (one socket: allocated, connected, protocol, peer), `g_dns_result`;
`ec801e_socket_opened`, `ec801e_stack_ready` in the driver; and, in the modem, connection 0
and the PDP context.
*Operations.* socket, connect, send, recv, close, getaddrinfo, each a short AT conversation;
options and getpeername; bring-up of the modem before the first connect or lookup.
*Hard.* Three layers each keep their own idea of the connection, and the modem answers
late, not at all, or restarts. `AT+QICLOSE` goes unchecked, a dial may complete after
its connect has given up, and a stale `+QIOPEN` waits in the UART.
*Correct when* the layers agree, a connected socket talks to the peer it asked for, and
the modem holds no connection behind the driver's back unless it failed to answer.

### Modem bring-up and AT link, `drivers/ec801e/ec801e.c`

*State.* The UART with its unread bytes and its baud rate, `ec801e_uart_verified`,
`ec801e_stack_ready`, and the locals of a deep call tree: tries, deadline, reboot hits.
*Operations.* `ec801e_socket_stack_init`: self-test, baud probing, power cycles, `ATE0` and
`CPIN`, registration, PDP activation, each step an exchange of the AT link
(`cmd_expect_retry`, `cmd_expect`, `wait_response`, `drain_rx`).
*Hard.* Nothing in an answer says which command it answers; answers are left over, late,
lost or garbled; the modem restarts in the middle; recovery calls back into the boot code.
*Correct when* bring-up ends, and its success means registration and a PDP context.

### Round trip client, `src/drone.c`, `bitproto/socket_utls.c`, `bitproto/protocol_utls.c`

*State.* Locals of `run_roundtrip_session` and the buffers of `recv_all`.
*Operations.* connect, `write_frame` (header, payload), `read_frame`, comparison, close.
*Hard.* Data lost between modem and UART, an end of stream that is never reported,
deadlines, and one socket for everybody, so that a forgotten close is fatal.
*Correct when* success means a true echo, no attempt leaks the socket, and every
session ends.

### Echo server, `cmd/gpsce/main.go`

*State.* Per connection a goroutine in `serveConnection`; an accept counter in `main`.
*Operations.* accept with retries; read a frame, write it back, `-rounds` times.
*Hard.* Partial reads and writes that time out half way and are retried; the client chooses
the length of every payload.
*Correct when* frames come back whole, in order and on their own connection, and no
client keeps a connection for ever while replies go out.

### bitproto codec, `src/bitproto/bitproto.c`, `drone_bp.c`, `frameheader_bp.c`

*State.* Two contexts on the stack: the position in the wire buffer while encoding or
decoding, the text while printing.
*Operations.* `EncodeX`, `DecodeX`, `JsonX`: a walk over generated descriptors in which every
field, element and header ends in `BpCopyBufferBits`.
*Hard.* The copy mixes words of 32, 16 and 8 bits with partial bytes, depending on where a
field happens to lie; merging only sets bits; arrays have a fast path; signs of odd
widths are restored afterwards; versions of a message may differ.
*Correct when* the wire holds every value cut to its width and nothing else, a decoder
gets back what was encoded, and no byte outside the buffers is touched.

### Polling firmware, `src/main_hid.c`

*State.* The mount, `last_host_value`, `host_value_valid`.
*Operations.* Boot as above; then every three seconds unmount, mount, read `hosts.txt`, and
hand a text that differs to `serv_addr_try_promote`.
*Hard.* No event says when the PC has finished writing: a poll sees pieces; a failed remount
leaves nothing mounted; what a poll has remembered is not tried again.
*Correct when* the store is called in the order it needs and no text that a poll picks up costs the
recorded address unless it answers, and when an edit that stays is tried.

### e-paper driver, `src/epd200x200.c`, and `src/main_chip_info.c`

*State.* `epd_framebuf`, the two spacings; in the panel: registers, cursor, picture memory,
what is shown, BUSY; in main: the hue and breath of the light.
*Operations.* init, clear, the three demos; each draws and then sends a script of
commands and data, and waits for BUSY.
*Hard.* Every transfer and pin may fail in the middle; the wait may give up while the panel
still refreshes and ignores what it is sent; texts are arbitrary bytes; coordinates
may be negative or beyond the screen.
*Correct when* what is drawn is the text or shape asked for, cut at the edges, a call that
returns 0 has shown it, and every call returns.

### The rest

Modem diagnostics and the HTTP trace (`main_ec801e.c`), the table of glyphs
(`zpix12_font_data.c`), and the font tools. See [What is not modelled](#what-is-not-modelled).

```
  PC --raw sectors--> disk <--FatFs-- main ----------> serv_addr.c --> flash
   |                    ^              |                   |
   +--eject--> USB thread --sync_sem-> consumer            | zsock_*
                 |                     | serv_ip/port      v
                 +-- refresh_pending   +--> session --> offload --> driver ~~AT~~> modem
                                                                                  |
                                                          main.go <----TCP--------+
```

## Modules

| Module | Models | Role |
|---|---|---|
| `FailBack` | the promise of `serv_addr.c` | abstract specification |
| `ServAddr` | `serv_addr.c` | component; implements `FailBack` |
| `ServAddrProofs` | | theorems about `ServAddr` |
| `HostsFile` | what both firmwares do with `hosts.txt` and the store | extended by `HidMain` and `HidPolling`; `SA == INSTANCE ServAddr` |
| `HidMain` | `main_ec801e_hid.c`, `usb.c` | composes main, consumer, host and power with the store |
| `MCHidMain` | | hosts, ports and lines for TLC |
| `SocketOffload` | offload layer, driver sockets, modem connection 0 | component |
| `SocketOffloadProofs` | | theorems about `SocketOffload` |
| `AtLink` | the AT exchange of `ec801e.c` over one UART | component, extended by `ModemBringup` |
| `ModemBringup` | `ec801e_socket_stack_init` and all it calls | component |
| `ModemBringupProofs` | | theorems about `ModemBringup` |
| `EchoServer` | `main.go` | component |
| `MCEchoServer` | | headers and the lengths they announce for TLC |
| `EchoServerProofs` | | theorems about `EchoServer` |
| `Roundtrip` | `drone.c` and its helpers | composes `SO == INSTANCE SocketOffload` and `ES == INSTANCE EchoServer` |
| `RoundtripProofs` | | theorems about `Roundtrip`, on top of `SocketOffloadProofs` and `EchoServerProofs` |
| `BitCopy` | `BpCopyBufferBits` | component |
| `BitCopyProofs` | | theorems about `BitCopy` |
| `Codec` | the rest of `bitproto.c` | extends `BitCopy`, and implements its specification |
| `DroneBp` | `drone_bp.c`, `frameheader_bp.c` | the descriptors of the repository |
| `MCCodec` | | further types for TLC |
| `HidPolling` | `main_hid.c` | composes main, PC and power with the store |
| `FirmwareProofs` | | theorems about `HidMain` and, with `Poll == INSTANCE HidPolling`, about `HidPolling` |
| `MCHidPolling` | | hosts, ports and lines for TLC |
| `EpdDraw` | the drawing half of `epd200x200.c` | operators |
| `Epd` | the other half, the panel, `main_chip_info.c` | component |
| `EpdLayout` | what a page of text must look like | extends `Epd`; reference definitions and `TextIsLaidOut` |
| `EpdProofs` | | theorems about `EpdDraw`, `Epd` and `EpdLayout` |
| `MCEpd` | | a small display, glyphs, texts and shapes for TLC |

### ServAddr and FailBack

`pc` is the progress of the one call that can be under way (both calls come from main).
Erase, write and the RAM update are separate steps, and `PowerLoss` may come before,
between or within them: within an erase it leaves the old record, a blank or a torn
partition. With `FlashFaults` any flash call may return an error, with no effect, a partial one, or
the whole: a write may be reported as failed although the record is complete. Then flash holds a
candidate that the caller was refused; `misreported` is the history that says so.
Neither call looks at `pc`, as in the code: a caller could begin a second call during a first, or promote
before init. That none does is an assumption of `SANext`, in whose disjuncts the guards stand,
and it is proved of both firmwares (`StoreUsedLegally`, `PollingUsesStoreLegally`).
A `hosts.txt` line is an `Addr` (accepted by `parse_host_port`), a `Malformed` line or
the empty text. A malformed line can become active at boot, as in the code, but never
by promotion. DNS, socket and connect of a probe are one step, because none of
them touches the store.

`answered` and `adopted` are histories: the addresses that answered a probe, and those a
boot took over because it read no record. `FailBack` forgets calls and flash layout: the
running address is only set to what is stored, a stored one is given up before
another is stored, and while an address runs only one that answered is stored.
The mapping is `running <- active if valid`, `stored <- flash if intact`.

### HidMain

`mpc` walks main from `mount` through the boot to the loop; every early return is a disjunct.
`disk` is `hosts.txt` on the raw disk and `view` what the firmware's FatFs has cached since
it mounted. A refresh, having just mounted, reads the disk itself; consumer, which never
remounts, sees `view`, `disk` or an error. The two `read_hosts` in a row of the
refresh are one step; a read that mixes old and new sectors of one file is left out,
since the firmware reads at most 127 bytes of the first sector.

`MainBlocked` is the scheduling: main's priority 0 beats consumer's 7 on one core, so
consumer runs only while main sleeps or waits for the modem, and main may resume between
any two consumer steps. The callbacks of the USB thread are atomic but come between any
two steps. `serv_ip` is either the compiled-in literal or a pointer into consumer's stack
(`ipIsStack`), so it changes whenever `stackHost` is parsed over. `parse_host_port` fills
the host before it rejects the port, and the model does the same.
`host_value_valid` is true from the first read at boot and has no effect after it.
`SetupUsbMsc` is the registration of descriptors and classes between the boot of the disk
and the first session: it works, and from then on the host can act, or it ends main.
`PowerCut` resets RAM by `PowerOn` and cuts the store short by `SA!PowerLoss`. The default line is
written over what there is (`Filled`); power lost while it is written, or an error of that write, leaves
`hosts.txt` as it was, or created but empty, or a mixture (`HalfFilled`).
Main calls the store's actions without asking where it is: `BootReads` and `RereadPromotes` are
enabled by main's own control alone.

`unsure` is a history: the host has written since it last ejected, or a refresh gave up on
an error. Neither is an eject the firmware could have processed. The code has no retry after an error
and takes no notice of a pulled cable, so the properties about ejects claim nothing there.
`typed` is the history of what the host has put on the disk since the power came on.

### SocketOffload

`op` is the connect under way: `qiclose`, `qiopen` for TCP; `sslcfg`, `ssl1`, `ssl2` for
TLS, whose configuration commands are one step. `urc` is the one `+QIOPEN` result that
may wait in the UART; every command is preceded by `drain_rx`, which throws it away.
Modem steps (`LinkOpens`, `LinkRefused`, `PeerCloses`, `ModemReboots`) come at any time,
in particular after the driver's wait has timed out. `slack` is a history: what went
unanswered (`"open"`, `"close"`) since the modem was last known to have closed
connection 0. Bring-up is one step (`StackInit`): it fails, or it makes the stack ready
with PDP active or not, which is what `ModemBringup` shows of it. `GetAddrInfo` brings the
modem up like a connect, needs no socket, and drains the UART, so that it may throw away a
result a later connect would have misread. `Option` stands for all options: they set
timeouts and a host name, which no property tells apart. Socket calls come from one
thread, so calls do not overlap.

### AtLink and ModemBringup

A line is one of the few kinds that a wait can tell apart. Commands wait in `cmds`, answers
travel through `air` to `rx`; a wait reads lines until `Verdict` ends it and leaves the rest.
`fresh` marks lines that answer the last command, and `misread` remembers that a wait was
ended by another line; the code sees neither. A wait may time out whenever `rx` is empty,
and what was under way is lost, or comes later. At a wrong baud rate the modem hears nothing
and the driver reads noise.

`d.at` names the exchange under way, `Exchange` what it asks of the link, and one action per
exchange decides what comes next from its outcome. The functions that call each other in the
code (`ec801e_probe_uart_only` from three places, `ec801e_post_handshake_init` from three)
are operators from locals to locals, with `probeFor` and `postFor` as return addresses.
The deadline of the CEREG wait is `budget`, a number of polls that a restart may raise.
The modem (external) answers in order, may refuse anything but `AT` and `ATE0`, registers, and
restarts. One restart prints up to three of the markers the driver looks for (`RDY`, `^boot.rom`,
`PB DONE`), each of which may be counted as a restart. `powered` is false after a power cycle
that ends with EN at the level opposite to
the overlay's. Failures of `uart_configure`, of the GPIO calls and of
`device_is_ready` are left out.

### EchoServer

A goroutine is in `readFull` or `writeFull`, of a header or a payload. A unit stands for bytes
that travel together: a header is one, and the payload as many as the header says (`Announced`), which
the client chooses. Units outside `Header`, read as a header, have a wrong magic or the length zero and
end the connection. `load.Decode` reads `DroneLen` units of a payload: of a longer one the rest is
ignored and echoed; of a shorter one it indexes past the end, which panics and ends the process
(`ReadsShort`, `ProcessEnds`). `up` and `down` are bounded by `Window`, so a write makes progress or
times out half way, and a buffer longer than the window does not fit at all unless the client reads in
time; `torn` remembers that a buffer was begun again after a part of it had been sent, because what
follows on the wire is then not an echo. `stalls` counts write timeouts up to `StallLimit`.

### Roundtrip

Attempt *k* asks for connection *k*: the attempts are the peers of `SocketOffload` and the
connections of `EchoServer`, which lets a property say *which* connection an echo came
from. The modem's connection is the client end of `linkPeer`; closing it sets `gone`
at the server, a restart of the modem does not. A receive takes any non-empty prefix of what
has arrived, or loses it (a late or slow answer to `AT+QIRD` is thrown away by the
next `drain_rx`). `polls` up to `PollLimit` stands for the 30 s deadline of
`recv_all`. The clients of the server are all this firmware: one header, which announces a
whole Drone of `PayloadLen` units. A name that `net_addr_pton` rejects is a socket that could not
be opened.

### BitCopy, Codec and DroneBp

A buffer is a function from bit positions, and bits are symbolic: every bit of the sender's
struct has a name (`Named`), those above the width of a field included, so that one run
of a message shows where each bit of each value goes, and a value too large for its
field is covered too. `BitCopy` is the loop of `BpCopyBufferBits`: `CopyStep` is one iteration,
`Width` the word it assigns (0 when it merges), `Chunk` the bits it copies. `Call` starts
the next copy from any state that `Callable` allows: both ranges inside their buffers,
the target clear. An or of two different data bits is `Unknown`, so a merge over old bits
cannot go unseen.

`Codec` has the C call stack as `todo`. One action per function of `bitproto.c` replaces the
top of the stack by what that function does next; a base type starts a copy. The locals
of the extensible functions are `aheads`. `Encode`, `Decode`, `Format` are the three generated
entry points, one after the other on the same buffers; sender and receiver may have
different versions of the type. The json text is a sequence of tokens, a value being the
bits its conversion reads. `DroneBp` spells out the descriptors of the two `.bitproto` files.
A struct is its fields in order without the padding of the compiler, which the
descriptors skip by address.

`CallsAreLegal` is `BCSpec`: every behaviour of the codec is one of `BitCopy`, so what is
proved of the loop holds for the copies it makes.

### HidPolling

`mpc` walks main through boot and poll as in `HidMain`, with the same store underneath.
What differs is the PC: an edit begins (`HostBegins`) by leaving one of `Pieces` on the disk
(no file, an empty one, a line cut short, an address that mixes the new host with
any port) and ends with the line itself. `faults` bounds the errors of disk, file
system and USB, not those of the flash. `EnsureWrites` may leave the tail of a file that
exists but could not be opened for reading.

### EpdDraw and Epd

`EpdDraw` holds the pure half: a frame buffer is the set of its black pixels, a glyph is a
set of pixels, a text a sequence of bytes. The clipping, the order of the ends of a line,
the binary search in the font, the UTF-8 decoder and the dither are as in the code; that
bit 0x80 comes first in a byte and that zero is black is the same for everything, and
left out.

In `Epd` a call of the driver draws (`fb`) and then works off a script (`ops`): commands,
data, the picture, waits. Each element may fail (`Fails`), a byte before or after it reached
the panel. The panel is external and does what the driver's script relies on; `ram` and
`shown` say of each byte of the picture whether the panel has the current one or something
`Stale`. While BUSY is high the panel loses what it is sent. Texts are drawn one character
per step. Two callers are followed: `main` of the chip info program with its light
(`Breathe`), and any application that first initialises the driver.

`EpdLayout` models no code. It says of a text as a whole what the loop of
`epd_fb_draw_utf8_text12` finds out from character to character: where characters begin
(`Begins`: at every byte that is not within a well-formed sequence, `Whole`), which code
points they are (`CodePoint`), which index each has on its line, and so in which column and
row it stands (`Column`; `Row` counts the line feeds and the wraps before it).

## Runs

| Run | Checks | Bounds |
|---|---|---|
| `store` | `SATypeOK`, `RecordIsRunning`, `AddressIsEarned`, `FailBackRule`, `ImplementsFailBack` | 3 addresses, 1 malformed line, flash errors on, no bound on calls, failures or power losses |
| `hid_main` | `TypeOK`, `NoEjectIsLost`, `RecordOutlivesDisk` | 2 hosts, 2 ports, 5 kinds of line, driver errors, 2 edits, 1 loss of power |
| `hid_main_live` | `EjectIsProcessed` | 2 lines, 2 edits, 1 loss of power |
| `hid_main_dial` | *violation* of `DialsActiveAddress` | 2 lines, 2 edits |
| `socket_offload` | `SOTypeOK`, `LayersAgree`, `ConnectedToWanted`, `NoHiddenConnection` | 2 peers, unbounded calls, restarts and losses |
| `echo_server` | `ESTypeOK`, `EchoIsPrefix`, `ConnectionsEnd` | 1 connection, 2 rounds, payloads of 1 unit (too short), 2 and 3, window 1, 6 units from an arbitrary client |
| `roundtrip` | `RTTypeOK`, `SuccessIsEchoed`, `NothingIsLeaked`, `SessionEnds`, `ServerConnectionsEnd` | 2 attempts, 1 poll without data, frames of 3 units |
| `modem_bringup` | `MBTypeOK`, `RegisteredWhenReady`, `PdpWhenReady`, `OneAnswerBehind`, `BringUpEnds` | one call, 2 baud rates, 1 handshake try, 2 post-handshake attempts, power cycle at the first reboot hit, 1 poll after the first, 1 restart of up to 3 markers, 1 late answer |
| `modem_bringup_pdp` | *violation* of `ReadyHasPdp` | the same without restarts and late answers |
| `codec` | `CodecTypeOK`, `CopyIsExact`, `CopyStaysInside`, `WireIsDense`, `RoundTripIsExact`, `JsonIsComplete`, `CallsAreLegal` | all messages of the repository; every width from 1 to 64, signed and unsigned, at every bit offset; 11 kinds of array and alias at 2 offsets; 4 pairs of versions |
| `epd` | `EpdTypeOK`, `TextIsLaidOut`, `ShapesAreClipped`, `ShownWhenOk`, `CallsReturn` | a display of 16 by 6 pixels, glyphs of 3 by 3, texts of up to 4 bytes of 7 kinds, 2 pages, 3 calls |
| `hid_polling` | `RecordOutlivesDisk`, `EditIsTried` | 2 hosts, 2 ports, 4 lines, flash errors, 2 other errors, 2 edits, 1 loss of power |

Three more statements of the documents are stated in the modules and refuted in the same
way, but have no run of their own. To see the counterexample: put `BootNeedsOnlyTheRecord` in
the place of the properties of `ServAddr.cfg`, with `FlashFaults = FALSE`; `EditIsProbed` in
that of `EjectIsProcessed` in `MCHidMainLive.cfg`; `WriteRetriesLimited` in that of the
properties of `MCEchoServer.cfg`, with `StallLimit = 4`.

Why the bounds are enough.

- *store.* Three addresses are the running one, the candidate and a third that must not
  appear. Nothing else is bounded.
- *hid_main.* An address differs from another in host, port or both, and a host of one can
  meet a port of the other: two of each. The five lines are the five ways `hosts.txt`
  can be read: the default, another address, a bad port, empty, missing. Two edits are a
  change and a change back, which is what fools a comparison with a remembered value; one
  loss of power separates a first boot from a later one. Ejects and reloads are unbounded.
  The store's own errors are switched off here (`FlashFaults = FALSE`), since they cannot
  reach main's control beyond a return value; `store` has them.
- *socket_offload.* Two peers are the wanted one and another.
- *echo_server.* Connections share nothing but the process, so one is enough; two rounds
  show that a frame does not depend on the one before. A window of one unit is smaller than every
  payload that is echoed, so writes stop half way and may begin again for ever; the announced lengths are one
  that `Decode` runs off, a Drone's, and a longer one, and the client need not send what it announces.
  Six units are two whole frames. `Roundtrip` runs two connections side by side.
- *roundtrip.* Two attempts are one that fails and leaves something behind, and one
  that may trip over it. A window of 3 holds a whole reply, which is also true of the real
  frame of 69 bytes.

- *modem_bringup.* Two baud rates are the modem's and a wrong one; two attempts or polls are a
  first and a last. The code's counts (12 handshakes, 5 attempts, 3 reboot hits) repeat the
  same step. A power cycle at the first hit lets one restart reach the recovery; one late
  answer and one restart can be at any two moments of the call.
- *codec.* A copy depends on width, offset and what follows, all of which occur; names of
  bits are all different, so one run of a message stands for all its values. The arrays
  take the batch and the element path, with plain and aliased, signed and unsigned
  elements; the pairs of versions have the shorter receiver alone and inside others.
- *epd.* The text area reaches beyond the right and the lower edge, so that characters,
  rows and pages are cut; two columns and three rows make texts of four bytes wrap. The
  bytes are a line feed, a letter with a glyph, the parts of sequences of two and three,
  and two that begin none. The shapes have ends inside, on and beyond every edge. Three
  calls are init, one that fails at any operation, and one that must show its picture over
  what that left.
- *hid_polling.* Two edits are one that is overtaken by another; two errors can hit one poll and
  the next.

`CHECK_DEADLOCK FALSE` stands where the system may really stop: main ends on a boot
error (`HidMain`), every connection is served and closed (`EchoServer`), the session is
over (`Roundtrip`), the call has returned (`ModemBringup`), main ends on a boot error
(`HidPolling`) or because the strip is not ready (`Epd`). `ServAddr`, `SocketOffload` and
`Codec` are checked for deadlock.

Every property of a passing run has a mutant in `PROJECT.json`: a definition of the model
changed the way a plausible bug would change the code, with which TLC finds the property
violated. Their definitions stand next to what they mutate, marked `Mutant:`.

What the properties say.

- `RecordIsRunning`, `AddressIsEarned`, `FailBackRule`: see the store above.
- `NoEjectIsLost`: back in the loop with nothing pending, main remembers what the disk holds, unless the
  host wrote since its last eject or a refresh gave up on an error (`unsure`).
  It fails if the pending flag is cleared after the work instead of before it.
- `RecordOutlivesDisk`: an intact record is given up only by a promotion, of an address that answered and
  that the host has written since the power came on. A format, a default line, an empty or half-written file, a
  failed refresh: none of them costs it, in any order. It fails if the boot does not remember the text it
  read: the first refresh then promotes the default line of a disk that was formatted.
  Only a boot that cannot read the flash overwrites a record it has not seen, as `FailBack` says too.
- `EjectIsProcessed`: an eject is followed by a refresh of what was ejected, also when the cable has
  been pulled, with the same exception.
- `LayersAgree`: `ec801e_socket_opened` holds exactly for a connected TCP socket.
- `ConnectedToWanted`, `NoHiddenConnection`: whose connection the modem holds, and when.
- `EchoIsPrefix`: what the server sent is a prefix of what it read, unless a write tore.
- `ConnectionsEnd`: no connection is served for ever, whatever its client sends, announces or leaves out,
  if its direction down is not full again and again while the server writes (`Stuck`). Without
  that condition it fails: `writeFull` begins a reply longer than the window again and again, even for a client
  that reads.
- `ServerConnectionsEnd`: the same for this firmware as the client, without a condition: its reply
  fits the window.
- `SuccessIsEchoed`: a reported success has a connection that carried this frame to the
  server and back, whole.
- `NothingIsLeaked`: between attempts no socket is allocated, and the modem holds a
  connection only if it failed to answer.
- `OneAnswerBehind`: an exchange may leave an `OK` on the wire, but such leftovers do not add
  up, although several commands are sent without draining.
- `RegisteredWhenReady`, `PdpWhenReady`: what success of bring-up means. The second needs
  `~misread`; `ReadyHasPdp`, without it, fails.
- `BringUpEnds`: a call returns, through all its nested retries and recoveries.
- `SessionEnds`: the session ends, with a round trip or after the last attempt.
- `CopyIsExact`, `CopyStaysInside`: what one call of `BpCopyBufferBits` leaves in the target, and
  which bytes it reads and writes on the way.
- `WireIsDense`: after encoding the buffer holds the values, each cut to its width, in order
  and without gaps, then zeros. It is stated from the types (`Wire`), not from the walk.
- `RoundTripIsExact`: the decoder has the sender's values, with the sign extended, also
  when its version knows fewer fields.
- `JsonIsComplete`: the text is well-formed and every value is printed with all its bits. An
  int of more than 32 bits is left out, because it is not (see the findings).
- `TextIsLaidOut`: black are exactly the pixels of the glyphs of the text's code points, laid
  out in rows and cut at the edges; the decoder and the layout are stated again of
  the text as a whole (`EpdLayout`).
- `ShapesAreClipped`: a primitive changes the pixels of its shape that are on the screen.
- `ShownWhenOk`: a call that returned 0 left its picture on the panel, unless it began while
  the panel was still busy from an update whose wait had timed out (`lateStart`). Without
  that condition it fails: the panel ignores the picture, and the call returns 0.
- `CallsReturn`: every call of the driver returns, also when BUSY never falls.
- `EditIsTried`: a line that a sleeping main has not seen is probed by some later poll,
  unless it is changed, the power fails or a remount failed, after which the code polls no more.

## Fairness

- `HidMain`, `FairSpec`: weak fairness of main, which has the highest application priority
  and waits only with deadlines. Strong fairness of consumer, which can run only while main
  blocks: main sleeps a second in every turn of its loop, so consumer is enabled again and
  again, though not continuously. None for the host, the cable or the power.
- `EchoServer`, `ESSpec`: weak fairness of each goroutine; the Go scheduler runs it, and
  every read and write has a deadline. None for clients. `ConnectionsEnd` assumes that a
  write finds its direction full only finitely often, because `writeFull` has no other bound
  (`WriteRetriesLimited`).
- `ModemBringup`: weak fairness of the driver, which polls with a deadline in every wait. None
  for the modem: every answer may be lost. Restarts are bounded: a modem that restarts
  for ever moves the registration deadline on for ever.
- `Epd`: weak fairness of `Drive`, the driver's own steps. A failing read of BUSY (`PollFails`) is
  not among them, so no call may rely on an error to return; none for the panel.
- `HidPolling`: weak fairness of main, whose sleeps and calls end. None for the PC and the power.
- `Roundtrip`: weak fairness of the client, whose every wait has a deadline, and of
  the goroutines. None for the modem, the network or the accept loop.

## Proofs

TLAPS checks these for every value of the constants.

`ServAddrProofs`, from `TextAssumption` (addresses, malformed lines and the empty text are
different), `FlashAssumption` (blank and torn partitions are not texts) and
`FaultsAssumption`:

- `TypeCorrect`, `RecordSafety`, `EarnedSafety`: `[]SATypeOK`, `[]RecordIsRunning`,
  `[]AddressIsEarned`.
- `FailBackSafety`: the action property `FailBackRule`.
- `Refinement`: `SASpec => ImplementsFailBack`.

`RecordIsRunning` speaks of the moments between calls and is not inductive. `SAInv` adds
what a call in progress has established: an address is valid from the end of a successful
init on (`PhaseOK`); a write starts from a blank partition, a commit finds the record in
flash, and a save on behalf of a promotion is of an address that answered (`SaveOK`);
and flash equals RAM up to the erase of a promotion (`RecordOK`). `StepInv` has a case for
each action. The refinement then needs only `SAInv`: every step is a step of `FailBack` or a
stutter.

`SocketOffloadProofs`, from `PeerAssumption`:

- `SOTypeCorrect`, `LayersAlwaysAgree`, `ConnectionSafety`, `HiddenConnectionSafety`:
  the four invariants of the run.

`SOInv` adds what is true while a connect waits: it belongs to an allocated,
unconnected socket (`ConnectInProgress`); while a TCP connect waits the modem has no other
connection unless an `AT+QICLOSE` went unanswered (`DialledIsWanted`); an error result is
true unless something went unanswered (`RefusedIsClosed`); and a connection without a
connected socket is owed to an unanswered command or to a connect that still waits
(`NothingHidden`). `DialsEffect` and `DialsIfClosed` say what an `AT+QIOPEN` leaves behind.

`Create`, `GetAddrInfo`, `Option` and `GetPeerName` have cases of their own, since a lookup changes
`stackReady`, `pdp` and `urc` at any moment between two connects.

`BitCopyProofs`, from `MaxBytesAssumption`:

- `CopyTypeCorrect`, `CopyCorrect`, `CopyContained`: `[]BCTypeOK`, `[]CopyIsExact`,
  `[]CopyStaysInside`, for buffers of any length, any number of bits and any two offsets.
- `CopyProgresses`: every iteration copies at least one bit and never more than remain.

`CopyIsExact` speaks of the end of the loop. `IInv` says how far it has come: the done bits
are in place (`Copied`), the rest of the target is clear up to the end of its last byte
(`StillClear`), all else is old (`OthersOld`), and the positions agree with the call
(`Progress`, `InRange`). `ChunkFits` is the arithmetic: the word an iteration assigns ends where
the last byte of either range ends, or before, for every width and offset. `WrittenBit` says
bit by bit what an iteration leaves, and `CopyStepPreserves` puts the two together.
The codec reaches these theorems through `CallsAreLegal`, which TLC checks: `Codec` declares
recursive operators and cannot hold theorems.

`FirmwareProofs`, from `LinesAssumption`, `StoreAssumption` and `BoundsAssumption` of `HostsFile`,
`DriverAssumption` and `FaultAssumption`:

- `HidTypeCorrect`, `NoEjectLost`: `[]TypeOK`, `[]NoEjectIsLost`.
- `StoreUsedLegally`: `Spec => SP!SASpec /\ [](InPlace /\ KnowsDisk)`. Main calls the store as it needs
  to be called, so the firmware implements `SASpec`, and with `Refinement` also `FailBack`.
- `RecordSurvives`: `Spec => RecordOutlivesDisk`.
- `DiskTypeCorrect`, `PollingUsesStoreLegally`, `PollingRecordSurvives`: the types of the polling firmware's
  disk, and the same two theorems of it.

`StoreUsedLegally` is what the unguarded calls make necessary. `InPlace` says for each place of main where the
store is: down until main has read `hosts.txt` at boot, in the one init while main is in it, idle
wherever main may come to a promotion. `StoreStep` then shows for each action that the store takes a
step `SANext` allows, or none. `KnowsDisk` is what `RecordOutlivesDisk` needs: a text on the disk that main does
not remember is one that the host has written since the power came on, and within a promotion so is
the candidate. `RecordKept` puts it together with `SAInv`: what erases an intact record is a promotion whose
candidate has answered.

`NoEjectIsLost` speaks of a main that is back in its loop. `Remembers` carries it from the first
read of the boot on: outside a refresh main remembers what the disk holds, and within a promotion
the address on its way to `lastHost` is what the disk holds. That a promotion gets an
address at all is `PromotesText`, and that nobody can eject before USB is up is `BootIsAlone`.
For the polling firmware the invariant is what a poll may read: `PiecesAreContent` says that a
half-written line is still a text the store knows.

`EchoServerProofs`, from `SizesAssumption`:

- `ESTypeCorrect`, `EchoSafety`: `[]ESTypeOK`, `[]EchoIsPrefix`, for any number of connections and
  rounds, any headers and lengths that clients announce, too short ones included, and windows of any size.

A prefix is not inductive. `Balance` is: what a goroutine has read is what it has written and what it
still owes (`Owed`, the part of the frame it holds), and a connection that has ended may owe anything.
`Frame` and `Wire` bound what a goroutine holds and what is on the wire. `OneConnection` says
that a step touches one connection, so that each action is proved for that one.

`RoundtripProofs`, from `RetriesAssumption`, `NoPeerAssumption`, `SizesAssumption` and `FrameFits`:

- `NothingLeaks`: `[]NothingIsLeaked`, for any number of attempts. Beyond `SOInv` it takes only where the
  session is (`Place`).
- `SuccessEchoed`, `RTTypeCorrect`: `[]SuccessIsEchoed`, `[]RTTypeOK`, for any number of attempts and polls,
  and frames of any length.

The lemma `SocketIsOffload` brings the theorems of `SocketOffloadProofs` into the composition: where the session is
(`Place`) decides which socket calls come next, and `SocketStep` shows that these are calls of `SocketOffload`.

`RTInv`, the invariant behind the last two, has three parts. `Streams` is `ESInv` of `EchoServerProofs` and,
for each connection, that the units on it are those of one frame, each at most once: what the server has
taken and what is on the way to it (`taken`, `up`), and what it has sent and the client has yet to receive
(`sent`, `down`). `Linked` says that the modem's connection is one the server knows, how much of the frame was sent on it
while the client sends, and that a result which still announces it is older than all of that. `Session` says
that a result is `ok` only when some connection has carried the frame there and back.
The steps of the server are not proved again: the lemmas of `EchoServerProofs`
about them (`SentWasTaken`, `WireChanges`, `ServesKeepsInv`) are used through `EP`, and `SameServer` says
that the goroutines are the same. `LastUnitMeansEchoed` is where the two ends meet: who receives
the last unit has been sent all the others before.

`FrameFits` says that a frame is smaller than the window, as 69 bytes are for any TCP connection, and
than `SendLimit`, which bounds what `EchoServer` lets a client send. The first is needed: with a window of 2 and a payload of 2, TLC
finds that the server writes half the payload, times out, begins again (`torn`), that a receive
of the first half is lost, and that the client makes its frame of what is sent again. It has received the
right bytes, but not as one echo. `NeverFull` shows that with `FrameFits` a write
of this firmware's frame is not torn, which `EchoServer` alone allows and `EchoIsPrefix` exempts.

`ModemBringupProofs`, from `BringupAssumption` and `LateAssumption`, for any number of baud rates, tries,
polls, restarts, calls and late answers:

- `MBTypeCorrect`, `Registration`: `[]MBTypeOK`, `[]RegisteredWhenReady`.
- `ContextIsActive`: `[]PdpWhenReady`.
- `LeftoversDoNotAddUp`: `[]OneAnswerBehind`.

*Registration* (`MBInv`). `NoFalseReg` follows the status from the modem to the decision: on the wire it is true;
once in the UART or read it was true in this call, or it is left over from before a restart, which only the
first command of the next call can meet, and that one drains first (`SelfDrains`); and behind the wait for
registration (`Attached`) the modem has registered or restarted. `Early` and `Beyond` split the locals at
that wait: the lemmas about `Goto`, `Fails`, the starts and the returns say that no function of the driver but the
end of the wait leads from one to the other. A boot power cycles twice at most (the bound of `cycles`)
because of what `Early` says of a pending cycle.

*The context* (`PdpInv`). What has to be followed is which command a line answers. `AnswersFit` says that
during a wait the lines that answer its command are the last there will be, that the command
itself is the last one waiting, and that an `OK` which answers `AT+QIACT=1` means an active context.
`PdpFollowed` carries this along the exchanges. The command before the first question leaves the line
silent when nothing was misread (`Silent`), so no earlier `AT+QIDEACT=1` is about to be executed
(`NoDeact`). While the driver asks, a status it reads is that of a context which stays; and behind
a successful activation the context is active.

*Left-over answers* (`Tidy`). A line is followed by its position among those the driver has yet to read
(`Owed`, which the arrival of a line does not change). There is one end of an answer at most, or during a
wait one that was left over and one that answers (`OneEach`), and a command not yet executed takes the place of
an end (`FewCommands`). So each wait ends with at most one end still to come. The exception is
`AT+CPIN?`, whose wait ends at the status, before the end of its answer: `SimFirst` says that the
status stands behind another end only while the SIM is asked for, and `SimGone` that the handshake and
`ATE0` use up what an earlier question left, so that two such questions do not add up. `Tidy` says nothing
of an answer that came too late or of a restart, and neither does `OneAnswerBehind`; it rests on `MBInv` and
on `AnswersFit`.

Two operators of `AtLink` are written so that they can be reasoned about: `Verdict` is a chain of
conditions, in the order in which `ec801e_wait_response` looks for the patterns, and `Finals` counts positions.

`EpdProofs`, from `DisplayAssumption`, `FontAssumption`, `TextAssumption`, `ShapesAssumption` and
`CallsAssumption`, for a display, a font, texts, shapes and spacings of any size:

- `EpdTypeCorrect`: `[]EpdTypeOK`.
- `ShapesClipped`: `[]ShapesAreClipped`.
- `GlyphIsFound`: the binary search returns the glyph of a code point if the table has it, and none
  otherwise.
- `DecoderDecodes`: at every byte of every text the decoder returns the reference's code point,
  and goes on behind the sequence.
- `PageLaidOut`: `[]TextIsLaidOut`.
- `PictureIsShown`: `[]ShownWhenOk`.

*The assumptions.* A row of the screen is whole bytes, and the number of a row fits one, since
the driver sends it as one (the screen is 200 by 200). The table of glyphs is sorted and no
glyph leaves its cell, as the generator of the table writes it. A text has no zero byte,
which ends it, there is at least one column, and default spacings are not negative (the setters
clip theirs to zero). Integers are unbounded: coordinates are assumed to be so far from the ends
of `int` that adding a width does not overflow.

*Types* (`Types`). What is not obvious is that a pixel of the frame buffer is one of the
screen's (`SetPixelsInRange`), that the decoder does not step behind the end of the text
(`DecoderStaysInText`), that the dithered picture fits, and that green and blue share
the brightness although both are rounded (`LightIsShared`).

*Shapes.* `HlineCovers`, `VlineCovers` and `MovedCovers` say which points a clipped line or glyph has,
`PaintedIsDrawn` that painting points of the screen changes their pixels and no others, since
an index determines its pixel (`IndexIsInjective`). A box, a filled one and a short text are
put together from them (`BoxIsDrawn`, `ShortTextIsDrawn`).

*The search.* `FindGlyph` is a recursive function over spans. `Found` says what a span holds;
`SearchHalves` that `Found` obeys the equation of the search, as the table is sorted. That the search
is `Found` takes the shortest span on which they differ (`LeastNumber`): both halves of it are
shorter.

*A page.* `LeadingBits` turns the masks of the decoder into ranges, and four lemmas about `Whole`
compare the cases, a truncated sequence at the end of the text included. `NextBegins` says that the
decoder goes from the beginning of a character to the beginning of the next. The
invariant of the loop is `Laying`: the black pixels are those of the cells before `p`; `row`
is the number of breaks before `p`, and `col` the index on the line modulo the columns, a full row
being `MaxCols` until the next character wraps it (`WrapIsFull`, `PlaceIsRight`); or the rows are used up, and
then every later character is below the last (`RowsGrow`). `LayingEnds` turns this into
`TextIsLaidOut`.

*The panel* (`Presenting`, `Shown`). `PanelAt(d, k)` says what a panel knows after k operations of a
presentation: the window and the cursor as far as they are sent, the bytes of the picture stored at
their places, and the update. `OperationSent` goes from k to k + 1, without a word about
what the panel held before, so that no earlier failure matters; `ByteStored` is the arithmetic of the cursor,
which moves on a byte and at the end of a row to the next. A call that began while the panel was busy
(`lateStart`) is exempt, because what it sends first is lost.

Only model-checked:

- `CodecTypeOK`, `WireIsDense`, `RoundTripIsExact`, `JsonIsComplete`, `CallsAreLegal`: the walk over a
  descriptor is recursive, and its result for every descriptor needs induction over data, which is out of this
  prover's reach; `Codec` states it with recursive operators, so it can hold no theorem. What the walk
  does with bits is `BitCopy`, which is proved.
- The liveness properties `EjectIsProcessed`, `ConnectionsEnd`, `ServerConnectionsEnd`, `SessionEnds`,
  `BringUpEnds`, `CallsReturn` and `EditIsTried`, since liveness under fairness and `ENABLED` are out of
  reach; and the violations.

## Where the code and its documents disagree

| Run | Document | Code |
|---|---|---|
| | `docs/usb-hid-dev-guide.md:250`: the active address is restored whatever `hosts.txt` holds | `serv_addr_init` refuses an empty text before it reads the record, and main ends (`serv_addr.c:234`) |
| | `docs/usb-hid-dev-guide.md:23`: a changed `hosts.txt` is probed | an edit followed by a power cycle instead of an eject is taken for known at boot (`main_ec801e_hid.c:351`) |
| `hid_main_dial` | `docs/usb-hid-dev-guide.md:347-351`: `get_serv_addr` is what to connect to | the session dials `serv_ip`, `serv_port`, also half updated (`main_ec801e_hid.c:540`) |
| | `README.md:72`: limited retries on write | `writeFull` does not count them (`main.go:73`) |
| `modem_bringup_pdp` | `docs/ec801e_4g_guide.md:193`, `:107`: bring-up activates PDP, and `OK` says so | the `OK` left over from `AT+CPIN?` is handed on until it answers `AT+QIACT=1` (`ec801e.c:508`) |
| | `README.md:69`, `:82-85`: three rounds | every path of the loop breaks (`drone.c:100`); `RTTypeOK` bounds `rounds` by one |
| | `ec801e.c:671`: a failed probe is followed by power cycles | a silent modem fails the self-test and never gets there (`ec801e.c:1111`); the last power cycle of a boot leaves it silent |
| | `docs/ec801e_4g_guide.md:148`: TLS is supported | the TLS open never sets `ec801e_socket_opened`, so nothing can be sent (`ec801e.c:835`); `LayersAgree` says so |
| | `ec801e.c:163`: a restart of the modem is recovered by the upper layer | `ec801e_stack_ready` is never cleared, so later dials lack a PDP context (`ec801e.c:1106`) |
| | `bitproto.c:274`: redundant bits of an extensible array are skipped | the skip is the product of both capacities, without the bits of an element (`bitproto.c:277`) |
| | `bitproto.c:629`: the 32-bit build differs | an int64 is printed as a `long` and loses its high word on the ESP32-S3 (`bitproto.c:644`) |
| | `protocol_tcpip/drone.bitproto:55`: a signal is between 1 and 10 | the frame sends 15 (`drone.c:28`) |
| | `docs/e-paper-guide.md:147`: the functions wait until BUSY is released | only an update is waited for; after a timeout the next call writes to a busy panel (`epd200x200.c:554`) |
| | `docs/e-paper-guide.md:129`: column spacing 1 before the demo | the demo passes 16 columns all the same: of a full row the last character is cut off (`epd200x200.c:820`) |

## What is not modelled

- *Bytes of the AT link.* A pattern is matched when its line is complete; in the code it may match
  earlier, which leaves the rest of the line as noise.
- *A second call of bring-up* is in the module, but beyond the bound of its run.
- *What a lookup returns.* The address and the static result of `getaddrinfo` are not kept by any
  layer, and both users run in main; that a lookup brings the modem up is modelled. In
  `ServAddr` a probe is one step, lookup included.
- *bitproto:* the big-endian build; the conversions to and from floats, which no program calls; the
  characters of the json text; the Go twins of the generated files, of whose result the
  server only checks the magic and logs the rest.
- *Headers that announce the same length* at the server are one unit; what `Decode` makes of a payload that
  is long enough is only logged.
- *Overflow of coordinates.* Adding a width to a coordinate near the end of `int` is undefined in C;
  the callers of the repository draw on and around a screen of 200 by 200.
- *Glyphs.* `zpix12_font_data.c` is a generated table of 7,515 glyphs and a constant here. `Epd`
  assumes of it what the search and the drawing need: distinct code points in order, and no pixel
  outside 12 by 12 (`FontAssumption`). The table has both, and a question mark.
- *Diagnostics, HTTP trace, printed chip information.* Queries and text without state that
  outlives a call.
- *Font tools.* Offline converters.
- Text: trimming and splitting lines is abstracted to which kind of line it is.
- `RereadFails` takes a missing file and a failed read alike: both return before
  `last_host_value` changes.

## Plan

Done, in this order: the store and its abstract specification; the firmware around it; the
socket layers; the server; the composition of client, socket, modem and server; the AT link
and bring-up; proofs of the store and of the socket layers; the bit copy with its proofs, the
codec and the descriptors on top of it; the polling firmware as a second composition of the
store; the e-paper driver with its panel; proofs of both firmwares, the server, the session's
use of the socket, and bring-up; proofs that a success of the session was echoed, that the context of a
ready stack is active, and that left-over answers do not add up; proofs of the drawing, the
page layout and the panel.

Next, by importance:

1. The walk of the codec for well-formed descriptors of any shape, if a prover for induction over
   data becomes available: `CallsAreLegal` first, since it carries the theorems of `BitCopyProofs`
   over to the codec.
2. The HTTP trace of `main_ec801e.c`, if it gets state worth checking.

Runs are one per question. Room for those of the next modules comes from merging runs that
share a module and its bounds.
